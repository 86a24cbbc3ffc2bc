-------------------------------- MODULE HpaRx --------------------------------
(***************************************************************************)
(* The receive path of the management CPU, as the driver has it: the HPA   *)
(* descriptor ring and its interrupt handler                               *)
(* (platform/soc/bcm53158/robo2/hpa.c), and the packet-buffer pool, the    *)
(* packet queue and the RX task (src/drivers/fsal/rx.c).                   *)
(*                                                                         *)
(* Three actors share the state: the DMA engine, the interrupt handler and *)
(* the RX task.  The handler preempts the task at every step at which the  *)
(* HPA interrupt is enabled; the sections the code brackets with           *)
(* m7_disable_intr / m7_enable_intr are single steps of the task.  The DMA *)
(* engine interleaves with both, also between two descriptor reads of one  *)
(* scan of the ring.                                                       *)
(*                                                                         *)
(* The build modelled is the one include/fsal_int/pkt.h selects:           *)
(* CONFIG_STATIC_PKTBUF, in which all buffers are in one static region.    *)
(* Init is the state cbxi_rx_init leaves behind.                           *)
(***************************************************************************)
EXTENDS Naturals, Sequences, FiniteSets

CONSTANTS
    Buf,          \* the packet buffers of rx_buffer_region
    NULL,         \* the null pointer
    NDESC,        \* HPA_MAX_HW_RX_DESCR (8 in the source)
    MaxChunks,    \* descriptors the largest frame fills
    CNT           \* the packet counters count modulo CNT (2^32 in the source)

ASSUME BufAssumption   == IsFiniteSet(Buf) /\ NULL \notin Buf
ASSUME NDescAssumption == NDESC \in Nat \ {0} /\ NDESC <= Cardinality(Buf)
ASSUME ChunkAssumption == MaxChunks \in Nat \ {0}
ASSUME CountAssumption == CNT \in Nat /\ CNT > Cardinality(Buf)

Desc    == 0 .. NDESC - 1
Ptr     == Buf \cup {NULL}
Flag    == {"VALID", "SOP", "MID", "EOP"}
Intr    == {"RX_DONE", "RX_EMPTY", "RX_AXIERR"}
Context == {"isr", "task"}

VARIABLES
    \* the hardware
    desc,         \* the descriptor ring: owner, buffer, start and end marks
    hw_cur,       \* where the DMA engine is, modulo 2 * NDESC
    cpu_cur,      \* HPA_RX_CPU_CUR_DESC_PTR: where it has to stop
    hw_left,      \* chunks still to come of the frame it is writing
    intsts,       \* HPA_INT_STS
    irq_en,       \* HPA_IRQn enabled in the interrupt controller
    \* the statics of hpa.c
    rx_pkt_reaped, chain_active,
    \* the packet headers (cbxi_pkt_t)
    next, flags,
    \* rx_cb
    pool_head, pool_tail, num_in_pool,
    queue_head, queue_tail, rx_current_chain, rx_current_chain_num,
    num_enqueued, num_processed, chain_drop, sem,
    \* control
    isr,          \* where hpa_handler is
    task,         \* where cbxi_rx_task is
    pkt,          \* its local variable of that name
    scan          \* the locals of hpa_rx_ready, per context that runs it

hwvars    == <<hw_cur, hw_left>>
poolvars  == <<pool_head, pool_tail, num_in_pool>>
queuevars == <<queue_head, queue_tail, rx_current_chain, rx_current_chain_num,
               num_enqueued>>
taskvars  == <<num_processed, chain_drop, task, pkt>>
vars == <<desc, hwvars, cpu_cur, intsts, irq_en, rx_pkt_reaped, chain_active,
          next, flags, poolvars, queuevars, taskvars, sem, isr, scan>>

IsrPc  == {"idle", "status", "ack_done", "ack_empty", "ack_axierr",
           "rx_ready"}
TaskPc == {"dqueue", "count", "process", "disable", "rx_ready", "enable",
           "check", "wait"}

-----------------------------------------------------------------------------
(* Buffers and lists.                                                       *)

\* The n-th element of the list that starts at b, or its last element when
\* the list is shorter.
Walk(b, nxt) ==
    LET w[n \in 0 .. Cardinality(Buf)] ==
          IF n = 0 THEN b
          ELSE IF nxt[w[n - 1]] = NULL THEN w[n - 1] ELSE nxt[w[n - 1]]
    IN  w

\* What `while (tmppkt->next != NULL) tmppkt = tmppkt->next` stops at; on a
\* cyclic list it never stops, which Cyclic tells.
LastOf(b, nxt) == Walk(b, nxt)[Cardinality(Buf)]
Cyclic(b, nxt) == nxt[LastOf(b, nxt)] # NULL

\* The first n buffers of the list that starts at b.
Listed(b, n) == { Walk(b, next)[i] : i \in 0 .. n - 1 }

Backlog == (num_enqueued + CNT - num_processed) % CNT

\* Mutation: the tail is left behind when the last buffer is taken.
AllocFrom_KeepTail(ptr) ==
    /\ ptr = pool_head
    /\ pool_head'   = next[ptr]
    /\ pool_tail'   = pool_tail
    /\ num_in_pool' = num_in_pool - 1

\* cbxi_rx_buffer_alloc: take the head of the pool; the guard num_in_pool > 0
\* is the caller's.
AllocFrom(ptr) ==
    /\ ptr = pool_head
    /\ pool_head'   = next[ptr]
    /\ pool_tail'   = IF ptr = pool_tail THEN NULL ELSE pool_tail
    /\ num_in_pool' = num_in_pool - 1

\* Mutation: the freed buffer is not linked behind the old tail.
FreeToPool_Unlinked(ptr) ==
    /\ IF pool_tail # NULL THEN UNCHANGED <<next, pool_head>>
                          ELSE pool_head' = ptr /\ UNCHANGED next
    /\ pool_tail'   = ptr
    /\ num_in_pool' = num_in_pool + 1
    /\ flags'       = [flags EXCEPT ![ptr] = {}]

\* Mutation: the pool's counter is not incremented.
FreeToPool_Uncounted(ptr) ==
    /\ IF pool_tail # NULL
       THEN next' = [next EXCEPT ![pool_tail] = ptr] /\ UNCHANGED pool_head
       ELSE pool_head' = ptr /\ UNCHANGED next
    /\ pool_tail'   = ptr
    /\ num_in_pool' = num_in_pool
    /\ flags'       = [flags EXCEPT ![ptr] = {}]

\* cbxi_rx_buffer_free: append to the pool.  ptr->next is left as it is.
FreeToPool(ptr) ==
    /\ IF pool_tail # NULL
       THEN next' = [next EXCEPT ![pool_tail] = ptr] /\ UNCHANGED pool_head
       ELSE pool_head' = ptr /\ UNCHANGED next
    /\ pool_tail'   = ptr
    /\ num_in_pool' = num_in_pool + 1
    /\ flags'       = [flags EXCEPT ![ptr] = {}]

\* Mutation: the semaphore is not given.
WakeUpRxTask_Silent == UNCHANGED sem

\* wake_up_rxtask: the semaphore is binary.
WakeUpRxTask == sem' = 1

-----------------------------------------------------------------------------
(* The DMA engine: external, from how hpa.c drives it.                      *)

\* A received frame, or the next chunk of it, fills the next descriptor; the
\* engine stops at HPA_RX_CPU_CUR_DESC_PTR and at a descriptor it does not own.
HwClose ==
    LET d == hw_cur % NDESC IN
    /\ hw_cur # cpu_cur
    /\ desc[d].own = "HPA"
    /\ \E left \in IF hw_left = 0 THEN 0 .. MaxChunks - 1 ELSE {hw_left - 1} :
         /\ hw_left' = left
         /\ desc' = [desc EXCEPT ![d] = [@ EXCEPT !.own = "CPU",
                                                 !.sop = (hw_left = 0),
                                                 !.eop = (left = 0)]]
    /\ hw_cur' = (hw_cur + 1) % (2 * NDESC)
    /\ intsts' = intsts \cup {"RX_DONE"}
                       \cup (IF hw_cur' = cpu_cur THEN {"RX_EMPTY"} ELSE {})
    /\ UNCHANGED <<cpu_cur, irq_en, rx_pkt_reaped, chain_active, next, flags,
                   poolvars, queuevars, taskvars, sem, isr, scan>>

HwAxiError ==
    /\ "RX_AXIERR" \notin intsts
    /\ intsts' = intsts \cup {"RX_AXIERR"}
    /\ UNCHANGED <<desc, hwvars, cpu_cur, irq_en, rx_pkt_reaped, chain_active,
                   next, flags, poolvars, queuevars, taskvars, sem, isr, scan>>

-----------------------------------------------------------------------------
(* cbxi_rx_enqueue.  nxt is `next` after the allocation that precedes it.   *)

\* The tail of cbxi_rx_enqueue: link p into the queue, count its n buffers.
LinkPacket(p, n, nxt) ==
    /\ IF queue_tail = NULL
       THEN queue_head' = p /\ next' = nxt
       ELSE next' = [nxt EXCEPT ![queue_tail] = p] /\ UNCHANGED queue_head
    /\ queue_tail'   = p
    /\ num_enqueued' = (num_enqueued + n) % CNT
    /\ WakeUpRxTask

EnqueueFrame(b, nxt) ==
    /\ LinkPacket(b, 1, nxt)
    /\ UNCHANGED <<rx_current_chain, rx_current_chain_num>>

EnqueueFirst(b, nxt) ==
    /\ rx_current_chain' = b
    /\ rx_current_chain_num' = 1
    /\ next' = nxt
    /\ UNCHANGED <<queue_head, queue_tail, num_enqueued, sem>>

EnqueueMiddle(b, nxt) ==
    /\ ~Cyclic(rx_current_chain, nxt)
    /\ next' = [nxt EXCEPT ![LastOf(rx_current_chain, nxt)] = b]
    /\ rx_current_chain_num' = rx_current_chain_num + 1
    /\ UNCHANGED <<queue_head, queue_tail, rx_current_chain, num_enqueued, sem>>

\* The queue is given the head of the chain, also as its new tail.
EnqueueLast(b, nxt) ==
    /\ ~Cyclic(rx_current_chain, nxt)
    /\ LinkPacket(rx_current_chain, rx_current_chain_num + 1,
                  [nxt EXCEPT ![LastOf(rx_current_chain, nxt)] = b])
    /\ rx_current_chain' = NULL
    /\ rx_current_chain_num' = 0

Enqueue(b, sop, eop, nxt) ==
    /\ flags' = [flags EXCEPT ![b] =
                   {"VALID"} \cup (IF sop THEN {"SOP"} ELSE {})
                            \cup (IF eop THEN {"EOP"} ELSE {})
                            \cup (IF ~sop /\ ~eop THEN {"MID"} ELSE {})]
    /\ \/ sop /\ eop   /\ EnqueueFrame(b, nxt)
       \/ sop /\ ~eop  /\ EnqueueFirst(b, nxt)
       \/ ~sop /\ ~eop /\ EnqueueMiddle(b, nxt)
       \/ ~sop /\ eop  /\ EnqueueLast(b, nxt)

-----------------------------------------------------------------------------
(* hpa_rx_ready, run by the interrupt handler or by the RX task: NDESC + 1  *)
(* iterations of hpa_process_rx_desc from rx_pkt_reaped on.                 *)

NoScan    == [descid |-> 0, left |-> 0, npkts |-> 0]
BeginScan == [descid |-> rx_pkt_reaped % NDESC, left |-> NDESC + 1, npkts |-> 0]

Running(c) == IF c = "isr" THEN isr = "rx_ready"
                           ELSE task = "rx_ready" /\ isr = "idle"

Scanned(c) == desc[scan[c].descid]

\* The frame part in the descriptor is one that may be processed now.
Acceptable(d) ==
    /\ d.own = "CPU"
    /\ d.address # NULL
    /\ d.sop \/ chain_active

\* Mutation: descriptors found empty are counted as well.
NextDesc_CountAll(c, n) ==
    scan' = [scan EXCEPT ![c] = [descid |-> (@.descid + 1) % NDESC,
                                 left   |-> @.left - 1,
                                 npkts  |-> @.npkts + 1]]

NextDesc(c, n) ==
    scan' = [scan EXCEPT ![c] = [descid |-> (@.descid + 1) % NDESC,
                                 left   |-> @.left - 1,
                                 npkts  |-> @.npkts + n]]

\* SOC_E_EMPTY: go on with the next descriptor.
ScanEmpty(c) ==
    /\ Running(c) /\ scan[c].left > 0
    /\ ~Acceptable(Scanned(c))
    /\ NextDesc(c, 0)
    /\ UNCHANGED <<desc, hwvars, cpu_cur, intsts, irq_en, rx_pkt_reaped,
                   chain_active, next, flags, poolvars, queuevars, taskvars,
                   sem, isr>>

\* SOC_E_MEMORY: no buffer to refill the descriptor with ends the scan.
ScanNoBuffer(c) ==
    /\ Running(c) /\ scan[c].left > 0
    /\ Acceptable(Scanned(c))
    /\ num_in_pool = 0
    /\ WakeUpRxTask
    /\ scan' = [scan EXCEPT ![c].left = 0]
    /\ UNCHANGED <<desc, hwvars, cpu_cur, intsts, irq_en, rx_pkt_reaped,
                   chain_active, next, flags, poolvars, queuevars, taskvars, isr>>

\* SOC_E_NONE: enqueue what the descriptor holds and refill it.
ScanTake(c) ==
    LET d == Scanned(c) IN
    /\ Running(c) /\ scan[c].left > 0
    /\ Acceptable(d)
    /\ num_in_pool > 0
    /\ \E addr \in Buf :
         /\ AllocFrom(addr)
         /\ Enqueue(d.address, d.sop, d.eop, [next EXCEPT ![addr] = NULL])
         /\ desc' = [desc EXCEPT ![scan[c].descid] =
              [own |-> "HPA", address |-> addr, sop |-> FALSE, eop |-> FALSE]]
    /\ chain_active' = (IF d.eop /\ ~d.sop THEN FALSE
                        ELSE IF d.sop /\ ~d.eop THEN TRUE ELSE chain_active)
    /\ NextDesc(c, 1)
    /\ UNCHANGED <<hwvars, cpu_cur, intsts, irq_en, rx_pkt_reaped, taskvars, isr>>

\* Both ring pointers count modulo twice the size of the ring.
Advance(ptr, n) == (ptr + n) % (2 * NDESC)

\* Mutation: RX_DONE is acknowledged (again) when the scan is over.
ScanEnd_LateAck(c) ==
    LET n == scan[c].npkts IN
    /\ Running(c) /\ scan[c].left = 0
    /\ cpu_cur' = Advance(cpu_cur, n)
    /\ rx_pkt_reaped' = Advance(rx_pkt_reaped, n)
    /\ scan' = [scan EXCEPT ![c] = NoScan]
    /\ IF c = "isr" THEN isr' = "status" /\ UNCHANGED task
                    ELSE task' = "enable" /\ UNCHANGED isr
    /\ intsts' = intsts \ {"RX_DONE"}
    /\ UNCHANGED <<desc, hwvars, irq_en, chain_active, next, flags,
                   poolvars, queuevars, num_processed, chain_drop, pkt, sem>>

\* After the loop: hand the refilled descriptors to the DMA engine.
ScanEnd(c) ==
    LET n == scan[c].npkts IN
    /\ Running(c) /\ scan[c].left = 0
    /\ cpu_cur' = Advance(cpu_cur, n)
    /\ rx_pkt_reaped' = Advance(rx_pkt_reaped, n)
    /\ scan' = [scan EXCEPT ![c] = NoScan]
    /\ IF c = "isr" THEN isr' = "status" /\ UNCHANGED task
                    ELSE task' = "enable" /\ UNCHANGED isr
    /\ UNCHANGED <<desc, hwvars, intsts, irq_en, chain_active, next, flags,
                   poolvars, queuevars, num_processed, chain_drop, pkt, sem>>

RxReady(c) == ScanEmpty(c) \/ ScanNoBuffer(c) \/ ScanTake(c) \/ ScanEnd(c)

-----------------------------------------------------------------------------
(* hpa_handler, which runs with interrupts disabled until HPA_INT_STS is 0. *)

IsrUnchanged == UNCHANGED <<desc, hwvars, cpu_cur, irq_en, rx_pkt_reaped,
                            chain_active, next, flags, poolvars, queuevars,
                            taskvars>>

IsrEnter ==
    /\ isr = "idle" /\ irq_en /\ intsts # {}
    /\ isr' = "status"
    /\ UNCHANGED <<intsts, sem, scan>> /\ IsrUnchanged

\* One read of the status register, and the branch it selects.
IsrStatus ==
    /\ isr = "status"
    /\ isr' = IF intsts = {} THEN "idle"
              ELSE IF "RX_DONE" \in intsts THEN "ack_done"
              ELSE IF "RX_EMPTY" \in intsts THEN "ack_empty" ELSE "ack_axierr"
    /\ UNCHANGED <<intsts, sem, scan>> /\ IsrUnchanged

\* Mutation: RX_DONE is not acknowledged.
IsrDone_NoAck ==
    /\ isr = "ack_done"
    /\ intsts' = intsts
    /\ scan' = [scan EXCEPT !["isr"] = BeginScan]
    /\ isr' = "rx_ready"
    /\ UNCHANGED sem /\ IsrUnchanged

\* RX_DONE is acknowledged before the ring is scanned.
IsrDone ==
    /\ isr = "ack_done"
    /\ intsts' = intsts \ {"RX_DONE"}
    /\ scan' = [scan EXCEPT !["isr"] = BeginScan]
    /\ isr' = "rx_ready"
    /\ UNCHANGED sem /\ IsrUnchanged

\* hpa_rx_empty and hpa_rx_error.
IsrWake(pc, i) ==
    /\ isr = pc
    /\ intsts' = intsts \ {i}
    /\ WakeUpRxTask
    /\ isr' = "status"
    /\ UNCHANGED scan /\ IsrUnchanged

Isr == \/ IsrEnter \/ IsrStatus \/ IsrDone
       \/ IsrWake("ack_empty", "RX_EMPTY")
       \/ IsrWake("ack_axierr", "RX_AXIERR")
       \/ RxReady("isr")

-----------------------------------------------------------------------------
(* cbxi_rx_task.  It runs only when the handler does not.                   *)

At(pc) == task = pc /\ isr = "idle"

TaskUnchanged == UNCHANGED <<desc, hwvars, cpu_cur, intsts, rx_pkt_reaped,
                             chain_active, isr>>

\* cbxi_rx_dqueue
TaskDequeue ==
    /\ At("dqueue")
    /\ IF num_enqueued # num_processed /\ queue_head # NULL
       THEN /\ pkt' = queue_head
            /\ queue_head' = next[queue_head]
            /\ queue_tail' = IF next[queue_head] = NULL THEN NULL ELSE queue_tail
            /\ task' = "count"
       ELSE /\ task' = "disable"
            /\ UNCHANGED <<pkt, queue_head, queue_tail>>
    /\ UNCHANGED <<irq_en, next, flags, poolvars, rx_current_chain,
                   rx_current_chain_num, num_enqueued, num_processed,
                   chain_drop, sem, scan>>
    /\ TaskUnchanged

TaskCount ==
    /\ At("count")
    /\ num_processed' = (num_processed + 1) % CNT
    /\ task' = "process"
    /\ UNCHANGED <<irq_en, next, flags, poolvars, queuevars, chain_drop, pkt,
                   sem, scan>>
    /\ TaskUnchanged

\* Hand the packet to the callbacks, or add it to the frame being reassembled
\* (whose allocation may fail: chain_drop), and free its buffer.
TaskProcess ==
    /\ At("process")
    /\ FreeToPool(pkt)
    /\ chain_drop' \in (IF "SOP" \in flags[pkt] /\ "EOP" \notin flags[pkt]
                        THEN {chain_drop, TRUE}
                        ELSE IF "SOP" \notin flags[pkt] /\ "EOP" \in flags[pkt]
                        THEN {FALSE} ELSE {chain_drop})
    /\ task' = "dqueue"
    /\ pkt' = NULL
    /\ UNCHANGED <<irq_en, queuevars, num_processed, sem, scan>>
    /\ TaskUnchanged

\* An empty queue: poll the ring with the HPA interrupt disabled.
TaskDisable ==
    /\ At("disable")
    /\ irq_en' = FALSE
    /\ scan' = [scan EXCEPT !["task"] = BeginScan]
    /\ task' = "rx_ready"
    /\ UNCHANGED <<next, flags, poolvars, queuevars, num_processed, chain_drop,
                   pkt, sem>>
    /\ TaskUnchanged

TaskEnable ==
    /\ At("enable")
    /\ irq_en' = TRUE
    /\ task' = "check"
    /\ UNCHANGED <<next, flags, poolvars, queuevars, num_processed, chain_drop,
                   pkt, sem, scan>>
    /\ TaskUnchanged

TaskCheck ==
    /\ At("check")
    /\ task' = IF num_enqueued = num_processed THEN "wait" ELSE "dqueue"
    /\ UNCHANGED <<irq_en, next, flags, poolvars, queuevars, num_processed,
                   chain_drop, pkt, sem, scan>>
    /\ TaskUnchanged

\* sal_sem_take: the semaphore is there, or 100 ms have passed.
TaskTake(taken) ==
    /\ At("wait")
    /\ IF taken THEN sem = 1 /\ sem' = 0 ELSE UNCHANGED sem
    /\ task' = "dqueue"
    /\ UNCHANGED <<irq_en, next, flags, poolvars, queuevars, num_processed,
                   chain_drop, pkt, scan>>
    /\ TaskUnchanged

TaskWake    == TaskTake(TRUE)
TaskTimeout == sem = 0 /\ TaskTake(FALSE)

Task == \/ TaskDequeue \/ TaskCount \/ TaskProcess
        \/ TaskDisable \/ RxReady("task") \/ TaskEnable
        \/ TaskCheck \/ TaskWake \/ TaskTimeout

-----------------------------------------------------------------------------
(* Init is what cbxi_rx_init leaves: the first NDESC buffers of the region  *)
(* are in the ring, the others in the pool, in the region's order.          *)
PoolOrder(s) ==
    /\ DOMAIN s = 1 .. Cardinality(Buf)
    /\ \A i, j \in DOMAIN s : i # j => s[i] # s[j]

Init ==
    \E s \in [1 .. Cardinality(Buf) -> Buf] :
      LET nbuf == Cardinality(Buf) IN
      /\ PoolOrder(s)
      /\ desc = [d \in Desc |-> [own |-> "HPA", address |-> s[d + 1],
                                 sop |-> FALSE, eop |-> FALSE]]
      /\ pool_head = (IF nbuf > NDESC THEN s[NDESC + 1] ELSE NULL)
      /\ pool_tail = (IF nbuf > NDESC THEN s[nbuf] ELSE NULL)
      /\ num_in_pool = nbuf - NDESC
      /\ next = [b \in Buf |->
                   IF \E i \in NDESC + 1 .. nbuf - 1 : s[i] = b
                   THEN s[1 + CHOOSE i \in NDESC + 1 .. nbuf - 1 : s[i] = b]
                   ELSE NULL]
      /\ flags = [b \in Buf |-> {}]
      /\ hw_cur = 0 /\ cpu_cur = NDESC /\ hw_left = 0
      /\ intsts = {} /\ irq_en = TRUE
      /\ rx_pkt_reaped = 0 /\ chain_active = FALSE
      /\ queue_head = NULL /\ queue_tail = NULL
      /\ rx_current_chain = NULL /\ rx_current_chain_num = 0
      /\ num_enqueued = 0 /\ num_processed = 0 /\ chain_drop = FALSE
      /\ sem = 0
      /\ isr = "idle" /\ task = "dqueue" /\ pkt = NULL
      /\ scan = [c \in Context |-> NoScan]

Next == HwClose \/ HwAxiError \/ Isr \/ Task

\* The processor goes on running the handler and the task (weak fairness of
\* each); the DMA engine owes nothing.
Fairness == WF_vars(Isr) /\ WF_vars(Task)

Spec == Init /\ [][Next]_vars /\ Fairness

-----------------------------------------------------------------------------
(* Properties.                                                              *)

\* The pointers, counters and locals of hpa.c and rx.c stay in their ranges.
TypeOK ==
    /\ desc \in [Desc -> [own : {"HPA", "CPU"}, address : Buf,
                          sop : BOOLEAN, eop : BOOLEAN]]
    /\ hw_cur \in 0 .. 2 * NDESC - 1 /\ cpu_cur \in 0 .. 2 * NDESC - 1
    /\ hw_left \in 0 .. MaxChunks - 1
    /\ intsts \subseteq Intr /\ irq_en \in BOOLEAN
    /\ rx_pkt_reaped \in 0 .. 2 * NDESC - 1 /\ chain_active \in BOOLEAN
    /\ next \in [Buf -> Ptr] /\ flags \in [Buf -> SUBSET Flag]
    /\ pool_head \in Ptr /\ pool_tail \in Ptr
    /\ num_in_pool \in Nat
    /\ queue_head \in Ptr /\ queue_tail \in Ptr
    /\ rx_current_chain \in Ptr /\ rx_current_chain_num \in Nat
    /\ num_enqueued \in 0 .. CNT - 1 /\ num_processed \in 0 .. CNT - 1
    /\ chain_drop \in BOOLEAN /\ sem \in {0, 1}
    /\ isr \in IsrPc /\ task \in TaskPc /\ pkt \in Ptr
    /\ scan \in [Context -> [descid : Desc, left : 0 .. NDESC + 1,
                             npkts : 0 .. NDESC + 1]]

\* The buffers in each place.  A packet the task has dequeued and not yet
\* counted is no longer in the queue.
Pool      == Listed(pool_head, num_in_pool)
QueueLen  == (Backlog + CNT - (IF task = "count" THEN 1 ELSE 0)) % CNT
Queue     == Listed(queue_head, QueueLen)
Chain     == Listed(rx_current_chain, rx_current_chain_num)
Ring      == { desc[d].address : d \in Desc }
Held      == {pkt} \ {NULL}
Closed(d) == desc[d].own = "CPU"

\* No buffer is lost, shared or freed twice: each is in exactly one of the
\* pool, the ring, the queue, the chain being gathered and the task's hands,
\* and the linked lists are as long as the counters say.
BufferConservation ==
    /\ NULL \notin Pool \cup Queue \cup Chain
    /\ Cardinality(Pool) = num_in_pool
    /\ Cardinality(Ring) = NDESC
    /\ Cardinality(Queue) = QueueLen
    /\ Cardinality(Chain) = rx_current_chain_num
    /\ Pool \cup Ring \cup Queue \cup Chain \cup Held = Buf
    /\ num_in_pool + NDESC + QueueLen + rx_current_chain_num + Cardinality(Held)
         = Cardinality(Buf)

\* The linked queue holds the packets the counters promise the task.
QueueMatchesCount == NULL \notin Queue /\ Cardinality(Queue) = QueueLen

\* cbxi_rx_task tests the counters, then sleeps; the handler may enqueue in
\* between.  While the task sleeps without a token there is nothing to do.
NoLostWakeup ==
    task = "wait" /\ sem = 0 => num_enqueued = num_processed

\* A frame the DMA engine has finished while the task sleeps is not forgotten:
\* its interrupt is pending, or the handler runs a scan that has not passed it.
NoStrandedFrame ==
    task = "wait" /\ sem = 0 =>
      \A d \in Desc : Closed(d) =>
        \/ "RX_DONE" \in intsts
        \/ isr = "ack_done"
        \/ /\ isr = "rx_ready"
           /\ \E k \in 0 .. NDESC :
                k < scan["isr"].left /\ d = (scan["isr"].descid + k) % NDESC

\* hpa_rx_ready is not reentrant (rx_pkt_reaped, HPA_RX_CPU_CUR_DESC_PTR and
\* the pool are read, changed and written back): the task runs it only with
\* the interrupt disabled, so never while the handler does.
ScanExclusive ==
    task = "rx_ready" => ~irq_en /\ isr = "idle"

\* The CPU hands the DMA engine exactly the descriptors it has refilled: what
\* separates the two pointers, and what a scan has refilled and not yet handed
\* over, are the descriptors the engine owns.
CreditsMatchOwnership ==
    Cardinality({d \in Desc : desc[d].own = "HPA"})
      = ((cpu_cur + 2 * NDESC - hw_cur) % (2 * NDESC))
          + scan["isr"].npkts + scan["task"].npkts

\* The guard of hpa.c (chain_active) is what keeps cbxi_rx_enqueue in rx.c from
\* following a null rx_current_chain.
ChainInSync == chain_active <=> rx_current_chain # NULL

\* The bus stops failing: with an AXI error always pending the handler, which
\* loops until the status is 0, never returns.
BusRecovers == <>[][~HwAxiError]_vars

\* Every packet buffer the handler enqueues is eventually back in the pool,
\* however many frames keep arriving.
QueueDrains == BusRecovers => \A b \in Buf : b \in Queue ~> b \in Pool

\* Every descriptor the DMA engine has filled is eventually refilled.
RingRefilled == BusRecovers => \A d \in Desc : Closed(d) ~> ~Closed(d)

\* The receive path of frames of one descriptor does what RxPath promises.
RxPathInstance ==
    INSTANCE RxPath WITH
      NoBuf  <- NULL,
      ring   <- [d \in Desc |-> desc[d].address],
      filled <- {d \in Desc : Closed(d)},
      pool   <- Pool,
      queue  <- [i \in 1 .. QueueLen |-> Walk(queue_head, next)[i - 1]],
      held   <- pkt

RxPathOK == RxPathInstance!Spec

=============================================================================
