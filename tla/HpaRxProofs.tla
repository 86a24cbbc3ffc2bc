----------------------------- MODULE HpaRxProofs -----------------------------
(***************************************************************************)
(* Theorems about HpaRx for any number of buffers and descriptors and      *)
(* frames of any length; those that say so are about frames of one         *)
(* descriptor.  That its lists are what RxPath promises rests on what      *)
(* RxPathProofs shows of RxPath.                                           *)
(***************************************************************************)
EXTENDS HpaRx, FiniteSetTheorems, SequenceTheorems, WellFoundedInduction, TLAPS

\* What every step of the two actors, or of the hardware, is.
LEMMA NextCases ==
  ASSUME Next
  PROVE  \/ HwClose \/ HwAxiError
         \/ IsrEnter \/ IsrStatus \/ IsrDone
         \/ IsrWake("ack_empty", "RX_EMPTY") \/ IsrWake("ack_axierr", "RX_AXIERR")
         \/ \E c \in Context : ScanEmpty(c) \/ ScanNoBuffer(c) \/ ScanTake(c) \/ ScanEnd(c)
         \/ TaskDequeue \/ TaskCount \/ TaskProcess \/ TaskDisable \/ TaskEnable
         \/ TaskCheck \/ TaskWake \/ TaskTimeout
BY DEF Next, Isr, Task, RxReady, Context

-----------------------------------------------------------------------------
(* hpa_rx_ready is never run by both at once.                               *)

\* The interrupt is disabled from TaskDisable to TaskEnable, and the handler is
\* not running there.
IrqInv == task \in {"rx_ready", "enable"} => irq_en = FALSE /\ isr = "idle"

LEMMA IrqInvInit == Init => IrqInv
BY DEF Init, IrqInv

LEMMA IrqInvNext == IrqInv /\ [Next]_vars => IrqInv'
<1> SUFFICES ASSUME IrqInv, [Next]_vars PROVE IrqInv'
    OBVIOUS
<1> USE DEF IrqInv
<1>1. CASE UNCHANGED vars
  BY <1>1 DEF vars, taskvars
<1>2. CASE HwClose \/ HwAxiError
  BY <1>2 DEF HwClose, HwAxiError, taskvars
<1>3. CASE IsrEnter \/ IsrStatus \/ IsrDone
            \/ IsrWake("ack_empty", "RX_EMPTY") \/ IsrWake("ack_axierr", "RX_AXIERR")
  BY <1>3 DEF IsrEnter, IsrStatus, IsrDone, IsrWake, IsrUnchanged, taskvars
<1>4. ASSUME NEW c \in Context, ScanEmpty(c) \/ ScanNoBuffer(c) \/ ScanTake(c)
      PROVE IrqInv'
  BY <1>4 DEF ScanEmpty, ScanNoBuffer, ScanTake, taskvars
<1>5. ASSUME NEW c \in Context, ScanEnd(c) PROVE IrqInv'
  BY <1>5 DEF ScanEnd, Context, Running
<1>6. CASE TaskDequeue \/ TaskCount \/ TaskProcess \/ TaskDisable \/ TaskEnable
            \/ TaskCheck \/ TaskWake \/ TaskTimeout
  BY <1>6 DEF TaskDequeue, TaskCount, TaskProcess, TaskDisable, TaskEnable,
              TaskCheck, TaskWake, TaskTimeout, TaskTake, At, TaskUnchanged
<1> QED
  BY <1>1, <1>2, <1>3, <1>4, <1>5, <1>6, NextCases

\* hpa_rx_ready runs in the task only while the handler cannot run.
THEOREM RxScanExclusive == Spec => []ScanExclusive
<1>1. IrqInv => ScanExclusive
  BY DEF IrqInv, ScanExclusive
<1> QED
  BY <1>1, IrqInvInit, IrqInvNext, PTL DEF Spec

-----------------------------------------------------------------------------
(* The test of the counters and the sleep that follows it.                  *)

LEMMA WakeupInit == Init => NoLostWakeup
BY DEF Init, NoLostWakeup

LEMMA WakeupNext == NoLostWakeup /\ [Next]_vars => NoLostWakeup'
<1> SUFFICES ASSUME NoLostWakeup, [Next]_vars PROVE NoLostWakeup'
    OBVIOUS
<1> USE DEF NoLostWakeup
<1>1. CASE UNCHANGED vars
  BY <1>1 DEF vars, taskvars, queuevars
<1>2. CASE HwClose \/ HwAxiError
  BY <1>2 DEF HwClose, HwAxiError, taskvars, queuevars
<1>3. CASE IsrEnter \/ IsrStatus \/ IsrDone
            \/ IsrWake("ack_empty", "RX_EMPTY") \/ IsrWake("ack_axierr", "RX_AXIERR")
  BY <1>3 DEF IsrEnter, IsrStatus, IsrDone, IsrWake, IsrUnchanged, WakeUpRxTask,
              taskvars, queuevars
<1>4. ASSUME NEW c \in Context, ScanEmpty(c) \/ ScanNoBuffer(c)
      PROVE NoLostWakeup'
  BY <1>4 DEF ScanEmpty, ScanNoBuffer, WakeUpRxTask, taskvars, queuevars
<1>5. ASSUME NEW c \in Context, ScanTake(c) PROVE NoLostWakeup'
  <2>1. UNCHANGED taskvars
    BY <1>5 DEF ScanTake
  <2>2. sem' = 1 \/ (UNCHANGED <<sem, num_enqueued>>)
    <3>1. PICK addr \in Buf :
            Enqueue(desc[scan[c].descid].address, desc[scan[c].descid].sop,
                    desc[scan[c].descid].eop, [next EXCEPT ![addr] = NULL])
      BY <1>5 DEF ScanTake, Scanned
    <3> QED
      BY <3>1 DEF Enqueue, EnqueueFrame, EnqueueFirst, EnqueueMiddle,
                  EnqueueLast, LinkPacket, WakeUpRxTask
  <2> QED
    BY <2>1, <2>2 DEF taskvars
<1>6. ASSUME NEW c \in Context, ScanEnd(c) PROVE NoLostWakeup'
  BY <1>6 DEF ScanEnd, Context, queuevars
<1>7. CASE TaskDequeue \/ TaskCount \/ TaskProcess \/ TaskDisable \/ TaskEnable
            \/ TaskCheck \/ TaskWake \/ TaskTimeout
  BY <1>7 DEF TaskDequeue, TaskCount, TaskProcess, TaskDisable, TaskEnable,
              TaskCheck, TaskWake, TaskTimeout, TaskTake, At, queuevars
<1> QED
  BY <1>1, <1>2, <1>3, <1>4, <1>5, <1>6, <1>7, NextCases

\* Whatever the handler enqueues between the task's test of the counters and its
\* sal_sem_take, the task does not sleep on a packet without a token.
THEOREM RxNoLostWakeup == Spec => []NoLostWakeup
BY WakeupInit, WakeupNext, PTL DEF Spec

-----------------------------------------------------------------------------
(* Type correctness.                                                        *)

LEMMA ModRange ==
  ASSUME NEW a \in Nat, NEW m \in Nat \ {0} PROVE a % m \in 0 .. m - 1
OBVIOUS

LEMMA Sizes == /\ NDESC \in Nat \ {0} /\ 2 * NDESC \in Nat \ {0}
               /\ MaxChunks \in Nat \ {0} /\ CNT \in Nat \ {0}
               /\ Cardinality(Buf) \in Nat
BY NDescAssumption, ChunkAssumption, CountAssumption, BufAssumption, FS_CardinalityType

\* A scan counts at most one packet per iteration.
ScanBound == \A c \in Context : scan[c].left + scan[c].npkts <= NDESC + 1

TypeInv == TypeOK /\ ScanBound

LEMMA TypeInit == Init => TypeInv
<1> SUFFICES ASSUME Init PROVE TypeInv
    OBVIOUS
<1> USE Sizes DEF Init
<1>1. TypeOK
  <2>1. PICK s \in [1 .. Cardinality(Buf) -> Buf] :
          /\ desc = [d \in Desc |-> [own |-> "HPA", address |-> s[d + 1],
                                     sop |-> FALSE, eop |-> FALSE]]
          /\ pool_head = (IF Cardinality(Buf) > NDESC THEN s[NDESC + 1] ELSE NULL)
          /\ pool_tail = (IF Cardinality(Buf) > NDESC THEN s[Cardinality(Buf)] ELSE NULL)
          /\ next = [b \in Buf |->
                   IF \E i \in NDESC + 1 .. Cardinality(Buf) - 1 : s[i] = b
                   THEN s[1 + CHOOSE i \in NDESC + 1 .. Cardinality(Buf) - 1 : s[i] = b]
                   ELSE NULL]
    OBVIOUS
  <2>2. /\ hw_cur = 0 /\ cpu_cur = NDESC /\ hw_left = 0
        /\ intsts = {} /\ irq_en = TRUE
        /\ rx_pkt_reaped = 0 /\ chain_active = FALSE
        /\ queue_head = NULL /\ queue_tail = NULL
        /\ rx_current_chain = NULL /\ rx_current_chain_num = 0
        /\ num_enqueued = 0 /\ num_processed = 0 /\ chain_drop = FALSE
        /\ sem = 0 /\ isr = "idle" /\ task = "dqueue" /\ pkt = NULL
        /\ scan = [c \in Context |-> NoScan] /\ flags = [b \in Buf |-> {}]
        /\ num_in_pool = Cardinality(Buf) - NDESC
    OBVIOUS
  <2>3. desc \in [Desc -> [own : {"HPA", "CPU"}, address : Buf,
                          sop : BOOLEAN, eop : BOOLEAN]]
    <3>1. ASSUME NEW d \in Desc PROVE s[d + 1] \in Buf
      <4>1. d + 1 \in 1 .. Cardinality(Buf)
        BY Sizes, NDescAssumption DEF Desc
      <4> HIDE DEF Init
      <4> QED
        BY <4>1
    <3> QED
      BY <2>1, <3>1
  <2>4. next \in [Buf -> Ptr]
    <3>1. ASSUME NEW b \in Buf, \E i \in NDESC + 1 .. Cardinality(Buf) - 1 : s[i] = b
          PROVE s[1 + CHOOSE i \in NDESC + 1 .. Cardinality(Buf) - 1 : s[i] = b] \in Buf
      <4>1. (CHOOSE i \in NDESC + 1 .. Cardinality(Buf) - 1 : s[i] = b)
               \in NDESC + 1 .. Cardinality(Buf) - 1
        BY <3>1
      <4> QED
        BY <4>1
    <3> QED
      BY <2>1, <3>1 DEF Ptr
  <2>5. pool_head \in Ptr /\ pool_tail \in Ptr /\ num_in_pool \in Nat
    BY <2>1, <2>2, NDescAssumption DEF Ptr
  <2>6. scan \in [Context -> [descid : Desc, left : 0 .. NDESC + 1,
                             npkts : 0 .. NDESC + 1]]
    BY <2>2 DEF NoScan, Desc
  <2>7. flags \in [Buf -> SUBSET Flag]
    BY <2>2
  <2>8. /\ hw_cur \in 0 .. 2 * NDESC - 1 /\ cpu_cur \in 0 .. 2 * NDESC - 1
        /\ hw_left \in 0 .. MaxChunks - 1 /\ rx_pkt_reaped \in 0 .. 2 * NDESC - 1
        /\ num_enqueued \in 0 .. CNT - 1 /\ num_processed \in 0 .. CNT - 1
    BY <2>2
  <2>9. /\ intsts \subseteq Intr /\ irq_en \in BOOLEAN /\ chain_active \in BOOLEAN
        /\ chain_drop \in BOOLEAN /\ sem \in {0, 1}
        /\ isr \in IsrPc /\ task \in TaskPc
        /\ queue_head \in Ptr /\ queue_tail \in Ptr /\ pkt \in Ptr
        /\ rx_current_chain \in Ptr /\ rx_current_chain_num \in Nat
    BY <2>2 DEF Ptr, IsrPc, TaskPc
  <2> QED
    BY <2>3, <2>4, <2>5, <2>6, <2>7, <2>8, <2>9 DEF TypeOK
<1>2. ScanBound
  BY DEF ScanBound, NoScan
<1> QED
  BY <1>1, <1>2 DEF TypeInv

LEMMA TypeHw == TypeInv /\ (HwClose \/ HwAxiError) => TypeInv'
<1> SUFFICES ASSUME TypeInv, HwClose \/ HwAxiError PROVE TypeInv'
    OBVIOUS
<1>1. CASE HwClose
  <2>0. /\ desc \in [Desc -> [own : {"HPA", "CPU"}, address : Buf,
                             sop : BOOLEAN, eop : BOOLEAN]]
        /\ hw_cur \in 0 .. 2 * NDESC - 1
        /\ hw_left \in 0 .. MaxChunks - 1
        /\ intsts \subseteq Intr
    BY DEF TypeInv, TypeOK
  <2>1. hw_cur % NDESC \in Desc
    BY <2>0, ModRange, Sizes DEF Desc
  <2>2. PICK left \in IF hw_left = 0 THEN 0 .. MaxChunks - 1 ELSE {hw_left - 1} :
          /\ hw_left' = left
          /\ desc' = [desc EXCEPT ![hw_cur % NDESC] =
                        [@ EXCEPT !.own = "CPU", !.sop = (hw_left = 0),
                                  !.eop = (left = 0)]]
    BY <1>1 DEF HwClose
  <2>3. [desc[hw_cur % NDESC] EXCEPT !.own = "CPU", !.sop = (hw_left = 0),
                                     !.eop = (left = 0)]
          \in [own : {"HPA", "CPU"}, address : Buf, sop : BOOLEAN, eop : BOOLEAN]
    BY <2>0, <2>1
  <2>4. desc' \in [Desc -> [own : {"HPA", "CPU"}, address : Buf,
                           sop : BOOLEAN, eop : BOOLEAN]]
    BY <2>0, <2>2, <2>3
  <2>5. hw_left' \in 0 .. MaxChunks - 1
    BY <2>0, <2>2, Sizes
  <2>6. hw_cur' = (hw_cur + 1) % (2 * NDESC)
    BY <1>1 DEF HwClose
  <2>7. hw_cur' \in 0 .. 2 * NDESC - 1
    <3>1. hw_cur + 1 \in Nat
      BY <2>0, Sizes
    <3> QED
      BY <2>6, <3>1, ModRange, Sizes
  <2>8. intsts' \subseteq Intr
    BY <1>1, <2>0 DEF HwClose, Intr
  <2>9. UNCHANGED <<cpu_cur, irq_en, rx_pkt_reaped, chain_active, next, flags,
                    poolvars, queuevars, taskvars, sem, isr, scan>>
    BY <1>1 DEF HwClose
  <2> QED
    BY <2>4, <2>5, <2>7, <2>8, <2>9
       DEF TypeInv, TypeOK, ScanBound, poolvars, queuevars, taskvars
<1>2. CASE HwAxiError
  <2>1. intsts' \subseteq Intr
    BY <1>2 DEF HwAxiError, Intr, TypeInv, TypeOK
  <2>2. UNCHANGED <<desc, hwvars, cpu_cur, irq_en, rx_pkt_reaped, chain_active,
                    next, flags, poolvars, queuevars, taskvars, sem, isr, scan>>
    BY <1>2 DEF HwAxiError
  <2> QED
    BY <2>1, <2>2
       DEF TypeInv, TypeOK, ScanBound, hwvars, poolvars, queuevars, taskvars
<1> QED
  BY <1>1, <1>2

LEMMA TypeIsr ==
  ASSUME TypeInv,
         \/ IsrEnter \/ IsrStatus \/ IsrDone
         \/ IsrWake("ack_empty", "RX_EMPTY") \/ IsrWake("ack_axierr", "RX_AXIERR")
  PROVE  TypeInv'
<1>1. /\ isr' \in IsrPc /\ sem' \in {0, 1} /\ intsts' \subseteq intsts
      /\ scan' = scan \/ scan' = [scan EXCEPT !["isr"] = BeginScan]
  BY DEF IsrEnter, IsrStatus, IsrDone, IsrWake, WakeUpRxTask, IsrPc, TypeInv, TypeOK
<1>2. /\ scan' \in [Context -> [descid : Desc, left : 0 .. NDESC + 1,
                              npkts : 0 .. NDESC + 1]]
      /\ ScanBound'
  <2>1. rx_pkt_reaped % NDESC \in Desc
    BY ModRange, Sizes DEF Desc, TypeInv, TypeOK
  <2> QED
    BY <1>1, <2>1, Sizes DEF BeginScan, Context, ScanBound, TypeInv, TypeOK
<1>3. UNCHANGED <<desc, hwvars, cpu_cur, irq_en, rx_pkt_reaped, chain_active,
                  next, flags, poolvars, queuevars, taskvars>>
  BY DEF IsrEnter, IsrStatus, IsrDone, IsrWake, IsrUnchanged
<1> QED
  BY <1>1, <1>2, <1>3 DEF TypeInv, TypeOK, hwvars, poolvars, queuevars, taskvars

\* What one iteration of the loop does to the locals of hpa_rx_ready.
LEMMA NextDescType ==
  ASSUME TypeInv, NEW c \in Context, NEW n \in {0, 1}, scan[c].left > 0, NextDesc(c, n)
  PROVE  /\ scan' \in [Context -> [descid : Desc, left : 0 .. NDESC + 1,
                                  npkts : 0 .. NDESC + 1]]
         /\ ScanBound'
<1>1. /\ scan \in [Context -> [descid : Desc, left : 0 .. NDESC + 1,
                              npkts : 0 .. NDESC + 1]]
      /\ \A d \in Context : scan[d].left + scan[d].npkts <= NDESC + 1
  BY DEF TypeInv, TypeOK, ScanBound
<1>2. (scan[c].descid + 1) % NDESC \in Desc
  <2>1. scan[c].descid + 1 \in Nat
    BY <1>1, Sizes DEF Desc
  <2> QED
    BY <2>1, ModRange, Sizes DEF Desc
<1>3. scan' = [scan EXCEPT ![c] = [descid |-> (scan[c].descid + 1) % NDESC,
                                   left   |-> scan[c].left - 1,
                                   npkts  |-> scan[c].npkts + n]]
  BY DEF NextDesc
<1>4. /\ scan[c].left - 1 \in 0 .. NDESC + 1 /\ scan[c].npkts + n \in 0 .. NDESC + 1
      /\ (scan[c].left - 1) + (scan[c].npkts + n) <= NDESC + 1
  BY <1>1, Sizes
<1> QED
  BY <1>1, <1>2, <1>3, <1>4 DEF ScanBound

LEMMA TypeScan ==
  ASSUME TypeInv, NEW c \in Context,
         ScanEmpty(c) \/ ScanNoBuffer(c) \/ ScanTake(c) \/ ScanEnd(c)
  PROVE  TypeInv'
<1>1. CASE ScanEmpty(c)
  <2>1. /\ scan[c].left > 0 /\ NextDesc(c, 0)
        /\ UNCHANGED <<desc, hwvars, cpu_cur, intsts, irq_en, rx_pkt_reaped,
                       chain_active, next, flags, poolvars, queuevars, taskvars,
                       sem, isr>>
    BY <1>1 DEF ScanEmpty
  <2> QED
    BY <2>1, NextDescType
       DEF TypeInv, TypeOK, hwvars, poolvars, queuevars, taskvars
<1>2. CASE ScanNoBuffer(c)
  <2>1. /\ scan' = [scan EXCEPT ![c].left = 0] /\ sem' = 1
        /\ UNCHANGED <<desc, hwvars, cpu_cur, intsts, irq_en, rx_pkt_reaped,
                       chain_active, next, flags, poolvars, queuevars, taskvars,
                       isr>>
    BY <1>2 DEF ScanNoBuffer, WakeUpRxTask
  <2>2. /\ scan' \in [Context -> [descid : Desc, left : 0 .. NDESC + 1,
                                npkts : 0 .. NDESC + 1]]
        /\ ScanBound'
    <3>1. /\ scan \in [Context -> [descid : Desc, left : 0 .. NDESC + 1,
                                  npkts : 0 .. NDESC + 1]]
          /\ \A e \in Context : scan[e].left + scan[e].npkts <= NDESC + 1
      BY DEF TypeInv, TypeOK, ScanBound
    <3>2. scan' = [scan EXCEPT ![c] = [scan[c] EXCEPT !.left = 0]]
      BY <2>1
    <3>3. [scan[c] EXCEPT !.left = 0] = [descid |-> scan[c].descid, left |-> 0,
                                         npkts |-> scan[c].npkts]
      BY <3>1
    <3> QED
      BY <3>1, <3>2, <3>3, Sizes DEF ScanBound
  <2> QED
    BY <2>1, <2>2 DEF TypeInv, TypeOK, hwvars, poolvars, queuevars, taskvars
<1>3. CASE ScanTake(c)
  <2> DEFINE d == desc[scan[c].descid]
  <2>1. /\ scan[c].left > 0 /\ num_in_pool > 0 /\ NextDesc(c, 1)
        /\ UNCHANGED <<hwvars, cpu_cur, intsts, irq_en, rx_pkt_reaped, taskvars, isr>>
        /\ chain_active' \in BOOLEAN
    BY <1>3 DEF ScanTake, TypeInv, TypeOK
  <2>2. PICK addr \in Buf :
          /\ AllocFrom(addr)
          /\ Enqueue(d.address, d.sop, d.eop, [next EXCEPT ![addr] = NULL])
          /\ desc' = [desc EXCEPT ![scan[c].descid] =
               [own |-> "HPA", address |-> addr, sop |-> FALSE, eop |-> FALSE]]
    BY <1>3 DEF ScanTake, Scanned
  <2>3. /\ d.address \in Buf /\ scan[c].descid \in Desc
        /\ [next EXCEPT ![addr] = NULL] \in [Buf -> Ptr]
        /\ next[addr] \in Ptr
    BY DEF TypeInv, TypeOK, Ptr
  <2>4. desc' \in [Desc -> [own : {"HPA", "CPU"}, address : Buf,
                           sop : BOOLEAN, eop : BOOLEAN]]
    BY <2>2, <2>3 DEF TypeInv, TypeOK
  <2>5. pool_head' \in Ptr /\ pool_tail' \in Ptr /\ num_in_pool' \in Nat
    BY <2>1, <2>2, <2>3 DEF AllocFrom, TypeInv, TypeOK, Ptr
  <2>6. flags' \in [Buf -> SUBSET Flag]
    BY <2>2, <2>3 DEF Enqueue, Flag, TypeInv, TypeOK
  <2>7. /\ next' \in [Buf -> Ptr]
        /\ queue_head' \in Ptr /\ queue_tail' \in Ptr
        /\ rx_current_chain' \in Ptr /\ rx_current_chain_num' \in Nat
        /\ num_enqueued' \in 0 .. CNT - 1 /\ sem' \in {0, 1}
    <3> DEFINE nxt == [next EXCEPT ![addr] = NULL]
    <3>1. \/ EnqueueFrame(d.address, nxt) \/ EnqueueFirst(d.address, nxt)
          \/ EnqueueMiddle(d.address, nxt) \/ EnqueueLast(d.address, nxt)
      BY <2>2 DEF Enqueue
    <3>2. /\ d.address \in Ptr /\ nxt \in [Buf -> Ptr]
          /\ queue_head \in Ptr /\ queue_tail \in Ptr /\ rx_current_chain \in Ptr
          /\ rx_current_chain_num \in Nat /\ num_enqueued \in 0 .. CNT - 1
          /\ sem \in {0, 1}
      BY <2>3 DEF TypeInv, TypeOK, Ptr
    <3> HIDE DEF nxt, d
    <3>3. ASSUME NEW p \in Ptr, NEW n \in Nat, NEW f \in [Buf -> Ptr], LinkPacket(p, n, f)
          PROVE  /\ next' \in [Buf -> Ptr] /\ queue_head' \in Ptr /\ queue_tail' \in Ptr
                 /\ num_enqueued' \in 0 .. CNT - 1 /\ sem' \in {0, 1}
      <4>1. (num_enqueued + n) % CNT \in 0 .. CNT - 1
        BY <3>2, ModRange, Sizes
      <4> QED
        BY <3>2, <3>3, <4>1 DEF LinkPacket, WakeUpRxTask
    <3>4. CASE EnqueueFrame(d.address, nxt)
      <4>1. /\ LinkPacket(d.address, 1, nxt)
            /\ UNCHANGED <<rx_current_chain, rx_current_chain_num>>
        BY <3>4 DEF EnqueueFrame
      <4>2. /\ next' \in [Buf -> Ptr] /\ queue_head' \in Ptr /\ queue_tail' \in Ptr
            /\ num_enqueued' \in 0 .. CNT - 1 /\ sem' \in {0, 1}
        BY <3>2, <3>3, <4>1
      <4> QED
        BY <3>2, <4>1, <4>2
    <3>5. CASE EnqueueFirst(d.address, nxt)
      BY <3>2, <3>5 DEF EnqueueFirst
    <3>6. CASE EnqueueMiddle(d.address, nxt)
      <4>1. /\ next' = [nxt EXCEPT ![LastOf(rx_current_chain, nxt)] = d.address]
            /\ rx_current_chain_num' = rx_current_chain_num + 1
            /\ UNCHANGED <<queue_head, queue_tail, rx_current_chain, num_enqueued, sem>>
        BY <3>6 DEF EnqueueMiddle
      <4>2. next' \in [Buf -> Ptr]
        BY <3>2, <4>1
      <4> QED
        BY <3>2, <4>1, <4>2
    <3>7. CASE EnqueueLast(d.address, nxt)
      <4> DEFINE f == [nxt EXCEPT ![LastOf(rx_current_chain, nxt)] = d.address]
      <4>1. f \in [Buf -> Ptr]
        BY <3>2
      <4>2. /\ LinkPacket(rx_current_chain, rx_current_chain_num + 1, f)
            /\ rx_current_chain' = NULL /\ rx_current_chain_num' = 0
        BY <3>7 DEF EnqueueLast
      <4> HIDE DEF f
      <4>3. /\ next' \in [Buf -> Ptr] /\ queue_head' \in Ptr /\ queue_tail' \in Ptr
            /\ num_enqueued' \in 0 .. CNT - 1 /\ sem' \in {0, 1}
        BY <3>2, <3>3, <4>1, <4>2
      <4> QED
        BY <4>2, <4>3 DEF Ptr
    <3> QED
      BY <3>1, <3>4, <3>5, <3>6, <3>7
  <2>8. /\ scan' \in [Context -> [descid : Desc, left : 0 .. NDESC + 1,
                                npkts : 0 .. NDESC + 1]]
        /\ ScanBound'
    BY <2>1, NextDescType
  <2> QED
    BY <2>1, <2>4, <2>5, <2>6, <2>7, <2>8 DEF TypeInv, TypeOK, hwvars, taskvars
<1>4. CASE ScanEnd(c)
  <2>1. /\ cpu_cur' = (cpu_cur + scan[c].npkts) % (2 * NDESC)
        /\ rx_pkt_reaped' = (rx_pkt_reaped + scan[c].npkts) % (2 * NDESC)
        /\ scan' = [scan EXCEPT ![c] = NoScan]
        /\ isr' \in IsrPc /\ task' \in TaskPc
        /\ UNCHANGED <<desc, hwvars, intsts, irq_en, chain_active, next, flags,
                       poolvars, queuevars, num_processed, chain_drop, pkt, sem>>
    BY <1>4 DEF ScanEnd, Advance, IsrPc, TaskPc, TypeInv, TypeOK
  <2>2. cpu_cur' \in 0 .. 2 * NDESC - 1 /\ rx_pkt_reaped' \in 0 .. 2 * NDESC - 1
    <3>1. cpu_cur + scan[c].npkts \in Nat /\ rx_pkt_reaped + scan[c].npkts \in Nat
      BY Sizes DEF TypeInv, TypeOK
    <3> QED
      BY <2>1, <3>1, ModRange, Sizes
  <2>3. /\ scan' \in [Context -> [descid : Desc, left : 0 .. NDESC + 1,
                                npkts : 0 .. NDESC + 1]]
        /\ ScanBound'
    BY <2>1, Sizes DEF NoScan, Desc, TypeInv, TypeOK, ScanBound
  <2> QED
    BY <2>1, <2>2, <2>3 DEF TypeInv, TypeOK, hwvars, poolvars, queuevars
<1> QED
  BY <1>1, <1>2, <1>3, <1>4

LEMMA TypeTask ==
  ASSUME TypeInv,
         \/ TaskDequeue \/ TaskCount \/ TaskProcess \/ TaskDisable \/ TaskEnable
         \/ TaskCheck \/ TaskWake \/ TaskTimeout
  PROVE  TypeInv'
<1>1. CASE TaskDequeue
  <2>1. /\ pkt' \in Ptr /\ queue_head' \in Ptr /\ queue_tail' \in Ptr /\ task' \in TaskPc
    BY <1>1 DEF TaskDequeue, TypeInv, TypeOK, Ptr, TaskPc
  <2>2. UNCHANGED <<irq_en, next, flags, poolvars, rx_current_chain,
                    rx_current_chain_num, num_enqueued, num_processed,
                    chain_drop, sem, scan>> /\ TaskUnchanged
    BY <1>1 DEF TaskDequeue
  <2> QED
    BY <2>1, <2>2 DEF TypeInv, TypeOK, ScanBound, TaskUnchanged, hwvars, poolvars
<1>2. CASE TaskCount
  <2>1. num_processed' \in 0 .. CNT - 1
    <3>1. num_processed + 1 \in Nat /\ num_processed' = (num_processed + 1) % CNT
      BY <1>2, Sizes DEF TaskCount, TypeInv, TypeOK
    <3> QED
      BY <3>1, ModRange, Sizes
  <2>2. /\ task' \in TaskPc
        /\ UNCHANGED <<irq_en, next, flags, poolvars, queuevars, chain_drop, pkt,
                       sem, scan>> /\ TaskUnchanged
    BY <1>2 DEF TaskCount, TaskPc
  <2> QED
    BY <2>1, <2>2 DEF TypeInv, TypeOK, ScanBound, TaskUnchanged, hwvars, poolvars, queuevars
<1>3. CASE TaskProcess
  <2>1. /\ next' \in [Buf -> Ptr] /\ flags' \in [Buf -> SUBSET Flag]
        /\ pool_head' \in Ptr /\ pool_tail' \in Ptr /\ num_in_pool' \in Nat
    <3>1. FreeToPool(pkt)
      BY <1>3 DEF TaskProcess
    <3>2. /\ pkt \in Ptr /\ pool_head \in Ptr /\ num_in_pool \in Nat
          /\ next \in [Buf -> Ptr] /\ flags \in [Buf -> SUBSET Flag]
      BY DEF TypeInv, TypeOK
    <3>3. flags' \in [Buf -> SUBSET Flag]
      BY <3>1, <3>2 DEF FreeToPool
    <3>4. next' \in [Buf -> Ptr] /\ pool_head' \in Ptr
      BY <3>1, <3>2 DEF FreeToPool
    <3> QED
      BY <3>1, <3>2, <3>3, <3>4 DEF FreeToPool
  <2>2. /\ chain_drop' \in BOOLEAN /\ task' \in TaskPc /\ pkt' \in Ptr
        /\ UNCHANGED <<irq_en, queuevars, num_processed, sem, scan>> /\ TaskUnchanged
    BY <1>3 DEF TaskProcess, TaskPc, Ptr, TypeInv, TypeOK
  <2> QED
    BY <2>1, <2>2 DEF TypeInv, TypeOK, ScanBound, TaskUnchanged, hwvars, queuevars
<1>4. CASE TaskDisable
  <2>1. /\ scan' = [scan EXCEPT !["task"] = BeginScan]
        /\ irq_en' \in BOOLEAN /\ task' \in TaskPc
        /\ UNCHANGED <<next, flags, poolvars, queuevars, num_processed, chain_drop,
                       pkt, sem>> /\ TaskUnchanged
    BY <1>4 DEF TaskDisable, TaskPc
  <2>2. rx_pkt_reaped % NDESC \in Desc
    BY ModRange, Sizes DEF Desc, TypeInv, TypeOK
  <2>3. /\ scan' \in [Context -> [descid : Desc, left : 0 .. NDESC + 1,
                                npkts : 0 .. NDESC + 1]]
        /\ ScanBound'
    BY <2>1, <2>2, Sizes DEF BeginScan, Context, ScanBound, TypeInv, TypeOK
  <2> QED
    BY <2>1, <2>3 DEF TypeInv, TypeOK, TaskUnchanged, hwvars, poolvars, queuevars
<1>5. CASE TaskEnable \/ TaskCheck
  BY <1>5 DEF TaskEnable, TaskCheck, TaskPc, TypeInv, TypeOK, ScanBound, TaskUnchanged,
              hwvars, poolvars, queuevars
<1>6. CASE TaskWake \/ TaskTimeout
  <2>1. /\ sem' \in {0, 1} /\ task' \in TaskPc
        /\ UNCHANGED <<irq_en, next, flags, poolvars, queuevars, num_processed,
                       chain_drop, pkt, scan>> /\ TaskUnchanged
    BY <1>6 DEF TaskWake, TaskTimeout, TaskTake, TaskPc, TypeInv, TypeOK
  <2> QED
    BY <2>1 DEF TypeInv, TypeOK, ScanBound, TaskUnchanged, hwvars, poolvars, queuevars
<1> QED
  BY <1>1, <1>2, <1>3, <1>4, <1>5, <1>6

LEMMA TypeNext == TypeInv /\ [Next]_vars => TypeInv'
<1> SUFFICES ASSUME TypeInv, [Next]_vars PROVE TypeInv'
    OBVIOUS
<1>1. CASE UNCHANGED vars
  BY <1>1 DEF vars, TypeInv, TypeOK, ScanBound, hwvars, poolvars, queuevars, taskvars
<1>2. CASE Next
  BY <1>2, NextCases, TypeHw, TypeIsr, TypeScan, TypeTask
<1> QED
  BY <1>1, <1>2

\* Every pointer of hpa.c and rx.c is null or a packet buffer, and every ring
\* index and counter is in range, for any sizes and frames of any length.
THEOREM RxTypeOK == Spec => []TypeOK
<1>1. TypeInv => TypeOK
  BY DEF TypeInv
<1> QED
  BY <1>1, TypeInit, TypeNext, PTL DEF Spec

-----------------------------------------------------------------------------
(* The credits of the DMA engine.                                           *)

\* Arithmetic on the ring's pointers: m is twice the size of the ring, h and c
\* are where the engine is and where it has to stop.
Distance(c, h, m) == (c + m - h) % m

LEMMA DistanceStep ==
  ASSUME NEW m \in Nat \ {0}, NEW h \in 0 .. m - 1, NEW c \in 0 .. m - 1, h # c
  PROVE  Distance(c, (h + 1) % m, m) = Distance(c, h, m) - 1
<1>1. Distance(c, h, m) = IF c >= h THEN c - h ELSE c + m - h
  BY DEF Distance
<1>2. (h + 1) % m = IF h + 1 = m THEN 0 ELSE h + 1
  OBVIOUS
<1>3. CASE h + 1 = m
  BY <1>1, <1>2, <1>3 DEF Distance
<1>4. CASE h + 1 # m
  <2>1. h + 1 \in 0 .. m - 1
    BY <1>4
  <2>2. Distance(c, h + 1, m) = IF c >= h + 1 THEN c - (h + 1) ELSE c + m - (h + 1)
    BY <2>1 DEF Distance
  <2> QED
    BY <1>1, <1>2, <1>4, <2>2
<1> QED
  BY <1>3, <1>4

LEMMA DistanceAdvance ==
  ASSUME NEW m \in Nat \ {0}, NEW h \in 0 .. m - 1, NEW c \in 0 .. m - 1, NEW n \in Nat,
         Distance(c, h, m) + n < m
  PROVE  Distance((c + n) % m, h, m) = Distance(c, h, m) + n
<1>1. Distance(c, h, m) = IF c >= h THEN c - h ELSE c + m - h
  BY DEF Distance
<1>2. n < m
  BY <1>1
<1>3. (c + n) % m = IF c + n >= m THEN c + n - m ELSE c + n
  BY <1>2
<1>4. (c + n) % m \in 0 .. m - 1
  BY <1>2, <1>3
<1>5. Distance((c + n) % m, h, m)
        = IF (c + n) % m >= h THEN ((c + n) % m) - h ELSE ((c + n) % m) + m - h
  BY <1>4 DEF Distance
<1> QED
  BY <1>1, <1>3, <1>5

Owned == {d \in Desc : desc[d].own = "HPA"}

\* A context that is not in hpa_rx_ready has handed over all it refilled.
ScanFlushed ==
    /\ isr  # "rx_ready" => scan["isr"].npkts = 0
    /\ task # "rx_ready" => scan["task"].npkts = 0

\* CreditsMatchOwnership is inductive together with the ranges of the pointers
\* (without them a distance could wrap) and with ScanFlushed (without it a new
\* scan could forget what the last one refilled).
CreditInv == TypeInv /\ ScanFlushed /\ CreditsMatchOwnership

LEMMA OwnedFinite ==
  /\ IsFiniteSet(Desc) /\ Cardinality(Desc) = NDESC
  /\ IsFiniteSet(Owned) /\ Cardinality(Owned) \in Nat /\ Cardinality(Owned) <= NDESC
<1>1. IsFiniteSet(Desc) /\ Cardinality(Desc) = NDESC
  <2>1. 0 \in Int /\ NDESC - 1 \in Int /\ 0 <= NDESC - 1
    BY Sizes
  <2> QED
    BY <2>1, FS_Interval, Sizes DEF Desc
<1>2. Owned \subseteq Desc
  BY DEF Owned
<1> QED
  BY <1>1, <1>2, FS_Subset, FS_CardinalityType

LEMMA CreditsInOwned ==
  CreditsMatchOwnership <=>
    Cardinality(Owned) = Distance(cpu_cur, hw_cur, 2 * NDESC)
                           + scan["isr"].npkts + scan["task"].npkts
BY DEF CreditsMatchOwnership, Owned, Distance

LEMMA CreditInit == Init => CreditInv
<1> SUFFICES ASSUME Init PROVE CreditInv
    OBVIOUS
<1>1. TypeInv
  BY TypeInit
<1>2. /\ hw_cur = 0 /\ cpu_cur = NDESC
      /\ scan["isr"].npkts = 0 /\ scan["task"].npkts = 0
  BY DEF Init, NoScan, Context
<1>3. Owned = Desc
  BY DEF Init, Owned
<1>4. Distance(cpu_cur, hw_cur, 2 * NDESC) = NDESC
  BY <1>2, Sizes DEF Distance
<1>5. Cardinality(Owned) = Distance(cpu_cur, hw_cur, 2 * NDESC)
                             + scan["isr"].npkts + scan["task"].npkts
  BY <1>2, <1>3, <1>4, OwnedFinite, Sizes
<1> QED
  BY <1>1, <1>2, <1>5, CreditsInOwned DEF CreditInv, ScanFlushed

\* Steps that leave the ring, its pointers and the scans' counts alone.
LEMMA CreditFrame ==
  ASSUME CreditInv, UNCHANGED <<desc, hw_cur, cpu_cur>>,
         scan'["isr"].npkts = scan["isr"].npkts, scan'["task"].npkts = scan["task"].npkts
  PROVE  CreditsMatchOwnership'
BY DEF CreditInv, CreditsMatchOwnership

LEMMA CreditClose == ASSUME CreditInv, HwClose PROVE CreditsMatchOwnership'
<1> DEFINE d == hw_cur % NDESC
<1>1. /\ hw_cur \in 0 .. 2 * NDESC - 1 /\ cpu_cur \in 0 .. 2 * NDESC - 1
      /\ desc \in [Desc -> [own : {"HPA", "CPU"}, address : Buf,
                            sop : BOOLEAN, eop : BOOLEAN]]
      /\ scan["isr"].npkts \in Nat /\ scan["task"].npkts \in Nat
  BY Sizes DEF CreditInv, TypeInv, TypeOK, Context
<1>2. /\ hw_cur # cpu_cur /\ desc[d].own = "HPA"
      /\ hw_cur' = (hw_cur + 1) % (2 * NDESC)
      /\ UNCHANGED <<cpu_cur, scan>>
  BY DEF HwClose
<1>3. d \in Desc
  <2>1. hw_cur \in Nat
    BY <1>1, Sizes
  <2> QED
    BY <2>1, ModRange, Sizes DEF Desc
<1>4. PICK left \in IF hw_left = 0 THEN 0 .. MaxChunks - 1 ELSE {hw_left - 1} :
        desc' = [desc EXCEPT ![d] = [@ EXCEPT !.own = "CPU", !.sop = (hw_left = 0),
                                              !.eop = (left = 0)]]
  BY DEF HwClose
<1> HIDE DEF d
<1>5. /\ desc'[d].own = "CPU"
      /\ \A e \in Desc : e # d => desc'[e] = desc[e]
  BY <1>1, <1>3, <1>4
<1>6. Owned' = Owned \ {d} /\ d \in Owned
  BY <1>2, <1>3, <1>5 DEF Owned
<1>7. Cardinality(Owned') = Cardinality(Owned) - 1
  BY <1>6, OwnedFinite, FS_RemoveElement
<1>8. Distance(cpu_cur, hw_cur', 2 * NDESC) = Distance(cpu_cur, hw_cur, 2 * NDESC) - 1
  BY <1>1, <1>2, DistanceStep, Sizes
<1>9. Cardinality(Owned) = Distance(cpu_cur, hw_cur, 2 * NDESC)
                             + scan["isr"].npkts + scan["task"].npkts
  BY CreditsInOwned DEF CreditInv
<1>10. Distance(cpu_cur, hw_cur, 2 * NDESC) \in Int
  BY <1>1, Sizes DEF Distance
<1>11. Cardinality(Owned') = Distance(cpu_cur', hw_cur', 2 * NDESC)
                              + scan'["isr"].npkts + scan'["task"].npkts
  BY <1>1, <1>2, <1>7, <1>8, <1>9, <1>10, OwnedFinite
<1> QED
  BY <1>11 DEF CreditsMatchOwnership, Owned, Distance

LEMMA CreditTake ==
  ASSUME CreditInv, NEW c \in Context, ScanTake(c) PROVE CreditsMatchOwnership'
<1> DEFINE d == scan[c].descid
<1>1. /\ desc \in [Desc -> [own : {"HPA", "CPU"}, address : Buf,
                            sop : BOOLEAN, eop : BOOLEAN]]
      /\ scan \in [Context -> [descid : Desc, left : 0 .. NDESC + 1,
                               npkts : 0 .. NDESC + 1]]
      /\ d \in Desc
  BY DEF CreditInv, TypeInv, TypeOK
<1>2. /\ desc[d].own = "CPU" /\ NextDesc(c, 1)
      /\ UNCHANGED <<hw_cur, cpu_cur>>
  BY DEF ScanTake, Acceptable, Scanned, hwvars
<1>3. PICK addr \in Buf : desc' = [desc EXCEPT ![d] =
               [own |-> "HPA", address |-> addr, sop |-> FALSE, eop |-> FALSE]]
  BY DEF ScanTake
<1> HIDE DEF d
<1>4. /\ desc'[d].own = "HPA"
      /\ \A e \in Desc : e # d => desc'[e] = desc[e]
  BY <1>1, <1>3
<1>5. Owned' = Owned \cup {d} /\ d \notin Owned
  BY <1>1, <1>2, <1>4 DEF Owned
<1>6. Cardinality(Owned') = Cardinality(Owned) + 1
  BY <1>5, OwnedFinite, FS_AddElement
<1>7. scan'["isr"].npkts + scan'["task"].npkts = scan["isr"].npkts + scan["task"].npkts + 1
  BY <1>1, <1>2, Sizes DEF NextDesc, Context
<1>8. /\ scan["isr"].npkts \in Nat /\ scan["task"].npkts \in Nat
      /\ scan'["isr"].npkts \in Nat /\ scan'["task"].npkts \in Nat
  BY <1>1, <1>2, Sizes DEF NextDesc, Context
<1>9. Cardinality(Owned) = Distance(cpu_cur, hw_cur, 2 * NDESC)
                             + scan["isr"].npkts + scan["task"].npkts
  BY CreditsInOwned DEF CreditInv
<1>10. Distance(cpu_cur, hw_cur, 2 * NDESC) \in Int
  BY Sizes DEF Distance, CreditInv, TypeInv, TypeOK
<1>11. Cardinality(Owned') = Distance(cpu_cur', hw_cur', 2 * NDESC)
                              + scan'["isr"].npkts + scan'["task"].npkts
  BY <1>2, <1>6, <1>7, <1>8, <1>9, <1>10, OwnedFinite
<1> QED
  BY <1>11 DEF CreditsMatchOwnership, Owned, Distance

LEMMA CreditEnd ==
  ASSUME CreditInv, NEW c \in Context, ScanEnd(c) PROVE CreditsMatchOwnership'
<1> DEFINE n == scan[c].npkts
           dist == Distance(cpu_cur, hw_cur, 2 * NDESC)
<1>1. /\ hw_cur \in 0 .. 2 * NDESC - 1 /\ cpu_cur \in 0 .. 2 * NDESC - 1
      /\ scan \in [Context -> [descid : Desc, left : 0 .. NDESC + 1,
                               npkts : 0 .. NDESC + 1]]
  BY DEF CreditInv, TypeInv, TypeOK
<1>2. /\ cpu_cur' = (cpu_cur + n) % (2 * NDESC)
      /\ scan' = [scan EXCEPT ![c] = NoScan]
      /\ UNCHANGED <<desc, hw_cur>>
  BY DEF ScanEnd, Advance, hwvars
<1>3. Cardinality(Owned) = dist + scan["isr"].npkts + scan["task"].npkts
  BY CreditsInOwned DEF CreditInv
<1>4. /\ n \in Nat /\ scan["isr"].npkts \in Nat /\ scan["task"].npkts \in Nat
      /\ n <= scan["isr"].npkts + scan["task"].npkts
      /\ scan'["isr"].npkts + scan'["task"].npkts
            = scan["isr"].npkts + scan["task"].npkts - n
      /\ scan'["isr"].npkts \in Nat /\ scan'["task"].npkts \in Nat
  BY <1>1, <1>2, Sizes DEF Context, NoScan
<1>5. dist \in Int
  BY <1>1, Sizes DEF Distance
<1>6. dist + n < 2 * NDESC
  BY <1>3, <1>4, <1>5, OwnedFinite, Sizes
<1>7. Distance(cpu_cur', hw_cur, 2 * NDESC) = dist + n
  BY <1>1, <1>2, <1>4, <1>6, DistanceAdvance, Sizes
<1>8. Owned' = Owned
  BY <1>2 DEF Owned
<1> HIDE DEF n, dist
<1>9. Cardinality(Owned') = Distance(cpu_cur', hw_cur', 2 * NDESC)
                             + scan'["isr"].npkts + scan'["task"].npkts
  BY <1>2, <1>3, <1>4, <1>5, <1>7, <1>8, OwnedFinite
<1> QED
  BY <1>9 DEF CreditsMatchOwnership, Owned, Distance

LEMMA CreditNext == CreditInv /\ [Next]_vars => CreditInv'
<1> SUFFICES ASSUME CreditInv, [Next]_vars PROVE CreditInv'
    OBVIOUS
<1>0. TypeInv'
  BY TypeNext DEF CreditInv
<1>00. scan \in [Context -> [descid : Desc, left : 0 .. NDESC + 1, npkts : 0 .. NDESC + 1]]
  BY DEF CreditInv, TypeInv, TypeOK
<1>1. CASE UNCHANGED vars
  BY <1>0, <1>1 DEF vars, hwvars, taskvars, CreditInv, ScanFlushed, CreditsMatchOwnership
<1>2. CASE HwClose
  BY <1>0, <1>2, CreditClose DEF CreditInv, ScanFlushed, HwClose, taskvars
<1>3. CASE HwAxiError
  BY <1>0, <1>3, CreditFrame DEF CreditInv, ScanFlushed, HwAxiError, hwvars, taskvars
<1>4. CASE IsrEnter \/ IsrStatus \/ IsrWake("ack_empty", "RX_EMPTY")
            \/ IsrWake("ack_axierr", "RX_AXIERR")
  <2>1. UNCHANGED <<desc, hw_cur, cpu_cur, scan, task>> /\ isr' # "rx_ready"
        /\ isr # "rx_ready"
    BY <1>4 DEF IsrEnter, IsrStatus, IsrWake, IsrUnchanged, hwvars, taskvars
  <2> QED
    BY <1>0, <2>1, CreditFrame DEF CreditInv, ScanFlushed
<1>5. CASE IsrDone
  <2>1. /\ UNCHANGED <<desc, hw_cur, cpu_cur, task>>
        /\ isr = "ack_done" /\ isr' = "rx_ready"
        /\ scan' = [scan EXCEPT !["isr"] = BeginScan]
    BY <1>5 DEF IsrDone, IsrUnchanged, hwvars, taskvars
  <2>2. scan'["isr"].npkts = 0 /\ scan'["task"].npkts = scan["task"].npkts
    BY <1>00, <2>1 DEF BeginScan, Context
  <2>3. scan["isr"].npkts = 0
    BY <2>1 DEF CreditInv, ScanFlushed
  <2> QED
    BY <1>0, <2>1, <2>2, <2>3, CreditFrame DEF CreditInv, ScanFlushed
<1>6. ASSUME NEW c \in Context, ScanEmpty(c) \/ ScanNoBuffer(c) PROVE CreditInv'
  <2>1. UNCHANGED <<desc, hw_cur, cpu_cur, isr, task>>
    BY <1>6 DEF ScanEmpty, ScanNoBuffer, hwvars, taskvars
  <2>2. \/ scan' = [scan EXCEPT ![c].left = 0]
        \/ NextDesc(c, 0)
    BY <1>6 DEF ScanEmpty, ScanNoBuffer
  <2>3. scan'["isr"].npkts = scan["isr"].npkts /\ scan'["task"].npkts = scan["task"].npkts
    BY <1>00, <2>2, Sizes DEF NextDesc, Context
  <2> QED
    BY <1>0, <2>1, <2>3, CreditFrame DEF CreditInv, ScanFlushed
<1>7. ASSUME NEW c \in Context, ScanTake(c) PROVE CreditInv'
  <2>1. CreditsMatchOwnership'
    BY <1>7, CreditTake
  <2>2. UNCHANGED <<isr, task>> /\ Running(c) /\ NextDesc(c, 1)
    BY <1>7 DEF ScanTake, taskvars
  <2>3. ScanFlushed'
    BY <1>00, <2>2 DEF CreditInv, ScanFlushed, Running, NextDesc, Context
  <2> QED
    BY <1>0, <2>1, <2>3 DEF CreditInv
<1>8. ASSUME NEW c \in Context, ScanEnd(c) PROVE CreditInv'
  <2>1. CreditsMatchOwnership'
    BY <1>8, CreditEnd
  <2>2. /\ scan' = [scan EXCEPT ![c] = NoScan]
        /\ IF c = "isr" THEN isr' = "status" /\ UNCHANGED task
                        ELSE task' = "enable" /\ UNCHANGED isr
    BY <1>8 DEF ScanEnd
  <2>3. ScanFlushed'
    BY <1>00, <2>2 DEF CreditInv, ScanFlushed, NoScan, Context
  <2> QED
    BY <1>0, <2>1, <2>3 DEF CreditInv
<1>9. CASE TaskDisable
  <2>1. /\ UNCHANGED <<desc, hw_cur, cpu_cur, isr>>
        /\ task = "disable" /\ task' = "rx_ready"
        /\ scan' = [scan EXCEPT !["task"] = BeginScan]
    BY <1>9 DEF TaskDisable, TaskUnchanged, At, hwvars
  <2>2. scan'["task"].npkts = 0 /\ scan'["isr"].npkts = scan["isr"].npkts
    BY <1>00, <2>1 DEF BeginScan, Context
  <2>3. scan["task"].npkts = 0
    BY <2>1 DEF CreditInv, ScanFlushed
  <2> QED
    BY <1>0, <2>1, <2>2, <2>3, CreditFrame DEF CreditInv, ScanFlushed
<1>10. CASE TaskDequeue \/ TaskCount \/ TaskProcess \/ TaskEnable \/ TaskCheck
             \/ TaskWake \/ TaskTimeout
  <2>1. UNCHANGED <<desc, hw_cur, cpu_cur, isr, scan>> /\ task # "rx_ready"
    BY <1>10 DEF TaskDequeue, TaskCount, TaskProcess, TaskEnable, TaskCheck, TaskWake,
                 TaskTimeout, TaskTake, TaskUnchanged, At, hwvars
  <2> QED
    BY <1>0, <2>1, CreditFrame DEF CreditInv, ScanFlushed
<1> QED
  BY <1>1, <1>2, <1>3, <1>4, <1>5, <1>6, <1>7, <1>8, <1>9, <1>10, NextCases

\* HPA_RX_CPU_CUR_DESC_PTR runs ahead of the DMA engine by exactly the number of
\* descriptors the engine owns, less those a running scan has yet to hand over:
\* whatever the order in which the scan met the filled descriptors, the engine is
\* never sent past the ring and never left short of a buffer.
THEOREM RxCredits == Spec => []CreditsMatchOwnership
<1>1. CreditInv => CreditsMatchOwnership
  BY DEF CreditInv
<1> QED
  BY <1>1, CreditInit, CreditNext, PTL DEF Spec

-----------------------------------------------------------------------------
(* A filled descriptor is not forgotten while the task sleeps.  This is of  *)
(* frames of one descriptor: a scan passes over a later part of a frame     *)
(* whose first part it has not seen.                                        *)

\* Scan c will still look at descriptor d.
Ahead(c, d) == \E k \in 0 .. NDESC : k < scan[c].left /\ d = (scan[c].descid + k) % NDESC

\* Every filled descriptor holds a whole frame.
SingleInv ==
    /\ hw_left = 0
    /\ \A d \in Desc : Closed(d) => desc[d].sop = TRUE

\* Somebody will look at descriptor d before the task sleeps.
Covered(d) ==
    \/ "RX_DONE" \in intsts
    \/ isr = "ack_done"
    \/ isr = "rx_ready" /\ Ahead("isr", d)
    \/ task = "rx_ready" /\ Ahead("task", d)
    \/ sem = 1
    \/ task \in {"dqueue", "count", "process", "disable"}

\* NoStrandedFrame speaks of a sleeping task only; the strengthening says at every
\* point of the task's loop who will look at the descriptor.
StrandInv == TypeInv /\ SingleInv /\ \A d \in Desc : Closed(d) => Covered(d)

LEMMA ScanFromStart ==
  ASSUME NEW x \in Desc, NEW d \in Desc
  PROVE  \E k \in 0 .. NDESC : k < NDESC + 1 /\ d = (x + k) % NDESC
<1>1. CASE d >= x
  <2>1. d - x \in 0 .. NDESC /\ d - x < NDESC + 1 /\ d = (x + (d - x)) % NDESC
    BY <1>1, Sizes DEF Desc
  <2> QED
    BY <2>1
<1>2. CASE d < x
  <2>1. d + NDESC - x \in 0 .. NDESC /\ d + NDESC - x < NDESC + 1
    BY <1>2, Sizes DEF Desc
  <2>2. (x + (d + NDESC - x)) % NDESC = d
    BY Sizes DEF Desc
  <2> QED
    BY <2>1, <2>2
<1> QED
  BY <1>1, <1>2 DEF Desc

\* One iteration leaves every descriptor ahead but the one it looked at.
LEMMA AheadNext ==
  ASSUME TypeInv, NEW c \in Context, NEW n \in {0, 1}, NextDesc(c, n),
         NEW d \in Desc, Ahead(c, d), d # scan[c].descid
  PROVE  Ahead(c, d)'
<1>1. /\ scan \in [Context -> [descid : Desc, left : 0 .. NDESC + 1, npkts : 0 .. NDESC + 1]]
      /\ scan[c].descid \in Desc /\ scan[c].left \in Nat
  BY DEF TypeInv, TypeOK
<1>2. PICK k \in 0 .. NDESC : k < scan[c].left /\ d = (scan[c].descid + k) % NDESC
  BY DEF Ahead
<1>3. k # 0
  BY <1>1, <1>2, Sizes DEF Desc
<1>4. /\ scan'[c].descid = (scan[c].descid + 1) % NDESC
      /\ scan'[c].left = scan[c].left - 1
  BY <1>1 DEF NextDesc
<1>5. ASSUME NEW x \in 0 .. NDESC - 1 PROVE (((x + 1) % NDESC) + (k - 1)) % NDESC = (x + k) % NDESC
  <2>1. (x + 1) % NDESC = IF x + 1 = NDESC THEN 0 ELSE x + 1
    BY Sizes
  <2>2. CASE x + 1 = NDESC
    <3>1. (x + k) % NDESC = (k - 1) % NDESC
      <4>1. x + k = (k - 1) + NDESC
        BY <2>2, <1>3, Sizes
      <4>2. k - 1 \in 0 .. NDESC - 1
        BY <1>3, Sizes
      <4> QED
        BY <4>1, <4>2, Sizes
    <3> QED
      BY <2>1, <2>2, <3>1, Sizes
  <2>3. CASE x + 1 # NDESC
    <3>1. (x + 1) + (k - 1) = x + k
      BY Sizes
    <3> QED
      BY <2>1, <2>3, <3>1
  <2> QED
    BY <2>2, <2>3
<1>6. (scan'[c].descid + (k - 1)) % NDESC = d
  BY <1>1, <1>2, <1>4, <1>5 DEF Desc
<1>7. k - 1 \in 0 .. NDESC /\ k - 1 < scan'[c].left
  BY <1>1, <1>2, <1>3, <1>4, Sizes
<1> QED
  BY <1>6, <1>7 DEF Ahead

LEMMA StrandInit == ASSUME MaxChunks = 1, Init PROVE StrandInv
<1>1. hw_left = 0 /\ \A d \in Desc : desc[d].own = "HPA"
  BY DEF Init
<1> QED
  BY <1>1, TypeInit DEF StrandInv, SingleInv, Closed

LEMMA SingleNext == ASSUME MaxChunks = 1, TypeInv, SingleInv, [Next]_vars PROVE SingleInv'
<1> USE DEF SingleInv, Closed
<1>1. CASE HwClose
  <2>1. PICK left \in 0 .. 0 :
          /\ hw_left' = left
          /\ desc' = [desc EXCEPT ![hw_cur % NDESC] =
                        [@ EXCEPT !.own = "CPU", !.sop = (hw_left = 0), !.eop = (left = 0)]]
    BY <1>1 DEF HwClose
  <2>2. hw_left' = 0
    BY <2>1
  <2>3. \A d \in Desc : d # hw_cur % NDESC => desc'[d] = desc[d]
    BY <2>1 DEF TypeInv, TypeOK
  <2>4. ASSUME hw_cur % NDESC \in Desc PROVE desc'[hw_cur % NDESC].sop = TRUE
    BY <2>1, <2>4 DEF TypeInv, TypeOK
  <2> QED
    BY <2>2, <2>3, <2>4
<1>2. ASSUME NEW c \in Context, ScanTake(c) PROVE SingleInv'
  <2>1. PICK addr \in Buf : desc' = [desc EXCEPT ![scan[c].descid] =
               [own |-> "HPA", address |-> addr, sop |-> FALSE, eop |-> FALSE]]
    BY <1>2 DEF ScanTake
  <2>2. UNCHANGED hw_left
    BY <1>2 DEF ScanTake, hwvars
  <2> QED
    BY <2>1, <2>2 DEF TypeInv, TypeOK
<1>3. CASE UNCHANGED <<desc, hwvars>>
  BY <1>3 DEF hwvars
<1>4. ASSUME ~HwClose, \A c \in Context : ~ScanTake(c) PROVE UNCHANGED <<desc, hwvars>>
  BY <1>4, NextCases
     DEF vars, HwAxiError, IsrEnter, IsrStatus, IsrDone, IsrWake, IsrUnchanged,
         ScanEmpty, ScanNoBuffer, ScanEnd, TaskDequeue, TaskCount, TaskProcess,
         TaskDisable, TaskEnable, TaskCheck, TaskWake, TaskTimeout, TaskTake, TaskUnchanged
<1> QED
  BY <1>1, <1>2, <1>3, <1>4

LEMMA StrandScan ==
  ASSUME StrandInv, NEW c \in Context,
         ScanEmpty(c) \/ ScanNoBuffer(c) \/ ScanTake(c) \/ ScanEnd(c),
         NEW d \in Desc, Closed(d)'
  PROVE  Covered(d)'
<1>1. /\ scan \in [Context -> [descid : Desc, left : 0 .. NDESC + 1, npkts : 0 .. NDESC + 1]]
      /\ desc \in [Desc -> [own : {"HPA", "CPU"}, address : Buf,
                            sop : BOOLEAN, eop : BOOLEAN]]
      /\ sem \in {0, 1}
  BY DEF StrandInv, TypeInv, TypeOK
<1>2. CASE ScanNoBuffer(c)
  BY <1>2 DEF ScanNoBuffer, WakeUpRxTask, Covered
<1>3. CASE ScanEnd(c)
  <2>1. /\ UNCHANGED <<desc, intsts, sem>> /\ scan[c].left = 0 /\ Running(c)
        /\ scan' = [scan EXCEPT ![c] = NoScan]
        /\ IF c = "isr" THEN isr' = "status" /\ UNCHANGED task
                        ELSE task' = "enable" /\ UNCHANGED isr
    BY <1>3 DEF ScanEnd
  <2>2. Covered(d)
    BY <2>1 DEF StrandInv, Closed
  <2>3. ~Ahead(c, d)
    BY <1>1, <2>1 DEF Ahead
  <2>4. \A e \in Context : e # c => (Ahead(e, d) <=> Ahead(e, d)')
    BY <1>1, <2>1 DEF Ahead
  <2> QED
    BY <2>1, <2>2, <2>3, <2>4 DEF Covered, Running, Context
<1>4. CASE ScanEmpty(c) \/ ScanTake(c)
  <2>1. PICK n \in {0, 1} : NextDesc(c, n)
    BY <1>4 DEF ScanEmpty, ScanTake
  <2>2. Running(c) /\ UNCHANGED <<intsts, isr, task>> /\ (sem' = sem \/ sem' = 1)
    <3>1. CASE ScanEmpty(c)
      BY <3>1 DEF ScanEmpty, taskvars
    <3>2. CASE ScanTake(c)
      <4>1. PICK addr \in Buf :
              Enqueue(desc[scan[c].descid].address, desc[scan[c].descid].sop,
                      desc[scan[c].descid].eop, [next EXCEPT ![addr] = NULL])
        BY <3>2 DEF ScanTake, Scanned
      <4>2. sem' = sem \/ sem' = 1
        BY <4>1 DEF Enqueue, EnqueueFrame, EnqueueFirst, EnqueueMiddle,
                    EnqueueLast, LinkPacket, WakeUpRxTask
      <4> QED
        BY <3>2, <4>2 DEF ScanTake, taskvars
    <3> QED
      BY <1>4, <3>1, <3>2
  <2>3. d # scan[c].descid /\ Closed(d)
    <3>1. CASE ScanEmpty(c)
      <4>1. ~Acceptable(desc[scan[c].descid]) /\ UNCHANGED desc
        BY <3>1 DEF ScanEmpty, Scanned
      <4>2. Closed(d) => Acceptable(desc[d])
        BY <1>1, BufAssumption DEF StrandInv, SingleInv, Closed, Acceptable
      <4> QED
        BY <4>1, <4>2 DEF Closed
    <3>2. CASE ScanTake(c)
      <4>1. PICK addr \in Buf : desc' = [desc EXCEPT ![scan[c].descid] =
               [own |-> "HPA", address |-> addr, sop |-> FALSE, eop |-> FALSE]]
        BY <3>2 DEF ScanTake
      <4> QED
        BY <1>1, <4>1 DEF Closed
    <3> QED
      BY <1>4, <3>1, <3>2
  <2>4. Covered(d)
    BY <2>3 DEF StrandInv
  <2>5. Ahead(c, d) => Ahead(c, d)'
    BY <2>1, <2>3, AheadNext DEF StrandInv
  <2>6. \A e \in Context : e # c => (Ahead(e, d) <=> Ahead(e, d)')
    BY <1>1, <2>1 DEF Ahead, NextDesc
  <2> QED
    BY <1>1, <2>2, <2>4, <2>5, <2>6 DEF Covered, Context
<1> QED
  BY <1>2, <1>3, <1>4

LEMMA StrandNext == ASSUME MaxChunks = 1, StrandInv, [Next]_vars PROVE StrandInv'
<1>0. TypeInv' /\ SingleInv'
  BY TypeNext, SingleNext DEF StrandInv
<1>00. /\ scan \in [Context -> [descid : Desc, left : 0 .. NDESC + 1, npkts : 0 .. NDESC + 1]]
       /\ \A d \in Desc : Closed(d) => Covered(d)
  BY DEF StrandInv, TypeInv, TypeOK
<1> SUFFICES ASSUME NEW d \in Desc, Closed(d)' PROVE Covered(d)'
  BY <1>0 DEF StrandInv
<1>1. CASE UNCHANGED vars
  BY <1>1, <1>00 DEF vars, taskvars, Closed, Covered, Ahead
<1>2. CASE HwClose
  BY <1>2 DEF HwClose, Covered
<1>3. CASE HwAxiError
  BY <1>3, <1>00 DEF HwAxiError, taskvars, Closed, Covered, Ahead
<1>4. CASE IsrEnter \/ IsrStatus
  BY <1>4, <1>00 DEF IsrEnter, IsrStatus, IsrUnchanged, taskvars, Closed, Covered, Ahead
<1>5. CASE IsrWake("ack_empty", "RX_EMPTY") \/ IsrWake("ack_axierr", "RX_AXIERR")
  BY <1>5 DEF IsrWake, WakeUpRxTask, Covered
<1>6. rx_pkt_reaped % NDESC \in Desc
  BY ModRange, Sizes DEF Desc, StrandInv, TypeInv, TypeOK
<1>7. CASE IsrDone
  <2>1. isr' = "rx_ready" /\ scan' = [scan EXCEPT !["isr"] = BeginScan]
    BY <1>7 DEF IsrDone
  <2>2. Ahead("isr", d)'
    BY <1>00, <1>6, <2>1, ScanFromStart DEF Ahead, BeginScan, Context
  <2> QED
    BY <2>1, <2>2 DEF Covered
<1>8. ASSUME NEW c \in Context,
             ScanEmpty(c) \/ ScanNoBuffer(c) \/ ScanTake(c) \/ ScanEnd(c)
      PROVE  Covered(d)'
  BY <1>8, StrandScan
<1>9. CASE TaskDisable
  <2>1. task' = "rx_ready" /\ scan' = [scan EXCEPT !["task"] = BeginScan]
    BY <1>9 DEF TaskDisable
  <2>2. Ahead("task", d)'
    BY <1>00, <1>6, <2>1, ScanFromStart DEF Ahead, BeginScan, Context
  <2> QED
    BY <2>1, <2>2 DEF Covered
<1>10. CASE TaskDequeue \/ TaskCount \/ TaskProcess \/ TaskWake \/ TaskTimeout
  BY <1>10 DEF TaskDequeue, TaskCount, TaskProcess, TaskWake, TaskTimeout, TaskTake, Covered
<1>11. CASE TaskEnable \/ TaskCheck
  BY <1>11, <1>00 DEF TaskEnable, TaskCheck, At, TaskUnchanged, Closed, Covered, Ahead
<1> QED
  BY <1>1, <1>2, <1>3, <1>4, <1>5, <1>7, <1>8, <1>9, <1>10, <1>11, NextCases

\* Frames of one descriptor: whenever the DMA engine fills a descriptor, also in
\* the middle of a scan that has passed it or with the pool empty, the task does
\* not go to sleep on it without an interrupt, a scan or a token to come.
THEOREM RxNoStrandedFrame == ASSUME MaxChunks = 1 PROVE Spec => []NoStrandedFrame
<1>1. StrandInv => NoStrandedFrame
  BY DEF StrandInv, Covered, NoStrandedFrame, Ahead
<1>2. Init => StrandInv
  BY StrandInit
<1>3. StrandInv /\ [Next]_vars => StrandInv'
  BY StrandNext
<1> QED
  BY <1>1, <1>2, <1>3, PTL DEF Spec

-----------------------------------------------------------------------------
(* The two records of a chain in progress.                                  *)

\* A descriptor that is taken moves both records at once.
LEMMA ChainTake ==
  ASSUME TypeInv, ChainInSync, NEW c \in Context, ScanTake(c)
  PROVE  ChainInSync'
<1> DEFINE d == desc[scan[c].descid]
<1>1. /\ d.address \in Buf /\ d.sop \in BOOLEAN /\ d.eop \in BOOLEAN
      /\ chain_active \in BOOLEAN
  <2>1. scan[c].descid \in Desc
    BY DEF TypeInv, TypeOK
  <2> QED
    BY <2>1 DEF TypeInv, TypeOK
<1>2. d.address # NULL
  BY <1>1, BufAssumption
<1>3. d.sop \/ chain_active
  BY DEF ScanTake, Acceptable, Scanned
<1>4. chain_active' = (IF d.eop /\ ~d.sop THEN FALSE
                       ELSE IF d.sop /\ ~d.eop THEN TRUE ELSE chain_active)
  BY DEF ScanTake, Scanned
<1>5. \/ d.sop /\ d.eop /\ rx_current_chain' = rx_current_chain
      \/ d.sop /\ ~d.eop /\ rx_current_chain' = d.address
      \/ ~d.sop /\ ~d.eop /\ rx_current_chain' = rx_current_chain
      \/ ~d.sop /\ d.eop /\ rx_current_chain' = NULL
  BY DEF ScanTake, Scanned, Enqueue, EnqueueFrame, EnqueueFirst, EnqueueMiddle, EnqueueLast
<1> QED
  BY <1>1, <1>2, <1>3, <1>4, <1>5 DEF ChainInSync

\* No other step touches either of them.
LEMMA ChainNext == TypeInv /\ ChainInSync /\ [Next]_vars => ChainInSync'
<1> SUFFICES ASSUME TypeInv, ChainInSync, [Next]_vars PROVE ChainInSync'
    OBVIOUS
<1>1. ASSUME NEW c \in Context, ScanTake(c) PROVE ChainInSync'
  BY <1>1, ChainTake
<1>2. ASSUME UNCHANGED <<chain_active, rx_current_chain>> PROVE ChainInSync'
  BY <1>2 DEF ChainInSync
<1>3. CASE UNCHANGED vars
  BY <1>3, <1>2 DEF vars, queuevars
<1>4. CASE HwClose \/ HwAxiError
  BY <1>4, <1>2 DEF HwClose, HwAxiError, queuevars
<1>5. CASE IsrEnter \/ IsrStatus \/ IsrDone
            \/ IsrWake("ack_empty", "RX_EMPTY") \/ IsrWake("ack_axierr", "RX_AXIERR")
  BY <1>5, <1>2 DEF IsrEnter, IsrStatus, IsrDone, IsrWake, IsrUnchanged, queuevars
<1>6. ASSUME NEW c \in Context, ScanEmpty(c) \/ ScanNoBuffer(c) \/ ScanEnd(c)
      PROVE ChainInSync'
  BY <1>6, <1>2 DEF ScanEmpty, ScanNoBuffer, ScanEnd, queuevars
<1>7. CASE TaskDequeue \/ TaskCount \/ TaskProcess \/ TaskDisable \/ TaskEnable
            \/ TaskCheck \/ TaskWake \/ TaskTimeout
  BY <1>7, <1>2 DEF TaskDequeue, TaskCount, TaskProcess, TaskDisable, TaskEnable,
              TaskCheck, TaskWake, TaskTimeout, TaskTake, At, TaskUnchanged, queuevars
<1> QED
  BY <1>1, <1>3, <1>4, <1>5, <1>6, <1>7, NextCases

\* Frames of any length, two scans and an engine that goes on writing: hpa.c's flag
\* that a chain is in progress and rx.c's pointer to it say the same, so that a middle
\* or last part is never linked to a null pointer.
THEOREM RxChainInSync == Spec => []ChainInSync
<1>1. Init => ChainInSync
  BY DEF Init, ChainInSync
<1>2. TypeInv /\ ChainInSync /\ [Next]_vars => ChainInSync'
  BY ChainNext
<1> QED
  BY <1>1, <1>2, TypeInit, TypeNext, PTL DEF Spec

-----------------------------------------------------------------------------
(* Lists of packet buffers.                                                 *)

\* A set of natural numbers has a least element.
LEMMA LeastNumber ==
  ASSUME NEW T \in SUBSET Nat, T # {}
  PROVE  \E m \in T : \A k \in T : m <= k
<1> DEFINE Initial == {0 .. n : n \in T}
<1>1. Initial \subseteq FiniteSubsetsOf(Nat) /\ Initial # {}
  <2>1. ASSUME NEW n \in T PROVE 0 .. n \in FiniteSubsetsOf(Nat)
    BY FS_Interval DEF FiniteSubsetsOf
  <2> QED
    BY <2>1
<1>2. \E x \in Initial : \A y \in Initial : ~(<<y, x>> \in StrictSubsetOrdering(Nat))
  <2> HIDE DEF Initial
  <2> QED
    BY <1>1, FS_StrictSubsetOrderingWellFounded, WFMin
<1>3. PICK m \in T : \A y \in Initial : ~(<<y, 0 .. m>> \in StrictSubsetOrdering(Nat))
  BY <1>2
<1>4. ASSUME NEW k \in T, k < m PROVE FALSE
  <2>1. 0 .. k \in Initial /\ 0 .. k \subseteq 0 .. m /\ 0 .. k # 0 .. m /\ 0 .. m \subseteq Nat
    BY <1>4
  <2> QED
    BY <2>1, <1>3 DEF StrictSubsetOrdering
<1> QED
  BY <1>4

\* Induction up to n, for a set of numbers.
LEMMA Upwards ==
  ASSUME NEW n \in Nat, NEW S, 0 \in S, \A i \in 1 .. n : i - 1 \in S => i \in S
  PROVE  n \in S
<1> DEFINE T == (0 .. n) \ S
<1>1. SUFFICES ASSUME T # {} PROVE FALSE
  OBVIOUS
<1>2. PICK m \in T : \A k \in T : m <= k
  <2>1. T \in SUBSET Nat
    OBVIOUS
  <2> HIDE DEF T
  <2> QED
    BY <1>1, <2>1, LeastNumber
<1>3. m \in 1 .. n /\ m - 1 \in S
  BY <1>2
<1> QED
  BY <1>2, <1>3

\* The steps along nxt, which stay at the end of the list.
Along(nxt, x) == IF nxt[x] = NULL THEN x ELSE nxt[x]
Steps(w, b, nxt, m) ==
    w \in [0 .. m -> Buf] /\ w[0] = b /\ \A i \in 1 .. m : w[i] = Along(nxt, w[i - 1])

LEMMA StepsExist ==
  ASSUME NEW n \in Nat, NEW b \in Buf, NEW nxt \in [Buf -> Ptr]
  PROVE  \E w : Steps(w, b, nxt, n)
<1> DEFINE Upto(m) == \E w : Steps(w, b, nxt, m)
           S == {m \in 0 .. n : Upto(m)}
<1>1. Upto(0)
  <2> DEFINE g == [i \in 0 .. 0 |-> b]
  <2>1. g \in [0 .. 0 -> Buf] /\ g[0] = b /\ \A i \in 1 .. 0 : g[i] = Along(nxt, g[i - 1])
    OBVIOUS
  <2> HIDE DEF g
  <2> QED
    BY <2>1 DEF Steps
<1>2. ASSUME NEW m \in 1 .. n, Upto(m - 1) PROVE Upto(m)
  <2>1. PICK w : Steps(w, b, nxt, m - 1)
    BY <1>2
  <2> DEFINE g == [i \in 0 .. m |-> IF i = m THEN Along(nxt, w[m - 1]) ELSE w[i]]
  <2>2. w[m - 1] \in Buf /\ Along(nxt, w[m - 1]) \in Buf
    BY <2>1 DEF Steps, Along, Ptr
  <2>3. g \in [0 .. m -> Buf] /\ g[0] = b
    BY <2>1, <2>2 DEF Steps
  <2>4. ASSUME NEW i \in 1 .. m PROVE g[i] = Along(nxt, g[i - 1])
    <3>1. CASE i = m
      BY <3>1
    <3>2. CASE i # m
      BY <3>2, <2>1 DEF Steps
    <3> QED
      BY <3>1, <3>2
  <2> HIDE DEF g
  <2> QED
    BY <2>3, <2>4 DEF Steps
<1> HIDE DEF Upto
<1>3. 0 \in S /\ \A m \in 1 .. n : m - 1 \in S => m \in S
  BY <1>1, <1>2
<1>4. n \in S
  <2> HIDE DEF S
  <2> QED
    BY <1>3, Upwards
<1> QED
  BY <1>4 DEF Upto

\* Walk goes from its start along nxt.
LEMMA WalkSteps ==
  ASSUME NEW b \in Buf, NEW nxt \in [Buf -> Ptr]
  PROVE  Steps(Walk(b, nxt), b, nxt, Cardinality(Buf))
<1> DEFINE N == Cardinality(Buf)
           w[n \in 0 .. N] ==
             IF n = 0 THEN b ELSE IF nxt[w[n - 1]] = NULL THEN w[n - 1] ELSE nxt[w[n - 1]]
<1>1. N \in Nat
  BY Sizes
<1>2. PICK f : Steps(f, b, nxt, N)
  <2> HIDE DEF N
  <2> QED
    BY <1>1, StepsExist
<1>3. f = [n \in 0 .. N |->
             IF n = 0 THEN b ELSE IF nxt[f[n - 1]] = NULL THEN f[n - 1] ELSE nxt[f[n - 1]]]
  <2> HIDE DEF N
  <2> QED
    BY <1>1, <1>2 DEF Steps, Along
<1>4. w = [n \in 0 .. N |->
             IF n = 0 THEN b ELSE IF nxt[w[n - 1]] = NULL THEN w[n - 1] ELSE nxt[w[n - 1]]]
  BY <1>3
<1>5. Walk(b, nxt) = w
  BY DEF Walk
<1> HIDE DEF w, N
<1>6. w[0] = b /\ \A i \in 1 .. N : w[i] = Along(nxt, w[i - 1])
  BY <1>1, <1>4 DEF Along
<1> DEFINE S == {i \in 0 .. N : w[i] = f[i]}
<1>7. ASSUME NEW i \in 0 .. N PROVE w[i] = f[i]
  <2>1. 0 \in S /\ \A k \in 1 .. i : k - 1 \in S => k \in S
    BY <1>1, <1>2, <1>6 DEF Steps
  <2>2. i \in S
    <3> HIDE DEF S
    <3> QED
      BY <1>1, <2>1, Upwards
  <2> QED
    BY <2>2
<1>8. w \in [0 .. N -> Buf]
  BY <1>2, <1>4, <1>7 DEF Steps
<1> QED
  BY <1>5, <1>6, <1>8 DEF Steps, N

\* s is the list of n buffers that starts at h.
IsList(s, n, h, nxt) ==
    /\ s \in [1 .. n -> Buf]
    /\ n > 0 => h = s[1]
    /\ \A i \in 1 .. n - 1 : nxt[s[i]] = s[i + 1]

\* Walk visits the buffers of a list in their order.
LEMMA WalkList ==
  ASSUME NEW n \in Nat, n <= Cardinality(Buf), NEW h, NEW nxt \in [Buf -> Ptr], NEW s,
         IsList(s, n, h, nxt)
  PROVE  [i \in 1 .. n |-> Walk(h, nxt)[i - 1]] = s
<1>1. CASE n = 0
  BY <1>1 DEF IsList
<1>2. CASE n > 0
  <2>1. h \in Buf /\ h = s[1]
    BY <1>2 DEF IsList
  <2>2. Steps(Walk(h, nxt), h, nxt, Cardinality(Buf))
    BY <2>1, WalkSteps
  <2> DEFINE w == Walk(h, nxt)
             S == {i \in 0 .. n - 1 : w[i] = s[i + 1]}
  <2> HIDE DEF w
  <2>3. w[0] = s[1] /\ \A i \in 1 .. n - 1 : w[i] = Along(nxt, w[i - 1])
    BY <2>1, <2>2, Sizes DEF Steps, w
  <2>4. ASSUME NEW i \in 1 .. n - 1 PROVE Along(nxt, s[i]) = s[i + 1]
    BY BufAssumption DEF IsList, Along
  <2>5. ASSUME NEW i \in 0 .. n - 1 PROVE w[i] = s[i + 1]
    <3>1. 0 \in S
      BY <1>2, <2>3
    <3>2. ASSUME NEW k \in 1 .. i, k - 1 \in S PROVE k \in S
      <4>1. w[k - 1] = s[k] /\ k \in 1 .. n - 1
        BY <3>2
      <4> QED
        BY <4>1, <2>3, <2>4
    <3>3. i \in S
      <4> HIDE DEF S
      <4> QED
        BY <3>1, <3>2, Upwards
    <3> QED
      BY <3>3
  <2>6. ASSUME NEW i \in 1 .. n PROVE w[i - 1] = s[i]
    <3>1. i - 1 \in 0 .. n - 1 /\ (i - 1) + 1 = i
      OBVIOUS
    <3> QED
      BY <3>1, <2>5
  <2> QED
    BY <2>6 DEF IsList, w
<1> QED
  BY <1>1, <1>2

\* Two states of the pointers agree on the buffers of s from the i-th to the j-th.
SameLinks(nxt2, nxt, s, i, j) == \A k \in i .. j : nxt2[s[k]] = nxt[s[k]]

\* A change of pointers elsewhere leaves a list as it is.
LEMMA ListFrame ==
  ASSUME NEW n \in Nat, NEW h, NEW nxt, NEW s, IsList(s, n, h, nxt), NEW nxt2,
         SameLinks(nxt2, nxt, s, 1, n - 1)
  PROVE  IsList(s, n, h, nxt2)
BY DEF IsList, SameLinks

\* The rest of a list is a list.
LEMMA ListRest ==
  ASSUME NEW n \in Nat \ {0}, NEW h, NEW nxt, NEW s, IsList(s, n, h, nxt), NEW nxt2,
         SameLinks(nxt2, nxt, s, 2, n - 1)
  PROVE  IsList([i \in 1 .. n - 1 |-> s[i + 1]], n - 1, nxt[h], nxt2)
<1> DEFINE t == [i \in 1 .. n - 1 |-> s[i + 1]]
<1>1. t \in [1 .. n - 1 -> Buf]
  BY DEF IsList
<1>2. n - 1 > 0 => nxt[h] = t[1]
  BY DEF IsList
<1>3. ASSUME NEW i \in 1 .. (n - 1) - 1 PROVE nxt2[t[i]] = t[i + 1]
  <2>1. i + 1 \in 2 .. n - 1 /\ i \in 1 .. n - 1 /\ i + 1 \in 1 .. n - 1
    OBVIOUS
  <2>2. t[i] = s[i + 1] /\ t[i + 1] = s[(i + 1) + 1]
    BY <2>1
  <2> QED
    BY <2>1, <2>2 DEF IsList, SameLinks
<1> HIDE DEF t
<1>4. IsList(t, n - 1, nxt[h], nxt2)
  BY <1>1, <1>2, <1>3 DEF IsList
<1> QED
  BY <1>4 DEF t

\* A buffer linked behind the last one makes a list.
Longer(s, n, a) == [i \in 1 .. n + 1 |-> IF i = n + 1 THEN a ELSE s[i]]

LEMMA ListLonger ==
  ASSUME NEW n \in Nat, NEW h, NEW nxt, NEW s, IsList(s, n, h, nxt), NEW nxt2, NEW a \in Buf, NEW h2,
         h2 = (IF n = 0 THEN a ELSE h), n > 0 => nxt2[s[n]] = a,
         SameLinks(nxt2, nxt, s, 1, n - 1)
  PROVE  IsList(Longer(s, n, a), n + 1, h2, nxt2)
<1> DEFINE t == [i \in 1 .. n + 1 |-> IF i = n + 1 THEN a ELSE s[i]]
<1>1. t \in [1 .. n + 1 -> Buf]
  BY DEF IsList
<1>2. h2 = t[1]
  BY DEF IsList
<1>3. ASSUME NEW i \in 1 .. (n + 1) - 1 PROVE nxt2[t[i]] = t[i + 1]
  <2>1. t[i] = s[i] /\ t[i + 1] = IF i = n THEN a ELSE s[i + 1]
    OBVIOUS
  <2> QED
    BY <2>1 DEF IsList, SameLinks
<1> HIDE DEF t
<1>4. IsList(t, n + 1, h2, nxt2)
  BY <1>1, <1>2, <1>3 DEF IsList
<1> QED
  BY <1>4 DEF t, Longer

-----------------------------------------------------------------------------
(* The receive path implements RxPath, and loses and shares no buffer.      *)

PoolSeq  == [i \in 1 .. num_in_pool |-> Walk(pool_head, next)[i - 1]]
QueueSeq == [i \in 1 .. QueueLen |-> Walk(queue_head, next)[i - 1]]

\* What RxPathProofs shows of RxPath, about the places of this module.
Path == INSTANCE RxPathProofs WITH
          NoBuf  <- NULL,
          ring   <- [d \in Desc |-> desc[d].address],
          filled <- {d \in Desc : Closed(d)},
          pool   <- Pool,
          queue  <- QueueSeq,
          held   <- pkt

\* The two lists are linked from head to tail; only of the queue's tail is `next` null.
ListInv ==
    /\ IsList(PoolSeq, num_in_pool, pool_head, next)
    /\ pool_tail = IF num_in_pool = 0 THEN NULL ELSE PoolSeq[num_in_pool]
    /\ \A i, j \in 1 .. num_in_pool : PoolSeq[i] = PoolSeq[j] => i = j
    /\ IsList(QueueSeq, QueueLen, queue_head, next)
    /\ IF QueueLen = 0 THEN queue_head = NULL /\ queue_tail = NULL
       ELSE queue_tail = QueueSeq[QueueLen] /\ next[queue_tail] = NULL

\* The counters add up, and none of them wraps between two reads.
CountInv ==
    /\ num_in_pool + NDESC + QueueLen + (IF pkt = NULL THEN 0 ELSE 1) = Cardinality(Buf)
    /\ pkt # NULL <=> task \in {"count", "process"}
    /\ task = "count" => Backlog > 0

\* What the ring holds is ready to be linked, one descriptor being one frame.
FrameInv ==
    /\ \A d \in Desc : next[desc[d].address] = NULL /\ (Closed(d) => desc[d].eop)
    /\ rx_current_chain = NULL /\ rx_current_chain_num = 0 /\ ~chain_active

\* The pointers alone are not inductive: that a buffer linked or allocated is not in
\* another list already is NoSharing of RxPath.
PathInv == TypeInv /\ SingleInv /\ ListInv /\ CountInv /\ FrameInv /\ Path!Inv

\* The counters' difference as long as it does not wrap.
LEMMA BacklogRange ==
  ASSUME TypeInv
  PROVE  /\ Backlog \in 0 .. CNT - 1
         /\ Backlog = Distance(num_enqueued, num_processed, CNT)
<1>1. num_enqueued \in 0 .. CNT - 1 /\ num_processed \in 0 .. CNT - 1
  BY DEF TypeInv, TypeOK
<1>2. num_enqueued + CNT - num_processed \in Nat
  BY <1>1, Sizes
<1> QED
  BY <1>2, ModRange, Sizes DEF Backlog, Distance

\* QueueLen, before a step and after it.
LEMMA QueueLenIs ==
  ASSUME NEW k \in 0 .. CNT - 1, Backlog = k, task = "count" => k > 0
  PROVE  QueueLen = IF task = "count" THEN k - 1 ELSE k
<1>1. (k + CNT) % CNT = k
  BY Sizes
<1>2. k > 0 => (k + CNT - 1) % CNT = k - 1
  BY Sizes
<1> QED
  BY <1>1, <1>2, Sizes DEF QueueLen

LEMMA QueueLenNext ==
  ASSUME NEW k \in 0 .. CNT - 1, Backlog' = k, task' = "count" => k > 0
  PROVE  QueueLen' = IF task' = "count" THEN k - 1 ELSE k
<1>1. (k + CNT) % CNT = k
  BY Sizes
<1>2. k > 0 => (k + CNT - 1) % CNT = k - 1
  BY Sizes
<1>3. QueueLen' = (Backlog' + CNT - (IF task' = "count" THEN 1 ELSE 0)) % CNT
  BY DEF QueueLen
<1> QED
  BY <1>1, <1>2, <1>3, Sizes

\* The values of w from i to j.
Values(w, i, j) == {w[k] : k \in i .. j}

\* Values that are all different are as many as their places.
LEMMA ValuesCardinality ==
  ASSUME NEW i \in Nat, NEW j \in Int, i <= j + 1, NEW X, NEW s \in [i .. j -> X],
         \A k, l \in i .. j : s[k] = s[l] => k = l
  PROVE  IsFiniteSet(Values(s, i, j)) /\ Cardinality(Values(s, i, j)) = j - i + 1
<1>1. IsFiniteSet(i .. j) /\ Cardinality(i .. j) = j - i + 1
  BY FS_Interval
<1> DEFINE V == Values(s, i, j)
<1>2. s \in Surjection(i .. j, V)
  BY DEF Surjection, Values
<1>3. s \in Injection(i .. j, V)
  BY DEF Injection, IsInjective, Values
<1> HIDE DEF V
<1>4. IsFiniteSet(V) /\ Cardinality(V) = Cardinality(i .. j)
  BY <1>1, <1>2, <1>3, FS_Surjection
<1> QED
  BY <1>1, <1>4 DEF V

\* The buffers of a list, counted from one or from zero.
LEMMA ListedFromOne ==
  ASSUME NEW n \in Nat, NEW w, NEW s, s = [i \in 1 .. n |-> w[i - 1]]
  PROVE  Values(w, 0, n - 1) = Values(s, 1, n)
<1>1. \A i \in 1 .. n : s[i] = w[i - 1] /\ i - 1 \in 0 .. n - 1
  OBVIOUS
<1>2. \A i \in 0 .. n - 1 : i + 1 \in 1 .. n /\ (i + 1) - 1 = i
  OBVIOUS
<1>3. \A i \in 0 .. n - 1 : s[i + 1] = w[i]
  BY <1>1, <1>2
<1>4. \A x : x \in {w[i] : i \in 0 .. n - 1} <=> \E i \in 0 .. n - 1 : x = w[i]
  OBVIOUS
<1>5. \A x : x \in {s[i] : i \in 1 .. n} <=> \E i \in 1 .. n : x = s[i]
  OBVIOUS
<1>6. \A x : (\E i \in 0 .. n - 1 : x = w[i]) <=> (\E i \in 1 .. n : x = s[i])
  BY <1>1, <1>2, <1>3
<1> QED
  BY <1>4, <1>5, <1>6 DEF Values

\* The pool is what its list holds, before a step and after it.
LEMMA PoolIs ==
  ASSUME num_in_pool \in Nat
  PROVE  Pool = {PoolSeq[i] : i \in 1 .. num_in_pool}
<1> DEFINE w == Walk(pool_head, next)
<1>1. Pool = Values(w, 0, num_in_pool - 1)
  BY DEF Pool, Listed, Values
<1>2. PoolSeq = [i \in 1 .. num_in_pool |-> w[i - 1]]
  BY DEF PoolSeq
<1> HIDE DEF w
<1>3. Pool = Values(PoolSeq, 1, num_in_pool)
  BY <1>1, <1>2, ListedFromOne
<1> QED
  BY <1>3 DEF Values

LEMMA PoolNext ==
  ASSUME num_in_pool' \in Nat
  PROVE  Pool' = {PoolSeq'[i] : i \in 1 .. num_in_pool'}
<1> DEFINE w == Walk(pool_head', next')
<1>1. Pool' = Values(w, 0, num_in_pool' - 1)
  BY DEF Pool, Listed, Values
<1>2. PoolSeq' = [i \in 1 .. num_in_pool' |-> w[i - 1]]
  BY DEF PoolSeq
<1> HIDE DEF w
<1>3. Pool' = Values(PoolSeq', 1, num_in_pool')
  BY <1>1, <1>2, ListedFromOne
<1> QED
  BY <1>3 DEF Values

\* What the invariant says, without the operators of RxPath.
Separate ==
    /\ \A i \in 1 .. num_in_pool :
          /\ \A d \in Desc : PoolSeq[i] # desc[d].address
          /\ \A j \in 1 .. QueueLen : PoolSeq[i] # QueueSeq[j]
          /\ PoolSeq[i] # pkt
    /\ \A i, j \in 1 .. QueueLen : QueueSeq[i] = QueueSeq[j] => i = j
    /\ \A j \in 1 .. QueueLen :
          QueueSeq[j] # pkt /\ \A d \in Desc : QueueSeq[j] # desc[d].address
    /\ \A d \in Desc : pkt # desc[d].address

LEMMA PathFacts ==
  ASSUME PathInv
  PROVE  /\ num_in_pool \in Nat /\ QueueLen \in Nat
         /\ num_in_pool + QueueLen + NDESC <= Cardinality(Buf)
         /\ Backlog < CNT - 1
         /\ QueueLen = IF task = "count" THEN Backlog - 1 ELSE Backlog
         /\ next \in [Buf -> Ptr] /\ pkt \in Ptr
         /\ desc \in [Desc -> [own : {"HPA", "CPU"}, address : Buf,
                               sop : BOOLEAN, eop : BOOLEAN]]
         /\ PoolSeq \in [1 .. num_in_pool -> Buf] /\ QueueSeq \in [1 .. QueueLen -> Buf]
         /\ QueueSeq \in Seq(Buf) /\ Len(QueueSeq) = QueueLen
         /\ Pool = {PoolSeq[i] : i \in 1 .. num_in_pool}
         /\ Separate
<1>1. /\ num_in_pool \in Nat /\ next \in [Buf -> Ptr] /\ pkt \in Ptr
      /\ desc \in [Desc -> [own : {"HPA", "CPU"}, address : Buf,
                               sop : BOOLEAN, eop : BOOLEAN]]
  BY DEF PathInv, TypeInv, TypeOK
<1>2. /\ QueueLen = IF task = "count" THEN Backlog - 1 ELSE Backlog
      /\ Backlog \in Nat /\ QueueLen \in Nat
  BY BacklogRange, QueueLenIs DEF PathInv, CountInv
<1>3. num_in_pool + QueueLen + NDESC <= Cardinality(Buf) /\ Backlog < CNT - 1
  BY <1>1, <1>2, Sizes, CountAssumption DEF PathInv, CountInv
<1>4. PoolSeq \in [1 .. num_in_pool -> Buf] /\ QueueSeq \in [1 .. QueueLen -> Buf]
  BY DEF PathInv, ListInv, IsList
<1>5. QueueSeq \in Seq(Buf) /\ Len(QueueSeq) = QueueLen
  <2> DEFINE q == QueueSeq
  <2> HIDE DEF q
  <2>1. q \in Seq(Buf) /\ Len(q) = QueueLen
    <3>1. q \in [1 .. QueueLen -> Buf]
      BY <1>4 DEF q
    <3> QED
      BY <1>2, <3>1
  <2> QED
    BY <2>1 DEF q
<1>6. Pool = {PoolSeq[i] : i \in 1 .. num_in_pool}
  BY <1>1, PoolIs
<1>7. Separate
  <2>1. /\ \A i, j \in 1 .. Len(QueueSeq) : QueueSeq[i] = QueueSeq[j] => i = j
        /\ \A b \in Pool : ~Path!InRing(b) /\ ~Path!InQueue(b) /\ pkt # b
        /\ \A d \in Path!Desc : ~Path!InQueue([e \in Desc |-> desc[e].address][d])
                                /\ pkt # [e \in Desc |-> desc[e].address][d]
        /\ ~Path!InQueue(pkt)
    BY DEF PathInv, Path!Inv, Path!NoSharing
  <2>2. /\ Path!Desc = Desc
        /\ \A b : Path!InRing(b) <=> \E d \in Desc : desc[d].address = b
        /\ \A b : Path!InQueue(b) <=> \E i \in 1 .. QueueLen : QueueSeq[i] = b
    BY <1>5 DEF Path!InRing, Path!InQueue, Path!Desc, Desc
  <2> HIDE DEF PoolSeq, QueueSeq
  <2> QED
    BY <1>5, <1>6, <2>1, <2>2 DEF Separate
<1> QED
  BY <1>1, <1>2, <1>3, <1>4, <1>5, <1>6, <1>7

\* What has to be shown of a step.
PathStep == ListInv' /\ CountInv' /\ FrameInv' /\ [Path!Next]_(Path!vars)

\* A step that touches no list, no counter and none of the ring's addresses.
LEMMA PathStill ==
  ASSUME PathInv, UNCHANGED <<desc, next, poolvars, queuevars, num_processed, pkt, chain_active>>,
         task' = task \/ {task, task'} \cap {"count", "process"} = {}
  PROVE  PathStep
<1>1. UNCHANGED <<Backlog, QueueLen>>
  BY DEF Backlog, QueueLen, queuevars
<1>2. UNCHANGED <<PoolSeq, QueueSeq, Pool>>
  BY <1>1 DEF PoolSeq, QueueSeq, Pool, Listed, poolvars, queuevars
<1>3. ListInv'
  BY <1>1, <1>2 DEF PathInv, ListInv, IsList, poolvars, queuevars
<1>4. CountInv'
  BY <1>1 DEF PathInv, CountInv, poolvars
<1>5. FrameInv'
  BY DEF PathInv, FrameInv, Closed, queuevars
<1>6. UNCHANGED Path!vars
  BY <1>2 DEF Path!vars, Closed
<1> QED
  BY <1>3, <1>4, <1>5, <1>6 DEF PathStep

\* The DMA engine fills a descriptor and leaves it its buffer.
LEMMA PathClose == ASSUME MaxChunks = 1, PathInv, HwClose PROVE PathStep
<1> DEFINE d == hw_cur % NDESC
<1>1. /\ d \in Desc /\ desc[d].own = "HPA"
  <2>1. hw_cur \in Nat
    BY DEF PathInv, TypeInv, TypeOK
  <2> QED
    BY <2>1, ModRange, Sizes DEF Desc, HwClose
<1>2. PICK left \in 0 .. 0 :
          desc' = [desc EXCEPT ![d] = [@ EXCEPT !.own = "CPU", !.sop = (hw_left = 0),
                                                !.eop = (left = 0)]]
  BY DEF HwClose, PathInv, SingleInv
<1>3. desc \in [Desc -> [own : {"HPA", "CPU"}, address : Buf,
                         sop : BOOLEAN, eop : BOOLEAN]]
  BY PathFacts
<1> HIDE DEF d
<1>4. \A e \in Desc : desc'[e].address = desc[e].address
  BY <1>1, <1>2, <1>3
<1>5. \A e \in Desc : e # d => desc'[e] = desc[e]
  BY <1>1, <1>2, <1>3
<1>6. desc'[d].own = "CPU" /\ desc'[d].eop
  <2>1. desc'[d] = [desc[d] EXCEPT !.own = "CPU", !.sop = (hw_left = 0), !.eop = (left = 0)]
    BY <1>1, <1>2, <1>3
  <2>2. left = 0
    OBVIOUS
  <2> QED
    BY <1>1, <1>3, <2>1, <2>2
<1>7. UNCHANGED <<next, poolvars, queuevars, num_processed, pkt, chain_active, task>>
  BY DEF HwClose, taskvars
<1>8. UNCHANGED <<Backlog, QueueLen>>
  BY <1>7 DEF Backlog, QueueLen, queuevars
<1>9. UNCHANGED <<PoolSeq, QueueSeq, Pool>>
  BY <1>7, <1>8 DEF PoolSeq, QueueSeq, Pool, Listed, poolvars, queuevars
<1>10. ListInv'
  BY <1>7, <1>8, <1>9 DEF PathInv, ListInv, IsList, poolvars, queuevars
<1>11. CountInv'
  BY <1>7, <1>8 DEF PathInv, CountInv, poolvars
<1>12. FrameInv'
  BY <1>4, <1>5, <1>6, <1>7 DEF PathInv, FrameInv, Closed, queuevars
<1>13. Path!Fill(d)
  <2>1. {e \in Desc : Closed(e)}' = {e \in Desc : Closed(e)} \cup {d}
    BY <1>1, <1>5, <1>6 DEF Closed
  <2>2. d \notin {e \in Desc : Closed(e)}
    BY <1>1 DEF Closed
  <2>3. UNCHANGED [e \in Desc |-> desc[e].address]
    BY <1>4
  <2> QED
    BY <1>7, <1>9, <2>1, <2>2, <2>3 DEF Path!Fill
<1>14. Path!Desc = Desc
  BY DEF Path!Desc, Desc
<1> QED
  BY <1>1, <1>10, <1>11, <1>12, <1>13, <1>14 DEF PathStep, Path!Next

\* What hpa_process_rx_desc, cbxi_rx_buffer_alloc and cbxi_rx_enqueue make of a whole frame.
LEMMA TakeIs ==
  ASSUME PathInv, NEW c \in Context, ScanTake(c)
  PROVE  \E d \in Desc :
           LET a    == desc[d].address
               addr == pool_head
               nxt  == [next EXCEPT ![addr] = NULL]
           IN  /\ num_in_pool > 0 /\ Closed(d)
               /\ pool_head' = next[addr] /\ num_in_pool' = num_in_pool - 1
               /\ pool_tail' = IF addr = pool_tail THEN NULL ELSE pool_tail
               /\ next' = IF queue_tail = NULL THEN nxt ELSE [nxt EXCEPT ![queue_tail] = a]
               /\ queue_head' = IF queue_tail = NULL THEN a ELSE queue_head
               /\ queue_tail' = a
               /\ num_enqueued' = (num_enqueued + 1) % CNT
               /\ desc' = [desc EXCEPT ![d] = [own |-> "HPA", address |-> addr,
                                               sop |-> FALSE, eop |-> FALSE]]
               /\ UNCHANGED <<taskvars, rx_current_chain, rx_current_chain_num, chain_active>>
<1> DEFINE d == scan[c].descid
<1>1. d \in Desc /\ desc[d] \in [own : {"HPA", "CPU"}, address : Buf, sop : BOOLEAN, eop : BOOLEAN]
  BY DEF PathInv, TypeInv, TypeOK
<1>2. /\ desc[d].own = "CPU" /\ num_in_pool > 0
      /\ chain_active' = (IF desc[d].eop /\ ~desc[d].sop THEN FALSE
                          ELSE IF desc[d].sop /\ ~desc[d].eop THEN TRUE ELSE chain_active)
      /\ UNCHANGED taskvars
  BY DEF ScanTake, Acceptable, Scanned
<1>3. PICK addr \in Buf :
        /\ AllocFrom(addr)
        /\ Enqueue(desc[d].address, desc[d].sop, desc[d].eop, [next EXCEPT ![addr] = NULL])
        /\ desc' = [desc EXCEPT ![d] = [own |-> "HPA", address |-> addr,
                                        sop |-> FALSE, eop |-> FALSE]]
  BY DEF ScanTake, Scanned
<1> HIDE DEF d
<1>4. desc[d].sop /\ desc[d].eop
  BY <1>1, <1>2 DEF PathInv, SingleInv, FrameInv, Closed
<1>5. EnqueueFrame(desc[d].address, [next EXCEPT ![addr] = NULL])
  BY <1>3, <1>4 DEF Enqueue
<1>6. addr = pool_head
  BY <1>3 DEF AllocFrom
<1>7. LinkPacket(desc[d].address, 1, [next EXCEPT ![pool_head] = NULL])
      /\ UNCHANGED <<rx_current_chain, rx_current_chain_num>>
  BY <1>5, <1>6 DEF EnqueueFrame
<1>8. chain_active' = chain_active
  BY <1>2, <1>4
<1>9. Closed(d)
  BY <1>2 DEF Closed
<1> QED
  BY <1>1, <1>2, <1>3, <1>6, <1>7, <1>8, <1>9 DEF AllocFrom, LinkPacket

\* The pool loses its first buffer to the ring, the queue gets the ring's.
LEMMA PathTake == ASSUME PathInv, NEW c \in Context, ScanTake(c) PROVE PathStep
<1> DEFINE n == num_in_pool
           m == QueueLen
           s == PoolSeq
           q == QueueSeq
           addr == pool_head
<1>0. PICK d \in Desc :
               /\ n > 0 /\ Closed(d)
               /\ pool_head' = next[addr] /\ num_in_pool' = n - 1
               /\ pool_tail' = IF addr = pool_tail THEN NULL ELSE pool_tail
               /\ next' = IF queue_tail = NULL THEN [next EXCEPT ![addr] = NULL]
                          ELSE [[next EXCEPT ![addr] = NULL] EXCEPT ![queue_tail] = desc[d].address]
               /\ queue_head' = IF queue_tail = NULL THEN desc[d].address ELSE queue_head
               /\ queue_tail' = desc[d].address
               /\ num_enqueued' = (num_enqueued + 1) % CNT
               /\ desc' = [desc EXCEPT ![d] = [own |-> "HPA", address |-> addr,
                                               sop |-> FALSE, eop |-> FALSE]]
               /\ UNCHANGED <<taskvars, rx_current_chain, rx_current_chain_num, chain_active>>
  BY TakeIs
<1> DEFINE a == desc[d].address
           s2 == [i \in 1 .. n - 1 |-> s[i + 1]]
           q2 == Longer(q, m, a)
<1>1. /\ n \in Nat /\ m \in Nat /\ n + m + NDESC <= Cardinality(Buf) /\ Backlog < CNT - 1
      /\ next \in [Buf -> Ptr]
      /\ desc \in [Desc -> [own : {"HPA", "CPU"}, address : Buf, sop : BOOLEAN, eop : BOOLEAN]]
      /\ s \in [1 .. n -> Buf] /\ q \in [1 .. m -> Buf] /\ q \in Seq(Buf) /\ Len(q) = m
      /\ Pool = {s[i] : i \in 1 .. n}
  BY PathFacts
<1>2. /\ \A i \in 1 .. n : /\ \A e \in Desc : s[i] # desc[e].address
                           /\ \A j \in 1 .. m : s[i] # q[j]
      /\ \A i, j \in 1 .. m : q[i] = q[j] => i = j
      /\ \A j \in 1 .. m, e \in Desc : q[j] # desc[e].address
      /\ \A i, j \in 1 .. n : s[i] = s[j] => i = j
  BY PathFacts DEF Separate, PathInv, ListInv
<1>3. /\ IsList(s, n, addr, next) /\ IsList(q, m, queue_head, next)
      /\ pool_tail = s[n] /\ addr = s[1]
      /\ m = 0 => queue_head = NULL /\ queue_tail = NULL
      /\ m > 0 => queue_tail = q[m]
  BY <1>0 DEF PathInv, ListInv, IsList
<1>4. \A e \in Desc : next[desc[e].address] = NULL
  BY DEF PathInv, FrameInv
<1>5. QueueLen' = m + 1 /\ Backlog' > 0
  <2>1. Backlog \in 0 .. CNT - 1 /\ Backlog = Distance(num_enqueued, num_processed, CNT)
        /\ num_enqueued \in 0 .. CNT - 1 /\ num_processed \in 0 .. CNT - 1
    BY BacklogRange DEF PathInv, TypeInv, TypeOK
  <2>2. Distance((num_enqueued + 1) % CNT, num_processed, CNT) = Backlog + 1
    BY <1>1, <2>1, DistanceAdvance, Sizes
  <2>3. Backlog' = Distance(num_enqueued', num_processed', CNT)
    BY DEF Backlog, Distance
  <2>4. Backlog' = Backlog + 1
    BY <1>0, <2>2, <2>3 DEF taskvars
  <2>5. QueueLen' = IF task' = "count" THEN Backlog' - 1 ELSE Backlog'
    <3>1. Backlog' \in 0 .. CNT - 1 /\ Backlog' > 0
      BY <1>1, <2>1, <2>4, Sizes
    <3> QED
      BY <3>1, QueueLenNext
  <2>6. m = IF task = "count" THEN Backlog - 1 ELSE Backlog
    BY PathFacts
  <2> QED
    BY <1>0, <2>1, <2>4, <2>5, <2>6 DEF taskvars
<1> HIDE DEF n, m, s, q, addr
<1>6. addr \in Buf /\ a \in Buf /\ addr # a /\ (m > 0 => queue_tail \in Buf /\ queue_tail # addr)
  BY <1>0, <1>1, <1>2, <1>3
<1>7. /\ next' \in [Buf -> Ptr] /\ next'[addr] = NULL
      /\ m > 0 => next'[queue_tail] = a
      /\ \A b \in Buf : b # addr /\ (m > 0 => b # queue_tail) => next'[b] = next[b]
  <2>1. (m = 0 <=> queue_tail = NULL)
    BY <1>1, <1>3, <1>6, BufAssumption
  <2> QED
    BY <1>0, <1>1, <1>6, <2>1, BufAssumption DEF Ptr
<1>8. IsList(s2, n - 1, next[addr], next')
  <2>1. ASSUME NEW i \in 2 .. n - 1 PROVE next'[s[i]] = next[s[i]]
    <3>1. s[i] # addr /\ (m > 0 => s[i] # queue_tail) /\ s[i] \in Buf
      BY <1>0, <1>1, <1>2, <1>3
    <3> QED
      BY <1>7, <3>1
  <2>2. n \in Nat \ {0} /\ IsList(s, n, addr, next)
    BY <1>0, <1>1, <1>3
  <2>3. SameLinks(next', next, s, 2, n - 1)
    BY <2>1 DEF SameLinks
  <2> QED
    BY <2>2, <2>3, ListRest
<1>9. IsList(q2, m + 1, queue_head', next')
  <2>1. ASSUME NEW i \in 1 .. m - 1 PROVE next'[q[i]] = next[q[i]]
    <3>1. q[i] # addr /\ (m > 0 => q[i] # queue_tail) /\ q[i] \in Buf
      BY <1>0, <1>1, <1>2, <1>3
    <3> QED
      BY <1>7, <3>1
  <2>2. queue_head' = IF m = 0 THEN a ELSE queue_head
    BY <1>0, <1>1, <1>3, <1>6, BufAssumption
  <2>3. m > 0 => next'[q[m]] = a
    BY <1>3, <1>7
  <2>4. m \in Nat /\ IsList(q, m, queue_head, next) /\ a \in Buf
    BY <1>1, <1>3, <1>6
  <2>5. SameLinks(next', next, q, 1, m - 1)
    BY <2>1 DEF SameLinks
  <2> HIDE DEF a
  <2> QED
    BY <2>2, <2>3, <2>4, <2>5, ListLonger
<1>10. PoolSeq' = s2
  <2>1. [i \in 1 .. n - 1 |-> Walk(next[addr], next')[i - 1]] = s2
    <3> HIDE DEF s2
    <3>1. n - 1 \in Nat /\ n - 1 <= Cardinality(Buf)
      BY <1>0, <1>1, Sizes
    <3> QED
      BY <1>7, <1>8, <3>1, WalkList
  <2> QED
    BY <1>0, <2>1 DEF PoolSeq
<1>11. QueueSeq' = q2
  <2>1. [i \in 1 .. m + 1 |-> Walk(queue_head', next')[i - 1]] = q2
    <3> HIDE DEF q2
    <3>1. m + 1 \in Nat /\ m + 1 <= Cardinality(Buf)
      BY <1>0, <1>1, Sizes
    <3> QED
      BY <1>7, <1>9, <3>1, WalkList
  <2> QED
    BY <1>5, <2>1 DEF QueueSeq
<1>12. next'[a] = NULL
  BY <1>0, <1>1, <1>2, <1>3, <1>4, <1>6, <1>7
<1>13. ListInv'
  <2>1. IsList(s2, num_in_pool', pool_head', next')
    BY <1>0, <1>8
  <2>2. pool_tail' = IF num_in_pool' = 0 THEN NULL ELSE s2[num_in_pool']
    BY <1>0, <1>1, <1>2, <1>3
  <2>3. \A i, j \in 1 .. num_in_pool' : s2[i] = s2[j] => i = j
    BY <1>0, <1>1, <1>2
  <2>4. IsList(q2, QueueLen', queue_head', next')
    BY <1>5, <1>9
  <2>5. QueueLen' # 0 /\ queue_tail' = q2[QueueLen'] /\ next'[queue_tail'] = NULL
    BY <1>0, <1>1, <1>5, <1>12 DEF Longer
  <2> HIDE DEF s2, q2
  <2> QED
    BY <1>10, <1>11, <2>1, <2>2, <2>3, <2>4, <2>5 DEF ListInv
<1>14. CountInv'
  <2>1. n + NDESC + m + (IF pkt = NULL THEN 0 ELSE 1) = Cardinality(Buf)
    BY DEF PathInv, CountInv, n, m
  <2>2. num_in_pool' + NDESC + QueueLen' + (IF pkt = NULL THEN 0 ELSE 1) = Cardinality(Buf)
    BY <1>0, <1>1, <1>5, <2>1, Sizes
  <2> QED
    BY <1>0, <1>5, <2>2 DEF PathInv, CountInv, taskvars
<1>15. /\ desc'[d].own = "HPA" /\ desc'[d].address = addr
       /\ \A e \in Desc : e # d => desc'[e] = desc[e]
  BY <1>0, <1>1
<1>16. FrameInv'
  <2>1. ASSUME NEW e \in Desc PROVE next'[desc'[e].address] = NULL /\ (Closed(e)' => desc'[e].eop)
    <3>1. CASE e = d
      BY <1>7, <1>15, <3>1 DEF Closed
    <3>2. CASE e # d
      <4>1. desc'[e] = desc[e] /\ desc[e].address \in Buf
        BY <1>1, <1>15, <3>2
      <4>2. desc[e].address # addr /\ (m > 0 => desc[e].address # queue_tail)
        BY <1>0, <1>1, <1>2, <1>3
      <4> QED
        BY <1>4, <1>7, <4>1, <4>2 DEF PathInv, FrameInv, Closed
    <3> QED
      BY <3>1, <3>2
  <2> QED
    BY <1>0, <2>1 DEF PathInv, FrameInv
<1>17. Path!Harvest(d)
  <2>1. Closed(d) /\ addr \in Pool
    BY <1>0, <1>1, <1>3
  <2>2. [e \in Desc |-> desc[e].address]' = [[e \in Desc |-> desc[e].address] EXCEPT ![d] = addr]
    BY <1>15
  <2>3. Pool' = Pool \ {addr}
    <3>1. num_in_pool' \in Nat
      BY <1>0, <1>1
    <3>2. Pool' = {s2[i] : i \in 1 .. n - 1}
      <4>1. Pool' = {PoolSeq'[i] : i \in 1 .. num_in_pool'}
        BY <3>1, PoolNext
      <4> QED
        BY <1>0, <1>10, <4>1
    <3>3. \A i \in 2 .. n : i - 1 \in 1 .. n - 1 /\ s2[i - 1] = s[i]
      BY <1>1
    <3>4. \A i \in 1 .. n - 1 : i + 1 \in 2 .. n /\ s2[i] = s[i + 1]
      BY <1>1
    <3>5. \A i \in 2 .. n : s[i] # addr
      BY <1>0, <1>1, <1>2, <1>3
    <3> HIDE DEF s2
    <3>6. Pool = {addr} \cup {s[i] : i \in 2 .. n}
      <4>1. \A i \in 1 .. n : i = 1 \/ i \in 2 .. n
        BY <1>1
      <4>2. 1 \in 1 .. n /\ \A i \in 2 .. n : i \in 1 .. n
        BY <1>0, <1>1
      <4> QED
        BY <1>1, <1>3, <4>1, <4>2
    <3>7. {s2[i] : i \in 1 .. n - 1} = {s[i] : i \in 2 .. n}
      <4>1. \A i \in 2 .. n : s2[i - 1] = s[i] /\ i - 1 \in 1 .. n - 1
        BY <3>3
      <4>2. \A i \in 1 .. n - 1 : s2[i] = s[i + 1] /\ i + 1 \in 2 .. n
        BY <3>4
      <4> QED
        BY <4>1, <4>2
    <3> QED
      BY <3>2, <3>5, <3>6, <3>7
  <2>4. QueueSeq' = Append(q, a)
    <3> HIDE DEF a
    <3>1. Append(q, a) \in Seq(Buf) /\ Len(Append(q, a)) = m + 1
          /\ \A i \in 1 .. m + 1 : Append(q, a)[i] = IF i = m + 1 THEN a ELSE q[i]
      BY <1>1, <1>6, AppendProperties
    <3>2. Append(q, a) = Longer(q, m, a)
      <4>1. Append(q, a) \in [1 .. m + 1 -> Buf]
        <5>1. \A z \in Seq(Buf) : z \in [1 .. Len(z) -> Buf]
          OBVIOUS
        <5> QED
          BY <3>1, <5>1
      <4> QED
        BY <3>1, <4>1 DEF Longer
    <3> QED
      BY <1>11, <3>2
  <2>5. {e \in Desc : Closed(e)}' = {e \in Desc : Closed(e)} \ {d}
    BY <1>15 DEF Closed
  <2>6. pkt' = pkt
    BY <1>0 DEF taskvars
  <2> QED
    BY <2>1, <2>2, <2>3, <2>4, <2>5, <2>6 DEF Path!Harvest, q
<1>18. Path!Desc = Desc
  BY DEF Path!Desc, Desc
<1> QED
  BY <1>13, <1>14, <1>16, <1>17, <1>18 DEF PathStep, Path!Next

\* cbxi_rx_dqueue takes the first packet of the list, or nothing.
LEMMA PathDequeue == ASSUME PathInv, TaskDequeue PROVE PathStep
<1> DEFINE m == QueueLen
           q == QueueSeq
           q2 == [i \in 1 .. m - 1 |-> q[i + 1]]
<1>0. task = "dqueue" /\ UNCHANGED <<desc, chain_active, next, poolvars, rx_current_chain,
                           rx_current_chain_num, num_enqueued, num_processed>>
  BY DEF TaskDequeue, At, TaskUnchanged
<1>1. CASE ~(num_enqueued # num_processed /\ queue_head # NULL)
  <2>1. task' = "disable" /\ UNCHANGED <<pkt, queue_head, queue_tail>>
    BY <1>1 DEF TaskDequeue
  <2> QED
    BY <1>0, <2>1, PathStill DEF queuevars
<1>2. CASE num_enqueued # num_processed /\ queue_head # NULL
  <2>1. /\ pkt' = queue_head /\ queue_head' = next[queue_head]
        /\ queue_tail' = IF next[queue_head] = NULL THEN NULL ELSE queue_tail
        /\ task' = "count"
    BY <1>2 DEF TaskDequeue
  <2>2. /\ m \in Nat /\ m <= Cardinality(Buf) /\ m = Backlog /\ next \in [Buf -> Ptr]
        /\ q \in [1 .. m -> Buf] /\ q \in Seq(Buf) /\ Len(q) = m
        /\ \A i, j \in 1 .. m : q[i] = q[j] => i = j
    BY <1>0, PathFacts, Sizes DEF Separate
  <2>3. /\ m > 0 /\ queue_tail = q[m] /\ next[q[m]] = NULL /\ queue_head = q[1] /\ pkt = NULL
        /\ IsList(q, m, queue_head, next) /\ \A i \in 1 .. m - 1 : next[q[i]] = q[i + 1]
    BY <1>0, <1>2, PathFacts DEF PathInv, ListInv, CountInv, IsList
  <2>4. Backlog' = m /\ QueueLen' = m - 1
    <3>1. Backlog' = m /\ m \in 0 .. CNT - 1
      BY <1>0, <2>2, BacklogRange DEF Backlog, PathInv
    <3> QED
      BY <2>1, <2>3, <3>1, QueueLenNext
  <2> HIDE DEF m, q
  <2>5. IsList(q2, m - 1, queue_head', next)
    <3>1. m \in Nat \ {0} /\ SameLinks(next, next, q, 2, m - 1)
      BY <2>2, <2>3 DEF SameLinks
    <3> QED
      BY <2>1, <2>3, <3>1, ListRest
  <2>6. QueueSeq' = q2
    <3>1. [i \in 1 .. m - 1 |-> Walk(queue_head', next)[i - 1]] = q2
      <4> HIDE DEF q2
      <4>1. m - 1 \in Nat /\ m - 1 <= Cardinality(Buf)
        BY <2>2, <2>3, Sizes
      <4> QED
        BY <2>2, <2>5, <4>1, WalkList
    <3> QED
      BY <1>0, <2>4, <3>1 DEF QueueSeq
  <2>7. UNCHANGED <<PoolSeq, Pool>>
    BY <1>0 DEF PoolSeq, Pool, Listed, poolvars
  <2>8. ListInv'
    <3>1. IsList(q2, QueueLen', queue_head', next')
      BY <1>0, <2>4, <2>5
    <3>2. IF QueueLen' = 0 THEN queue_head' = NULL /\ queue_tail' = NULL
          ELSE queue_tail' = q2[QueueLen'] /\ next'[queue_tail'] = NULL
      <4>1. CASE m = 1
        BY <2>1, <2>3, <2>4, <4>1
      <4>2. CASE m # 1
        <5>1. next[q[1]] = q[2] /\ q[2] # NULL
          BY <2>2, <2>3, <4>2, BufAssumption
        <5>2. m - 1 \in 1 .. m - 1 /\ q2[m - 1] = q[(m - 1) + 1] /\ (m - 1) + 1 = m
          BY <2>2, <2>3, <4>2
        <5> QED
          BY <1>0, <2>1, <2>3, <2>4, <5>1, <5>2, <4>2
      <4> QED
        BY <4>1, <4>2
    <3> HIDE DEF q2
    <3> QED
      BY <1>0, <2>6, <2>7, <3>1, <3>2 DEF PathInv, ListInv, poolvars
  <2>9. CountInv'
    <3>1. num_in_pool + NDESC + m + 0 = Cardinality(Buf)
      BY <2>3 DEF PathInv, CountInv, m
    <3>2. num_in_pool \in Nat
      BY PathFacts
    <3>3. pkt' # NULL
      BY <2>2, <2>3, <2>1, BufAssumption
    <3> QED
      BY <1>0, <2>1, <2>2, <2>3, <2>4, <3>1, <3>2, <3>3, Sizes DEF CountInv, poolvars
  <2>10. FrameInv'
    BY <1>0 DEF PathInv, FrameInv, Closed
  <2>11. Path!Take
    <3>1. q # << >> /\ Head(q) = q[1]
      BY <2>2, <2>3
    <3>2. Tail(q) = q2
      <4>1. Tail(q) \in Seq(Buf) /\ Len(Tail(q)) = m - 1
            /\ \A i \in 1 .. m - 1 : Tail(q)[i] = q[i + 1]
        BY <2>2, <3>1
      <4>2. Tail(q) \in [1 .. m - 1 -> Buf]
        <5>1. \A z \in Seq(Buf) : z \in [1 .. Len(z) -> Buf]
          OBVIOUS
        <5> QED
          BY <4>1, <5>1
      <4> QED
        BY <4>1, <4>2
    <3> QED
      BY <1>0, <2>1, <2>3, <2>6, <2>7, <3>1, <3>2 DEF Path!Take, Closed, q
  <2> QED
    BY <2>8, <2>9, <2>10, <2>11 DEF PathStep, Path!Next
<1> QED
  BY <1>1, <1>2

\* The packet that is counted has left the list before.
LEMMA PathCount == ASSUME PathInv, TaskCount PROVE PathStep
<1>0. /\ task = "count" /\ task' = "process" /\ num_processed' = (num_processed + 1) % CNT
      /\ UNCHANGED <<desc, chain_active, next, poolvars, queuevars, pkt>>
  BY DEF TaskCount, At, TaskUnchanged
<1>1. /\ Backlog \in 0 .. CNT - 1 /\ Backlog = Distance(num_enqueued, num_processed, CNT)
      /\ num_enqueued \in 0 .. CNT - 1 /\ num_processed \in 0 .. CNT - 1
      /\ Backlog > 0 /\ QueueLen = Backlog - 1
  BY <1>0, BacklogRange, PathFacts DEF PathInv, TypeInv, TypeOK, CountInv
<1>2. num_enqueued # num_processed
  <2>1. (num_enqueued + CNT - num_enqueued) = CNT /\ CNT % CNT = 0
    BY <1>1, Sizes
  <2> QED
    BY <1>1, <2>1 DEF Distance
<1>3. Distance(num_enqueued, (num_processed + 1) % CNT, CNT) = Backlog - 1
  BY <1>1, <1>2, DistanceStep, Sizes
<1>4. Backlog' = Distance(num_enqueued', num_processed', CNT)
  BY DEF Backlog, Distance
<1>5. Backlog' = Backlog - 1
  BY <1>0, <1>3, <1>4 DEF queuevars
<1>6. QueueLen' = QueueLen
  <2>1. Backlog - 1 \in 0 .. CNT - 1
    BY <1>1, Sizes
  <2> QED
    BY <1>0, <1>1, <1>5, <2>1, QueueLenNext
<1>7. UNCHANGED <<PoolSeq, QueueSeq, Pool>>
  BY <1>0, <1>6 DEF PoolSeq, QueueSeq, Pool, Listed, poolvars, queuevars
<1>8. ListInv'
  BY <1>0, <1>6, <1>7 DEF PathInv, ListInv, IsList, poolvars, queuevars
<1>9. CountInv'
  BY <1>0, <1>6 DEF PathInv, CountInv, poolvars
<1>10. FrameInv'
  BY <1>0 DEF PathInv, FrameInv, Closed, queuevars
<1>11. UNCHANGED Path!vars
  BY <1>0, <1>7 DEF Path!vars, Closed
<1> QED
  BY <1>8, <1>9, <1>10, <1>11 DEF PathStep

\* cbxi_rx_buffer_free links the packet behind the pool's last buffer.
LEMMA PathProcess == ASSUME PathInv, TaskProcess PROVE PathStep
<1> DEFINE n == num_in_pool
           s == PoolSeq
           s2 == Longer(s, n, pkt)
           m == QueueLen
           q == QueueSeq
<1>0. /\ task = "process" /\ task' = "dqueue" /\ pkt' = NULL
      /\ UNCHANGED <<desc, chain_active, queuevars, num_processed>>
      /\ IF pool_tail # NULL
         THEN next' = [next EXCEPT ![pool_tail] = pkt] /\ UNCHANGED pool_head
         ELSE pool_head' = pkt /\ UNCHANGED next
      /\ pool_tail' = pkt /\ num_in_pool' = n + 1
  BY DEF TaskProcess, At, TaskUnchanged, FreeToPool
<1>1. /\ n \in Nat /\ m \in Nat /\ m <= Cardinality(Buf) /\ next \in [Buf -> Ptr]
      /\ s \in [1 .. n -> Buf] /\ q \in [1 .. m -> Buf]
      /\ Pool = {s[i] : i \in 1 .. n} /\ Backlog \in 0 .. CNT - 1
      /\ m = Backlog /\ pkt \in Ptr
      /\ desc \in [Desc -> [own : {"HPA", "CPU"}, address : Buf, sop : BOOLEAN, eop : BOOLEAN]]
  BY <1>0, PathFacts, BacklogRange, Sizes DEF PathInv
<1>2. /\ \A i \in 1 .. n : /\ \A e \in Desc : s[i] # desc[e].address
                           /\ \A j \in 1 .. m : s[i] # q[j]
                           /\ s[i] # pkt
      /\ \A i, j \in 1 .. n : s[i] = s[j] => i = j
  BY PathFacts DEF Separate, PathInv, ListInv
<1>3. /\ IsList(s, n, pool_head, next) /\ IsList(q, m, queue_head, next)
      /\ pool_tail = IF n = 0 THEN NULL ELSE s[n]
      /\ n + NDESC + m + 1 = Cardinality(Buf) /\ pkt \in Buf
  BY <1>0, <1>1 DEF PathInv, ListInv, CountInv, Ptr
<1>4. QueueLen' = m
  <2>1. Backlog' = Backlog
    BY <1>0 DEF Backlog, queuevars
  <2> QED
    BY <1>0, <1>1, <2>1, QueueLenNext
<1>5. queue_head' = queue_head /\ queue_tail' = queue_tail
  BY <1>0 DEF queuevars
<1>6. IF m = 0 THEN queue_head = NULL /\ queue_tail = NULL
       ELSE queue_tail = q[m] /\ next[queue_tail] = NULL
  BY DEF PathInv, ListInv
<1>7. CountInv'
  <2>1. num_in_pool' + NDESC + QueueLen' + 0 = Cardinality(Buf)
    BY <1>0, <1>1, <1>3, <1>4, Sizes
  <2> QED
    BY <1>0, <2>1 DEF CountInv
<1> HIDE DEF n, s, m, q
<1>8. /\ next' \in [Buf -> Ptr]
      /\ n > 0 => next'[s[n]] = pkt
      /\ \A b \in Buf : (n > 0 => b # s[n]) => next'[b] = next[b]
  BY <1>0, <1>1, <1>3, BufAssumption DEF Ptr
<1>9. IsList(s2, n + 1, pool_head', next')
  <2>1. ASSUME NEW i \in 1 .. n - 1 PROVE next'[s[i]] = next[s[i]]
    BY <1>1, <1>2, <1>8
  <2>2. pool_head' = IF n = 0 THEN pkt ELSE pool_head
    BY <1>0, <1>1, <1>3, BufAssumption
  <2>3. SameLinks(next', next, s, 1, n - 1)
    BY <2>1 DEF SameLinks
  <2> QED
    BY <1>1, <1>3, <1>8, <2>2, <2>3, ListLonger
<1>10. IsList(q, m, queue_head, next')
  <2>1. ASSUME NEW i \in 1 .. m - 1 PROVE next'[q[i]] = next[q[i]]
    BY <1>1, <1>2, <1>8
  <2>2. SameLinks(next', next, q, 1, m - 1)
    BY <2>1 DEF SameLinks
  <2> QED
    BY <1>1, <1>3, <2>2, ListFrame
<1>11. PoolSeq' = s2
  <2>1. [i \in 1 .. n + 1 |-> Walk(pool_head', next')[i - 1]] = s2
    <3> HIDE DEF s2
    <3>1. n + 1 \in Nat /\ n + 1 <= Cardinality(Buf)
      BY <1>1, <1>3, Sizes
    <3> QED
      BY <1>8, <1>9, <3>1, WalkList
  <2> QED
    BY <1>0, <2>1 DEF PoolSeq
<1>12. QueueSeq' = q
  <2>1. [i \in 1 .. m |-> Walk(queue_head, next')[i - 1]] = q
    BY <1>1, <1>8, <1>10, WalkList
  <2> QED
    BY <1>4, <1>5, <2>1 DEF QueueSeq
<1>13. ListInv'
  <2>1. s2[n + 1] = pkt /\ \A i \in 1 .. n : s2[i] = s[i]
    BY <1>1 DEF Longer
  <2>2. ASSUME NEW i \in 1 .. n + 1, NEW j \in 1 .. n + 1, s2[i] = s2[j] PROVE i = j
    <3>1. (i = n + 1 \/ i \in 1 .. n) /\ (j = n + 1 \/ j \in 1 .. n)
      BY <1>1
    <3> HIDE DEF s2
    <3> QED
      BY <1>2, <2>1, <2>2, <3>1
  <2>3. m > 0 => next'[queue_tail] = NULL
    BY <1>1, <1>2, <1>6, <1>8
  <2> HIDE DEF s2
  <2> QED
    BY <1>0, <1>1, <1>4, <1>5, <1>6, <1>9, <1>10, <1>11, <1>12, <2>1, <2>2, <2>3 DEF ListInv
<1>14. FrameInv'
  <2>1. ASSUME NEW e \in Desc PROVE next'[desc[e].address] = NULL
    BY <1>1, <1>2, <1>8 DEF PathInv, FrameInv
  <2> QED
    BY <1>0, <2>1 DEF PathInv, FrameInv, Closed, queuevars
<1>15. Path!Return
  <2>1. Pool' = Pool \cup {pkt}
    <3>1. Pool' = {PoolSeq'[i] : i \in 1 .. num_in_pool'}
      <4>1. num_in_pool' \in Nat
        BY <1>0, <1>1
      <4> QED
        BY <4>1, PoolNext
    <3>2. Pool' = {s2[i] : i \in 1 .. n + 1}
      BY <1>0, <1>11, <3>1
    <3>3. s2[n + 1] = pkt /\ (\A i \in 1 .. n : s2[i] = s[i]) /\ n + 1 \in 1 .. n + 1
          /\ (\A i \in 1 .. n + 1 : i = n + 1 \/ i \in 1 .. n) /\ \A i \in 1 .. n : i \in 1 .. n + 1
      BY <1>1 DEF Longer
    <3> HIDE DEF s2
    <3> QED
      BY <1>1, <3>2, <3>3
  <2>2. pkt # NULL
    BY <1>3, BufAssumption
  <2> QED
    BY <1>0, <1>12, <2>1, <2>2 DEF Path!Return, Closed, q
<1> QED
  BY <1>7, <1>13, <1>14, <1>15 DEF PathStep, Path!Next

\* The steps that leave all buffers where they are.
LEMMA PathStillCases ==
  ASSUME PathInv,
         \/ UNCHANGED vars \/ HwAxiError
         \/ IsrEnter \/ IsrStatus \/ IsrDone
         \/ IsrWake("ack_empty", "RX_EMPTY") \/ IsrWake("ack_axierr", "RX_AXIERR")
         \/ \E c \in Context : ScanEmpty(c) \/ ScanNoBuffer(c) \/ ScanEnd(c)
         \/ TaskDisable \/ TaskEnable \/ TaskCheck \/ TaskWake \/ TaskTimeout
  PROVE  PathStep
<1>1. UNCHANGED <<desc, next, poolvars, queuevars, num_processed, pkt, chain_active>>
  BY DEF vars, taskvars, HwAxiError, IsrEnter, IsrStatus, IsrDone, IsrWake, IsrUnchanged,
         ScanEmpty, ScanNoBuffer, ScanEnd, TaskDisable, TaskEnable, TaskCheck, TaskWake,
         TaskTimeout, TaskTake, TaskUnchanged
<1>2. task' = task \/ {task, task'} \cap {"count", "process"} = {}
  BY DEF vars, taskvars, HwAxiError, IsrEnter, IsrStatus, IsrDone, IsrWake, IsrUnchanged,
         ScanEmpty, ScanNoBuffer, ScanEnd, Running, Context, TaskDisable, TaskEnable, TaskCheck,
         TaskWake, TaskTimeout, TaskTake, At
<1> QED
  BY <1>1, <1>2, PathStill

\* PathInv is inductive, and every step that keeps it is one of RxPath.
LEMMA PathNext == ASSUME MaxChunks = 1, PathInv, [Next]_vars PROVE PathInv' /\ [Path!Next]_(Path!vars)
<1>1. PathStep
  BY NextCases, PathStillCases, PathClose, PathTake, PathDequeue, PathCount, PathProcess
<1>2. Path!NoBufDistinct
  BY BufAssumption DEF Path!NoBufDistinct
<1>3. Path!Inv'
  BY <1>1, <1>2, Path!NextInv DEF PathStep, PathInv
<1> QED
  BY <1>1, <1>3, TypeNext, SingleNext DEF PathStep, PathInv

\* What cbxi_rx_init leaves: the first buffers of the region in the ring, the others in the
\* pool, linked in the region's order.
LEMMA PathInit == ASSUME MaxChunks = 1, Init PROVE PathInv /\ Path!Init
<1> DEFINE N == Cardinality(Buf)
<1>1. PICK s \in [1 .. N -> Buf] :
      /\ PoolOrder(s)
      /\ desc = [d \in Desc |-> [own |-> "HPA", address |-> s[d + 1],
                                 sop |-> FALSE, eop |-> FALSE]]
      /\ pool_head = (IF N > NDESC THEN s[NDESC + 1] ELSE NULL)
      /\ pool_tail = (IF N > NDESC THEN s[N] ELSE NULL)
      /\ num_in_pool = N - NDESC
      /\ next = [b \in Buf |->
                   IF \E i \in NDESC + 1 .. N - 1 : s[i] = b
                   THEN s[1 + CHOOSE i \in NDESC + 1 .. N - 1 : s[i] = b]
                   ELSE NULL]
      /\ queue_head = NULL /\ queue_tail = NULL
      /\ rx_current_chain = NULL /\ rx_current_chain_num = 0 /\ ~chain_active
      /\ num_enqueued = 0 /\ num_processed = 0 /\ task = "dqueue" /\ pkt = NULL
  BY DEF Init
<1>2. N \in Nat /\ NDESC \in Nat \ {0} /\ NDESC <= N /\ CNT \in Nat \ {0}
  BY Sizes, NDescAssumption
<1>3. TypeInv /\ SingleInv
  BY StrandInit DEF StrandInv
<1>4. \A i, j \in 1 .. N : i # j => s[i] # s[j]
  BY <1>1 DEF PoolOrder
<1>5. \A x \in Buf : \E i \in 1 .. N : s[i] = x
  <2> DEFINE R == {s[i] : i \in 1 .. N}
  <2>1. \A k, l \in 1 .. N : s[k] = s[l] => k = l
    BY <1>4
  <2>2. Cardinality(Values(s, 1, N)) = N
    BY <1>2, <2>1, ValuesCardinality
  <2>3. Cardinality(R) = N
    BY <2>2 DEF Values
  <2>4. R \subseteq Buf
    OBVIOUS
  <2>5. R = Buf
    BY <2>3, <2>4, BufAssumption, FS_Subset
  <2> QED
    BY <2>5
<1> HIDE DEF N
<1>6. Backlog = 0 /\ QueueLen = 0
  <2>1. (0 + CNT - 0) % CNT = 0
    BY <1>2
  <2>2. (0 + CNT - 0) % CNT = 0
    BY <1>2
  <2>3. Backlog = 0
    BY <1>1, <2>1 DEF Backlog
  <2> QED
    BY <1>1, <1>2, <2>3, QueueLenIs
<1> DEFINE p == [i \in 1 .. N - NDESC |-> s[i + NDESC]]
<1>7. IsList(p, num_in_pool, pool_head, next)
  <2>1. ASSUME NEW i \in 1 .. (N - NDESC) - 1 PROVE next[p[i]] = p[i + 1]
    <3>1. i + NDESC \in NDESC + 1 .. N - 1 /\ p[i] = s[i + NDESC] /\ p[i + 1] = s[1 + (i + NDESC)]
          /\ p[i] \in Buf
      BY <1>2
    <3>2. (CHOOSE k \in NDESC + 1 .. N - 1 : s[k] = p[i]) = i + NDESC
      <4>1. \A k \in NDESC + 1 .. N - 1 : s[k] = p[i] => k = i + NDESC
        BY <1>2, <1>4, <3>1
      <4> QED
        BY <3>1, <4>1
    <3> QED
      BY <1>1, <3>1, <3>2
  <2>2. p \in [1 .. N - NDESC -> Buf]
    BY <1>2
  <2>3. N - NDESC > 0 => pool_head = p[1]
    BY <1>1, <1>2
  <2> HIDE DEF p
  <2> QED
    BY <1>1, <2>1, <2>2, <2>3 DEF IsList
<1>8. PoolSeq = p
  <2>1. num_in_pool \in Nat /\ num_in_pool <= Cardinality(Buf) /\ next \in [Buf -> Ptr]
    BY <1>1, <1>2, <1>3 DEF TypeInv, TypeOK, N
  <2> HIDE DEF p
  <2> QED
    BY <1>7, <2>1, WalkList DEF PoolSeq
<1>9. ListInv
  <2>1. pool_tail = IF num_in_pool = 0 THEN NULL ELSE p[num_in_pool]
    BY <1>1, <1>2
  <2>2. \A i, j \in 1 .. num_in_pool : p[i] = p[j] => i = j
    BY <1>1, <1>2, <1>4
  <2>3. IsList(QueueSeq, QueueLen, queue_head, next)
    BY <1>6 DEF IsList, QueueSeq
  <2> HIDE DEF p
  <2> QED
    BY <1>1, <1>6, <1>7, <1>8, <2>1, <2>2, <2>3 DEF ListInv
<1>10. CountInv
  BY <1>1, <1>2, <1>6 DEF CountInv, N
<1>11. FrameInv
  <2>1. ASSUME NEW d \in Desc PROVE next[desc[d].address] = NULL
    <3>1. desc[d].address = s[d + 1] /\ d + 1 \in 1 .. NDESC /\ s[d + 1] \in Buf
      BY <1>1, <1>2 DEF Desc
    <3>2. \A i \in NDESC + 1 .. N - 1 : s[i] # s[d + 1]
      BY <1>2, <1>4, <3>1
    <3> QED
      BY <1>1, <3>1, <3>2
  <2> QED
    BY <1>1, <2>1 DEF FrameInv, Closed
<1>12. Path!Init
  <2>1. [d \in Desc |-> desc[d].address] = [d \in Desc |-> s[d + 1]]
    BY <1>1
  <2>2. Pool = Buf \ {s[d + 1] : d \in Desc}
    <3>1. Pool = {PoolSeq[i] : i \in 1 .. num_in_pool}
      BY <1>1, <1>2, PoolIs
    <3>2. \A i \in 1 .. N - NDESC : p[i] = s[i + NDESC] /\ i + NDESC \in 1 .. N /\ i + NDESC > NDESC
      BY <1>2
    <3>3. \A d \in Desc : d + 1 \in 1 .. N /\ d + 1 <= NDESC
      BY <1>2 DEF Desc
    <3>4. \A i \in 1 .. N : \/ i - 1 \in Desc /\ (i - 1) + 1 = i
                            \/ i - NDESC \in 1 .. N - NDESC /\ (i - NDESC) + NDESC = i
      BY <1>2 DEF Desc
    <3>5. \A x \in Buf : x \in {s[d + 1] : d \in Desc} \/ x \in {s[i + NDESC] : i \in 1 .. N - NDESC}
      BY <1>5, <3>4
    <3>6. \A d \in Desc, i \in 1 .. N - NDESC : s[d + 1] # s[i + NDESC]
      BY <1>2, <1>4, <3>2, <3>3
    <3>7. Pool = {s[i + NDESC] : i \in 1 .. N - NDESC}
      <4> HIDE DEF p
      <4> QED
        BY <1>1, <1>8, <3>1, <3>2
    <3>8. {s[i + NDESC] : i \in 1 .. N - NDESC} \subseteq Buf
      BY <3>2
    <3> QED
      BY <3>5, <3>6, <3>7, <3>8
  <2>3. \A d, e \in Desc : s[d + 1] = s[e + 1] => d = e
    BY <1>2, <1>4 DEF Desc
  <2>4. [d \in Desc |-> s[d + 1]] \in [Desc -> Buf]
    BY <1>2 DEF Desc
  <2>5. {d \in Desc : Closed(d)} = {}
    BY <1>1 DEF Closed
  <2>6. QueueSeq = << >>
    BY <1>6 DEF QueueSeq
  <2>7. Path!Desc = Desc
    BY DEF Path!Desc, Desc
  <2>8. pkt = NULL
    BY <1>1
  <2> QED
    BY <2>1, <2>2, <2>3, <2>4, <2>5, <2>6, <2>7, <2>8 DEF Path!Init
<1>13. Path!NoBufDistinct
  BY BufAssumption DEF Path!NoBufDistinct
<1>14. Path!Inv
  BY <1>12, <1>13, Path!InitInv
<1> QED
  BY <1>3, <1>9, <1>10, <1>11, <1>12, <1>14 DEF PathInv

\* What the task has in its hands is one buffer or none.
LEMMA HeldCardinality == Cardinality(Held) = IF pkt = NULL THEN 0 ELSE 1
<1>1. CASE pkt = NULL
  <2>1. Held = {}
    BY <1>1 DEF Held
  <2> QED
    BY <1>1, <2>1, FS_EmptySet
<1>2. CASE pkt # NULL
  <2>1. Held = {pkt}
    BY <1>2 DEF Held
  <2> QED
    BY <1>2, <2>1, FS_Singleton
<1> QED
  BY <1>1, <1>2

\* Lists without repetition have as many buffers as they are long.
LEMMA PathConserves == PathInv => BufferConservation
<1> SUFFICES ASSUME PathInv PROVE BufferConservation
    OBVIOUS
<1> DEFINE n == num_in_pool
           m == QueueLen
           addresses == [d \in Desc |-> desc[d].address]
<1>1. /\ n \in Nat /\ m \in Nat /\ NDESC \in Nat \ {0}
      /\ PoolSeq \in [1 .. n -> Buf] /\ QueueSeq \in [1 .. m -> Buf] /\ Len(QueueSeq) = m
      /\ addresses \in [Desc -> Buf] /\ Desc = 0 .. NDESC - 1
  BY PathFacts, Sizes DEF Desc
<1>2. Pool = Values(PoolSeq, 1, n)
  BY <1>1, PoolIs DEF Values
<1>3. Queue = Values(QueueSeq, 1, m)
  <2> DEFINE w == Walk(queue_head, next)
  <2>1. Queue = Values(w, 0, m - 1)
    BY DEF Queue, Listed, Values
  <2>2. QueueSeq = [i \in 1 .. m |-> w[i - 1]]
    BY DEF QueueSeq
  <2> HIDE DEF w, m
  <2> QED
    BY <1>1, <2>1, <2>2, ListedFromOne
<1>4. Chain = {} /\ rx_current_chain_num = 0
  BY DEF PathInv, FrameInv, Chain, Listed
<1>5. Ring = Values(addresses, 0, NDESC - 1)
  BY <1>1 DEF Ring, Values
<1>6. /\ \A i, j \in 1 .. n : PoolSeq[i] = PoolSeq[j] => i = j
      /\ \A i, j \in 1 .. m : QueueSeq[i] = QueueSeq[j] => i = j
      /\ \A d, e \in Desc : addresses[d] = addresses[e] => d = e
  <2>1. \A d, e \in Path!Desc : addresses[d] = addresses[e] => d = e
    BY DEF PathInv, Path!Inv, Path!NoSharing
  <2>2. Path!Desc = Desc
    BY DEF Path!Desc, Desc
  <2> HIDE DEF addresses
  <2> QED
    BY <2>1, <2>2, PathFacts DEF Separate, PathInv, ListInv
<1>7. Cardinality(Pool) = n /\ Cardinality(Queue) = m /\ Cardinality(Ring) = NDESC
  <2>1. Cardinality(Values(PoolSeq, 1, n)) = n
    <3> DEFINE s == PoolSeq
    <3> HIDE DEF s, n
    <3>1. Cardinality(Values(s, 1, n)) = (n - 1) + 1
      <4>1. n \in Int /\ 1 <= n + 1 /\ 1 \in Nat
        BY <1>1
      <4>2. s \in [1 .. n -> Buf] /\ \A i, j \in 1 .. n : s[i] = s[j] => i = j
        BY <1>1, <1>6 DEF s
      <4> QED
        BY <4>1, <4>2, ValuesCardinality
    <3> QED
      BY <1>1, <3>1 DEF s
  <2>2. Cardinality(Values(QueueSeq, 1, m)) = m
    <3> DEFINE s == QueueSeq
    <3> HIDE DEF s, m
    <3>1. Cardinality(Values(s, 1, m)) = (m - 1) + 1
      <4>1. m \in Int /\ 1 <= m + 1 /\ 1 \in Nat
        BY <1>1
      <4>2. s \in [1 .. m -> Buf] /\ \A i, j \in 1 .. m : s[i] = s[j] => i = j
        BY <1>1, <1>6 DEF s
      <4> QED
        BY <4>1, <4>2, ValuesCardinality
    <3> QED
      BY <1>1, <3>1 DEF s
  <2>3. Cardinality(Values(addresses, 0, NDESC - 1)) = NDESC
    <3> HIDE DEF addresses
    <3>1. NDESC - 1 \in Int /\ 0 <= (NDESC - 1) + 1 /\ addresses \in [0 .. NDESC - 1 -> Buf]
      BY <1>1
    <3>2. Cardinality(Values(addresses, 0, NDESC - 1)) = (NDESC - 1) - 0 + 1
      BY <1>1, <1>6, <3>1, ValuesCardinality
    <3> QED
      BY <1>1, <3>2
  <2> QED
    BY <1>2, <1>3, <1>5, <2>1, <2>2, <2>3
<1>8. Pool \cup Queue \cup Ring \subseteq Buf
  BY <1>1, <1>2, <1>3, <1>5 DEF Values
<1>9. Buf \subseteq Pool \cup Ring \cup Queue \cup Held
  <2>1. \A b \in Buf : b \in Pool \/ Path!InRing(b) \/ Path!InQueue(b) \/ pkt = b
    BY DEF PathInv, Path!Inv, Path!NoLeak
  <2>2. /\ \A b : Path!InRing(b) => b \in Ring
        /\ \A b : Path!InQueue(b) => b \in Queue
    BY <1>1, <1>3 DEF Path!InRing, Path!InQueue, Path!Desc, Desc, Ring, Values
  <2> QED
    BY <2>1, <2>2, BufAssumption DEF Held
<1>10. Held \subseteq Buf
  BY PathFacts DEF Held, Ptr
<1>11. n + NDESC + m + 0 + Cardinality(Held) = Cardinality(Buf)
  BY <1>1, HeldCardinality DEF PathInv, CountInv
<1>12. Cardinality(Chain) = 0
  BY <1>4, FS_EmptySet
<1> HIDE DEF n, m
<1> QED
  BY <1>4, <1>7, <1>8, <1>9, <1>10, <1>11, <1>12, BufAssumption DEF BufferConservation, n, m

\* Frames of one descriptor: no packet buffer is lost, shared or freed twice, the pool
\* and the queue of rx.c are linked from head to tail over as many buffers as their
\* counters say, and every buffer is in one place, for any pool, ring and interleaving of
\* the DMA engine, the interrupt handler and the RX task.
THEOREM RxBufferConservation == ASSUME MaxChunks = 1 PROVE Spec => []BufferConservation
<1>1. Init => PathInv
  BY PathInit
<1>2. PathInv /\ [Next]_vars => PathInv'
  BY PathNext
<1> QED
  BY <1>1, <1>2, PathConserves, PTL DEF Spec

\* Both names of the abstract receive path mean the same.
LEMMA PathIsInstance ==
  /\ Path!Init <=> RxPathInstance!Init
  /\ [Path!Next]_(Path!vars) <=> [RxPathInstance!Next]_(RxPathInstance!vars)
BY DEF QueueSeq, Path!Init, RxPathInstance!Init, Path!Desc, RxPathInstance!Desc,
       Path!Next, RxPathInstance!Next, Path!vars, RxPathInstance!vars,
       Path!Fill, RxPathInstance!Fill, Path!Harvest, RxPathInstance!Harvest,
       Path!Take, RxPathInstance!Take, Path!Return, RxPathInstance!Return

\* Frames of one descriptor: every step of the ring, the lists, the counters and the
\* interrupt handler is a step of RxPath or none: a buffer goes round the circle ring -
\* queue - task - pool and the task gets the packets in the order they were queued.
THEOREM RxImplementsPath == ASSUME MaxChunks = 1 PROVE Spec => RxPathOK
<1>1. Init => PathInv /\ RxPathInstance!Init
  BY PathInit, PathIsInstance
<1>2. PathInv /\ [Next]_vars => PathInv' /\ [RxPathInstance!Next]_(RxPathInstance!vars)
  BY PathNext, PathIsInstance
<1> QED
  BY <1>1, <1>2, PTL DEF Spec, RxPathOK, RxPathInstance!Spec

=============================================================================
