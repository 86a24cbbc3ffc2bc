-------------------------------- MODULE HpaTx --------------------------------
(***************************************************************************)
(* The transmit side of the HPA driver (platform/soc/bcm53158/robo2/hpa.c) *)
(* and of the senders above it (src/drivers/fsal/pktio.c): hpa_tx_packet   *)
(* puts a packet buffer into the next descriptor, the DMA engine sends it  *)
(* and gives the descriptor back, and the interrupt handler, in            *)
(* hpa_tx_done, frees the buffers of the descriptors it gets back.         *)
(*                                                                         *)
(* hpa_tx_packet runs with interrupts disabled, so a send is one step; the *)
(* handler's loop interleaves with the DMA engine descriptor by descriptor.*)
(***************************************************************************)
EXTENDS Naturals, FiniteSets

CONSTANTS
    Buf,      \* the DMA buffers the senders can allocate
    NULL,     \* the null pointer
    NDESC     \* HPA_MAX_HW_TX_DESCR (8 in the source)

ASSUME BufAssumption   == IsFiniteSet(Buf) /\ NULL \notin Buf
ASSUME NDescAssumption == NDESC \in Nat \ {0}

Desc == 0 .. NDESC - 1
Ring == 0 .. 2 * NDESC - 1
Intr == {"TX_DONE", "TX_AXIERR"}

VARIABLES
    heap,          \* the buffers that are not allocated
    desc,          \* the descriptor ring: owner and buffer
    hw_cur,        \* where the DMA engine is, modulo 2 * NDESC
    cpu_cur,       \* HPA_TX_CPU_CUR_DESC_PTR: where it has to stop
    enq_hw_tx,     \* the descriptor of the next send
    enq_done_hw,   \* the last descriptor freed
    intsts,        \* the transmit bits of HPA_INT_STS
    isr,           \* where hpa_handler is
    descid, npkts  \* the locals of hpa_tx_done

vars == <<heap, desc, hw_cur, cpu_cur, enq_hw_tx, enq_done_hw, intsts, isr,
          descid, npkts>>

Advance(ptr, n) == (ptr + n) % (2 * NDESC)

Init ==
    /\ heap = Buf
    /\ desc = [d \in Desc |-> [own |-> "CPU", address |-> NULL]]
    /\ hw_cur = 0 /\ cpu_cur = 0
    /\ enq_hw_tx = 0 /\ enq_done_hw = 0
    /\ intsts = {} /\ isr = "idle" /\ descid = 0 /\ npkts = 0

\* Mutation: the descriptor's owner is not checked.
Send_Unchecked(b) ==
    /\ isr = "idle"
    /\ b \in heap
    /\ heap' = heap \ {b}
    /\ desc' = [desc EXCEPT ![enq_hw_tx] = [own |-> "HPA", address |-> b]]
    /\ enq_hw_tx' = (enq_hw_tx + 1) % NDESC
    /\ cpu_cur' = Advance(cpu_cur, 1)
    /\ UNCHANGED <<hw_cur, enq_done_hw, intsts, isr, descid, npkts>>

\* A sender allocates b and hands it to hpa_tx_packet, which takes it when the
\* next descriptor is not the engine's.  When it is, the sender frees b again
\* and nothing has changed.
Send(b) ==
    /\ isr = "idle"
    /\ b \in heap
    /\ desc[enq_hw_tx].own # "HPA"
    /\ heap' = heap \ {b}
    /\ desc' = [desc EXCEPT ![enq_hw_tx] = [own |-> "HPA", address |-> b]]
    /\ enq_hw_tx' = (enq_hw_tx + 1) % NDESC
    /\ cpu_cur' = Advance(cpu_cur, 1)
    /\ UNCHANGED <<hw_cur, enq_done_hw, intsts, isr, descid, npkts>>

\* The DMA engine has sent the packet it is at, or failed to on the bus.
HwSend ==
    LET d == hw_cur % NDESC IN
    /\ hw_cur # cpu_cur
    /\ desc[d].own = "HPA"
    /\ desc' = [desc EXCEPT ![d].own = "CPU"]
    /\ hw_cur' = Advance(hw_cur, 1)
    /\ \E i \in Intr : intsts' = intsts \cup {i}
    /\ UNCHANGED <<heap, cpu_cur, enq_hw_tx, enq_done_hw, isr, descid, npkts>>

-----------------------------------------------------------------------------
(* hpa_handler.                                                             *)

IsrEnter ==
    /\ isr = "idle" /\ intsts # {}
    /\ isr' = "status"
    /\ UNCHANGED <<heap, desc, hw_cur, cpu_cur, enq_hw_tx, enq_done_hw, intsts,
                   descid, npkts>>

\* One pass of the handler's loop: read the status, acknowledge one interrupt
\* and go on to hpa_tx_done, or return when there is none.
IsrStatus ==
    /\ isr = "status"
    /\ IF intsts = {}
       THEN /\ isr' = "idle"
            /\ UNCHANGED <<intsts, descid, npkts>>
       ELSE /\ intsts' = IF "TX_DONE" \in intsts THEN intsts \ {"TX_DONE"}
                                                 ELSE intsts \ {"TX_AXIERR"}
            /\ isr' = "tx_done"
            /\ descid' = enq_done_hw + 1
            /\ npkts' = 0
    /\ UNCHANGED <<heap, desc, hw_cur, cpu_cur, enq_hw_tx, enq_done_hw>>

\* hpa_tx_clean_desc would free the buffer.
Cleanable == desc[descid % NDESC].own = "CPU" /\ desc[descid % NDESC].address # NULL

\* Mutation: the descriptor keeps the address of the buffer it has freed.
CleanDesc_KeepAddress ==
    /\ isr = "tx_done" /\ npkts < NDESC
    /\ Cleanable
    /\ heap' = heap \cup {desc[descid % NDESC].address}
    /\ UNCHANGED desc
    /\ descid' = descid + 1
    /\ npkts' = npkts + 1
    /\ UNCHANGED <<hw_cur, cpu_cur, enq_hw_tx, enq_done_hw, intsts, isr>>

CleanDesc ==
    /\ isr = "tx_done" /\ npkts < NDESC
    /\ Cleanable
    /\ heap' = heap \cup {desc[descid % NDESC].address}
    /\ desc' = [desc EXCEPT ![descid % NDESC] = [own |-> "CPU", address |-> NULL]]
    /\ descid' = descid + 1
    /\ npkts' = npkts + 1
    /\ UNCHANGED <<hw_cur, cpu_cur, enq_hw_tx, enq_done_hw, intsts, isr>>

\* The first descriptor that cannot be cleaned, or a full turn, ends the loop.
CleanEnd ==
    /\ isr = "tx_done"
    /\ npkts = NDESC \/ ~Cleanable
    /\ isr' = "status"
    /\ enq_done_hw' = Advance(enq_done_hw, npkts)
    /\ descid' = 0 /\ npkts' = 0
    /\ UNCHANGED <<heap, desc, hw_cur, cpu_cur, enq_hw_tx, intsts>>

Isr  == IsrEnter \/ IsrStatus \/ CleanDesc \/ CleanEnd
Next == (\E b \in Buf : Send(b)) \/ HwSend \/ Isr

Spec == Init /\ [][Next]_vars

-----------------------------------------------------------------------------
(* Properties.                                                              *)

\* The ring, its pointers and the locals of hpa_tx_done stay in their ranges.
TypeOK ==
    /\ heap \subseteq Buf
    /\ desc \in [Desc -> [own : {"HPA", "CPU"}, address : Buf \cup {NULL}]]
    /\ hw_cur \in Ring /\ cpu_cur \in Ring
    /\ enq_hw_tx \in Desc /\ enq_done_hw \in Ring
    /\ intsts \subseteq Intr /\ isr \in {"idle", "status", "tx_done"}
    /\ descid \in 0 .. 3 * NDESC /\ npkts \in 0 .. NDESC

Address(d) == desc[d].address
Filled     == {d \in Desc : Address(d) # NULL}

\* A buffer in the ring is allocated, and is in one descriptor only: the engine
\* does not read a freed buffer and no buffer is freed twice.
NoUseAfterFree ==
    /\ \A d \in Filled : Address(d) \notin heap
    /\ \A d, e \in Filled : Address(d) = Address(e) => d = e

\* The engine is at the oldest packet that is not sent and stops behind the last:
\* packets leave in the order of the sends, though no send looks at the pointers.
EngineWindow ==
    /\ enq_hw_tx = cpu_cur % NDESC
    /\ {d \in Desc : desc[d].own = "HPA"}
         = {(hw_cur + k) % NDESC : k \in 0 .. ((cpu_cur + 2 * NDESC - hw_cur) % (2 * NDESC)) - 1}
=============================================================================
