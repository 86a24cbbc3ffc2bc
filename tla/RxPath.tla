-------------------------------- MODULE RxPath --------------------------------
(***************************************************************************)
(* What the receive path promises, whatever its lists, counters and        *)
(* interrupts are: a packet buffer is in the descriptor ring, in the queue *)
(* of received packets, in the hands of the RX task or free, and moves     *)
(* round that circle only; the task gets the packets in the order in which *)
(* they were queued.                                                       *)
(*                                                                         *)
(* HpaRx implements this specification for frames of one descriptor (see   *)
(* RxPathOK there).                                                        *)
(***************************************************************************)
EXTENDS Naturals, Sequences

CONSTANTS Buf, NDESC, NoBuf

\* What the proofs assume of NoBuf; in HpaRx it is NULL, which is no buffer.
NoBufDistinct == NoBuf \notin Buf

Desc == 0 .. NDESC - 1

VARIABLES
    ring,     \* the buffer each descriptor holds
    filled,   \* the descriptors that hold a received frame
    pool,     \* the free buffers
    queue,    \* the packets received, oldest first
    held      \* what the RX task is working on, or NoBuf

vars == <<ring, filled, pool, queue, held>>

Init ==
    /\ ring \in [Desc -> Buf]
    /\ \A d, e \in Desc : ring[d] = ring[e] => d = e
    /\ filled = {}
    /\ pool = Buf \ {ring[d] : d \in Desc}
    /\ queue = << >>
    /\ held = NoBuf

\* The DMA engine completes a descriptor.
Fill(d) ==
    /\ d \notin filled
    /\ filled' = filled \cup {d}
    /\ UNCHANGED <<ring, pool, queue, held>>

\* A filled descriptor is emptied into the queue only if it can be refilled.
Harvest(d) ==
    /\ d \in filled
    /\ \E b \in pool :
         /\ ring' = [ring EXCEPT ![d] = b]
         /\ pool' = pool \ {b}
    /\ queue' = Append(queue, ring[d])
    /\ filled' = filled \ {d}
    /\ UNCHANGED held

Take ==
    /\ held = NoBuf
    /\ queue # << >>
    /\ held' = Head(queue)
    /\ queue' = Tail(queue)
    /\ UNCHANGED <<ring, filled, pool>>

Return ==
    /\ held # NoBuf
    /\ pool' = pool \cup {held}
    /\ held' = NoBuf
    /\ UNCHANGED <<ring, filled, queue>>

Next == (\E d \in Desc : Fill(d) \/ Harvest(d)) \/ Take \/ Return

Spec == Init /\ [][Next]_vars

-----------------------------------------------------------------------------
\* The places of the receive path hold packet buffers and nothing else.
TypeOK ==
    /\ ring \in [Desc -> Buf]
    /\ filled \subseteq Desc
    /\ pool \subseteq Buf
    /\ queue \in Seq(Buf)
    /\ held \in Buf \cup {NoBuf}

InRing(b)  == \E d \in Desc : ring[d] = b
InQueue(b) == \E i \in 1 .. Len(queue) : queue[i] = b

\* Every buffer is somewhere: none is ever leaked.
NoLeak == \A b \in Buf : b \in pool \/ InRing(b) \/ InQueue(b) \/ held = b

\* No buffer is in two places, nor twice in one: the DMA engine never writes
\* into a packet the task still reads, and nothing is freed twice.
NoSharing ==
    /\ \A d, e \in Desc : ring[d] = ring[e] => d = e
    /\ \A i, j \in 1 .. Len(queue) : queue[i] = queue[j] => i = j
    /\ \A b \in pool : ~InRing(b) /\ ~InQueue(b) /\ held # b
    /\ \A d \in Desc : ~InQueue(ring[d]) /\ held # ring[d]
    /\ ~InQueue(held)

=============================================================================
