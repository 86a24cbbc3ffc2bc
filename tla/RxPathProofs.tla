----------------------------- MODULE RxPathProofs -----------------------------
(***************************************************************************)
(* The abstract receive path neither leaks nor shares a packet buffer, for *)
(* any number of buffers and descriptors.                                  *)
(***************************************************************************)
EXTENDS RxPath, SequenceTheorems, TLAPS

\* The three together are inductive: that a buffer freed or queued is not
\* already there needs NoSharing, that a place is one of the five needs NoLeak.
Inv == TypeOK /\ NoLeak /\ NoSharing

LEMMA InitInv == ASSUME NoBufDistinct PROVE Init => Inv
<1> SUFFICES ASSUME Init PROVE Inv
    OBVIOUS
<1>1. TypeOK
  BY DEF Init, TypeOK
<1>2. \A b : ~InQueue(b)
  BY DEF Init, InQueue
<1>3. NoLeak
  BY <1>1 DEF Init, NoLeak, InRing, TypeOK
<1>4. NoSharing
  BY <1>2 DEF NoBufDistinct, Init, NoSharing, InRing, InQueue
<1> QED
  BY <1>1, <1>3, <1>4 DEF Inv

LEMMA FillInv ==
  ASSUME Inv, NEW d \in Desc, Fill(d) PROVE Inv'
<1> USE DEF Inv, Fill
<1>1. TypeOK'
  BY DEF TypeOK
<1>2. NoLeak'
  BY DEF NoLeak, InRing, InQueue
<1>3. NoSharing'
  BY DEF NoSharing, InRing, InQueue
<1> QED
  BY <1>1, <1>2, <1>3

LEMMA HarvestInv ==
  ASSUME Inv, NEW d \in Desc, Harvest(d) PROVE Inv'
<1> USE DEF Inv
<1>1. PICK b \in pool : ring' = [ring EXCEPT ![d] = b] /\ pool' = pool \ {b}
  BY DEF Harvest
<1>2. /\ queue' = Append(queue, ring[d])
      /\ held' = held
      /\ filled' = filled \ {d}
  BY DEF Harvest
<1>3. /\ queue \in Seq(Buf) /\ ring[d] \in Buf /\ b \in Buf
      /\ Len(queue) \in Nat
      /\ Len(queue') = Len(queue) + 1
      /\ queue'[Len(queue) + 1] = ring[d]
      /\ \A i \in 1 .. Len(queue) : queue'[i] = queue[i]
  BY <1>1, <1>2 DEF TypeOK
<1>4. /\ ring'[d] = b
      /\ \A e \in Desc : e # d => ring'[e] = ring[e]
  BY <1>1 DEF TypeOK
<1>5. \A c : InQueue(c)' <=> InQueue(c) \/ c = ring[d]
  BY <1>3 DEF InQueue
<1>6. \A c : InRing(c)' <=> c = b \/ (c # ring[d] /\ InRing(c))
  <2>1. \A e \in Desc : e # d => ring[e] # ring[d]
    BY DEF NoSharing
  <2> QED
    BY <1>4, <2>1 DEF InRing
<1>7. TypeOK'
  BY <1>1, <1>2, <1>3 DEF TypeOK
<1>8. NoLeak'
  BY <1>1, <1>2, <1>5, <1>6 DEF NoLeak
<1>9. NoSharing'
  <2>1. \A e, f \in Desc : ring'[e] = ring'[f] => e = f
    BY <1>1, <1>4 DEF NoSharing, InRing
  <2>2. \A i, j \in 1 .. Len(queue') : queue'[i] = queue'[j] => i = j
    BY <1>3 DEF NoSharing, InQueue
  <2>3. \A c \in pool' : ~InRing(c)' /\ ~InQueue(c)' /\ held' # c
    BY <1>1, <1>2, <1>5, <1>6 DEF NoSharing, InRing
  <2>4. \A e \in Desc : ~InQueue(ring[e])' /\ held' # ring'[e]
    BY <1>1, <1>2, <1>3, <1>4 DEF NoSharing, InRing, InQueue
  <2>5. ~InQueue(held)'
    BY <1>2, <1>5 DEF NoSharing
  <2> QED
    BY <2>1, <2>2, <2>3, <2>4, <2>5 DEF NoSharing
<1> QED
  BY <1>7, <1>8, <1>9

LEMMA TakeInv == ASSUME NoBufDistinct, Inv, Take PROVE Inv'
<1> USE DEF Inv
<1>1. /\ held = NoBuf /\ held' = Head(queue)
      /\ queue' = Tail(queue)
      /\ UNCHANGED <<ring, filled, pool>>
  BY DEF Take
<1>2. queue \in Seq(Buf) /\ queue # << >>
  BY DEF Take, TypeOK
<1>3. /\ Len(queue) \in Nat \ {0}
      /\ held' = queue[1]
      /\ Len(queue') = Len(queue) - 1
      /\ \A i \in 1 .. Len(queue') : queue'[i] = queue[i + 1]
  BY <1>1, <1>2
<1>4. \A c : InQueue(c) <=> InQueue(c)' \/ c = held'
  <2>1. \A i \in 1 .. Len(queue) : i = 1 \/ i - 1 \in 1 .. Len(queue')
    BY <1>3
  <2>2. \A i \in 1 .. Len(queue') : i + 1 \in 1 .. Len(queue)
    BY <1>3
  <2>3. ASSUME NEW c, InQueue(c) PROVE InQueue(c)' \/ c = held'
    <3>1. PICK i \in 1 .. Len(queue) : queue[i] = c
      BY <2>3 DEF InQueue
    <3>2. CASE i = 1
      BY <1>3, <3>1, <3>2
    <3>3. CASE i # 1
      <4>1. i - 1 \in 1 .. Len(queue') /\ (i - 1) + 1 = i
        BY <2>1, <3>3
      <4>2. queue'[i - 1] = queue[i]
        BY <1>3, <4>1
      <4> QED
        BY <3>1, <4>1, <4>2 DEF InQueue
    <3> QED
      BY <3>2, <3>3
  <2>4. ASSUME NEW c, InQueue(c)' \/ c = held' PROVE InQueue(c)
    BY <1>3, <2>2, <2>4 DEF InQueue
  <2> QED
    BY <2>3, <2>4
<1>5. ~InQueue(held)'
  BY <1>3 DEF NoSharing, InQueue
<1>6. TypeOK'
  BY <1>1, <1>2, <1>3 DEF TypeOK
<1>7. NoLeak'
  BY <1>1, <1>4 DEF NoBufDistinct, NoLeak, InRing
<1>8. NoSharing'
  <2>1. \A i, j \in 1 .. Len(queue') : queue'[i] = queue'[j] => i = j
    BY <1>3 DEF NoSharing
  <2>2. \A c \in pool' : ~InRing(c)' /\ ~InQueue(c)' /\ held' # c
    BY <1>1, <1>4 DEF NoSharing, InRing
  <2>3. \A e \in Desc : ~InQueue(ring[e])' /\ held' # ring'[e]
    BY <1>1, <1>3, <1>4 DEF NoSharing, InQueue
  <2> QED
    BY <1>1, <1>5, <2>1, <2>2, <2>3 DEF NoSharing
<1> QED
  BY <1>6, <1>7, <1>8

LEMMA ReturnInv == ASSUME NoBufDistinct, Inv, Return PROVE Inv'
<1> USE DEF Inv
<1>1. /\ held # NoBuf /\ held' = NoBuf
      /\ pool' = pool \cup {held}
      /\ UNCHANGED <<ring, filled, queue>>
  BY DEF Return
<1>2. TypeOK'
  BY <1>1 DEF TypeOK
<1>3. NoLeak'
  BY <1>1 DEF NoLeak, InRing, InQueue
<1>4. NoSharing'
  <2>1. \A c \in Buf : c # NoBuf
    BY DEF NoBufDistinct
  <2> QED
    BY <1>1, <2>1 DEF NoSharing, InRing, InQueue, TypeOK
<1> QED
  BY <1>2, <1>3, <1>4

LEMMA NextInv == ASSUME NoBufDistinct PROVE Inv /\ [Next]_vars => Inv'
<1> SUFFICES ASSUME Inv, [Next]_vars PROVE Inv'
    OBVIOUS
<1>1. CASE UNCHANGED vars
  BY <1>1 DEF Inv, vars, TypeOK, NoLeak, NoSharing, InRing, InQueue
<1>2. ASSUME NEW d \in Desc, Fill(d) PROVE Inv'
  BY <1>2, FillInv
<1>3. ASSUME NEW d \in Desc, Harvest(d) PROVE Inv'
  BY <1>3, HarvestInv
<1>4. CASE Take
  BY <1>4, TakeInv
<1>5. CASE Return
  BY <1>5, ReturnInv
<1> QED
  BY <1>1, <1>2, <1>3, <1>4, <1>5 DEF Next

\* The variables of the abstract receive path (the ring, the pool and the queue
\* of rx.c) only ever hold packet buffers.
THEOREM RxPathType == ASSUME NoBufDistinct PROVE Spec => []TypeOK
<1>1. Inv => TypeOK
  BY DEF Inv
<1> QED
  BY <1>1, InitInv, NextInv, PTL DEF Spec

\* However large the pool and the ring, no packet buffer is ever lost to the
\* circle pool - ring - queue - RX task.
THEOREM RxPathNoLeak == ASSUME NoBufDistinct PROVE Spec => []NoLeak
<1>1. Inv => NoLeak
  BY DEF Inv
<1> QED
  BY <1>1, InitInv, NextInv, PTL DEF Spec

\* However large the pool and the ring, no packet buffer is in two places: what
\* the DMA engine may write to is neither free nor being read.
THEOREM RxPathNoSharing == ASSUME NoBufDistinct PROVE Spec => []NoSharing
<1>1. Inv => NoSharing
  BY DEF Inv
<1> QED
  BY <1>1, InitInv, NextInv, PTL DEF Spec

=============================================================================
