----------------------------- MODULE HpaTxProofs -----------------------------
(***************************************************************************)
(* What holds of HpaTx for every number of descriptors and of buffers.     *)
(* The engine's pointers are kept modulo 2 * NDESC while the descriptors    *)
(* are numbered modulo NDESC: the invariant says in those terms which       *)
(* descriptors the engine has been given and not sent.                     *)
(***************************************************************************)
EXTENDS HpaTx, TLAPS

(* The state a proof about buffers needs: the ring's contents and indices.  *)
RingType ==
    /\ heap \subseteq Buf
    /\ desc \in [Desc -> [own : {"HPA", "CPU"}, address : Buf \cup {NULL}]]
    /\ enq_hw_tx \in Desc
    /\ hw_cur \in Ring
    /\ descid \in Nat

\* i % NDESC is a descriptor.
LEMMA ModDesc == ASSUME NEW i \in Nat PROVE i % NDESC \in Desc
BY NDescAssumption DEF Desc

\* A pointer that moves on stays in its range.
LEMMA AdvanceRange == ASSUME NEW p \in Nat, NEW n \in Nat PROVE Advance(p, n) \in Ring
BY NDescAssumption DEF Advance, Ring

\* The types of the ring hold throughout.
THEOREM RingTypeInvariant == Spec => [](RingType /\ enq_done_hw \in Ring /\ npkts \in Nat)
<1> DEFINE T == RingType /\ enq_done_hw \in Ring /\ npkts \in Nat
<1>1. Init => T
  BY NDescAssumption, BufAssumption DEF Init, RingType, Desc, Ring
<1>2. T /\ [Next]_vars => T'
  <2> SUFFICES ASSUME T, [Next]_vars PROVE T'
    OBVIOUS
  <2> USE DEF RingType
  <2>r. Ring \subseteq Nat
    BY DEF Ring
  <2>1. ASSUME NEW b \in Buf, Send(b) PROVE T'
    <3>1. (enq_hw_tx + 1) % NDESC \in Desc
      BY ModDesc DEF Desc
    <3>2. desc' \in [Desc -> [own : {"HPA", "CPU"}, address : Buf \cup {NULL}]]
      BY <2>1 DEF Send
    <3> QED BY <2>1, <3>1, <3>2 DEF Send
  <2>2. CASE HwSend
    <3> DEFINE d == hw_cur % NDESC
    <3>1. d \in Desc
      BY ModDesc, <2>r
    <3>2. Advance(hw_cur, 1) \in Ring
      BY AdvanceRange, <2>r
    <3> HIDE DEF d
    <3>3. desc' = [desc EXCEPT ![d].own = "CPU"] /\ hw_cur' = Advance(hw_cur, 1)
      BY <2>2 DEF HwSend, d
    <3>4. desc' \in [Desc -> [own : {"HPA", "CPU"}, address : Buf \cup {NULL}]]
      BY <3>1, <3>3
    <3> QED BY <2>2, <3>2, <3>3, <3>4 DEF HwSend
  <2>3. CASE IsrEnter
    BY <2>3 DEF IsrEnter
  <2>4. CASE IsrStatus
    BY <2>4, <2>r DEF IsrStatus
  <2>5. CASE CleanDesc
    <3> DEFINE d == descid % NDESC
    <3>1. d \in Desc
      BY ModDesc
    <3> HIDE DEF d
    <3>2. /\ desc[d].address # NULL
          /\ heap' = heap \cup {desc[d].address}
          /\ desc' = [desc EXCEPT ![d] = [own |-> "CPU", address |-> NULL]]
      BY <2>5 DEF CleanDesc, Cleanable, d
    <3>3. desc[d].address \in Buf
      BY <3>1, <3>2
    <3>4. desc' \in [Desc -> [own : {"HPA", "CPU"}, address : Buf \cup {NULL}]]
      BY <3>1, <3>2
    <3> QED BY <2>5, <3>2, <3>3, <3>4 DEF CleanDesc
  <2>6. CASE CleanEnd
    BY <2>6, AdvanceRange, <2>r DEF CleanEnd
  <2>7. CASE UNCHANGED vars
    BY <2>7 DEF vars
  <2> QED BY <2>1, <2>2, <2>3, <2>4, <2>5, <2>6, <2>7 DEF Next, Isr
<1> QED BY <1>1, <1>2, PTL DEF Spec

-----------------------------------------------------------------------------
(* No buffer is used after it is freed, or freed twice.                     *)

\* The buffers in the ring are allocated and in one descriptor each.
THEOREM TxNoUseAfterFree == Spec => []NoUseAfterFree
<1>1. Init => NoUseAfterFree
  BY DEF Init, NoUseAfterFree, Filled, Address
<1>2. RingType /\ NoUseAfterFree /\ [Next]_vars => NoUseAfterFree'
  <2> SUFFICES ASSUME RingType, NoUseAfterFree, [Next]_vars PROVE NoUseAfterFree'
    OBVIOUS
  <2> USE DEF NoUseAfterFree, Filled, Address
  <2>1. ASSUME NEW b \in Buf, Send(b) PROVE NoUseAfterFree'
    <3>1. /\ b \in heap /\ heap' = heap \ {b}
          /\ desc' = [desc EXCEPT ![enq_hw_tx] = [own |-> "HPA", address |-> b]]
      BY <2>1 DEF Send
    <3>2. /\ desc'[enq_hw_tx].address = b
          /\ \A d \in Desc \ {enq_hw_tx} : desc'[d] = desc[d]
      BY <3>1 DEF RingType
    <3>3. \A d \in Filled : desc[d].address # b
      BY <3>1
    <3>4. \A d \in Filled' : desc'[d].address \notin heap'
      BY <3>1, <3>2
    <3>5. ASSUME NEW d \in Filled', NEW e \in Filled',
                 desc'[d].address = desc'[e].address
          PROVE  d = e
      BY <3>2, <3>3, <3>5
    <3> QED BY <3>4, <3>5
  <2>2. CASE HwSend
    <3> DEFINE c == hw_cur % NDESC
    <3>1. c \in Desc
      BY ModDesc DEF RingType, Ring
    <3> HIDE DEF c
    <3>2. desc' = [desc EXCEPT ![c].own = "CPU"] /\ heap' = heap
      BY <2>2 DEF HwSend, c
    <3>3. \A d \in Desc : desc'[d].address = desc[d].address
      BY <3>1, <3>2 DEF RingType
    <3> QED BY <3>2, <3>3
  <2>3. CASE CleanDesc
    <3> DEFINE c == descid % NDESC
    <3>1. c \in Desc
      BY ModDesc DEF RingType
    <3> HIDE DEF c
    <3>2. /\ desc[c].address # NULL
          /\ heap' = heap \cup {desc[c].address}
          /\ desc' = [desc EXCEPT ![c] = [own |-> "CPU", address |-> NULL]]
      BY <2>3 DEF CleanDesc, Cleanable, c
    <3>3. /\ desc'[c].address = NULL
          /\ \A d \in Desc \ {c} : desc'[d] = desc[d]
      BY <3>1, <3>2 DEF RingType
    <3>4. Filled' = Filled \ {c}
      BY <3>3
    <3>5. \A d \in Filled' : desc'[d].address = desc[d].address /\ desc[d].address # desc[c].address
      BY <3>1, <3>2, <3>3, <3>4
    <3> QED BY <3>2, <3>4, <3>5
  <2>4. CASE UNCHANGED <<heap, desc>>
    BY <2>4
  <2> QED BY <2>1, <2>2, <2>3, <2>4 DEF Next, Isr, IsrEnter, IsrStatus, CleanEnd, vars
<1> QED BY <1>1, <1>2, RingTypeInvariant, PTL DEF Spec

-----------------------------------------------------------------------------
(* The window of the engine.  Pending is the number of packets it has not    *)
(* sent; it never exceeds the size of the ring, because a send only takes a  *)
(* descriptor that is the CPU's and all of a full ring are the engine's.     *)

Pending == (cpu_cur + 2 * NDESC - hw_cur) % (2 * NDESC)

WindowInv ==
    /\ hw_cur \in Ring /\ cpu_cur \in Ring
    /\ desc \in [Desc -> [own : {"HPA", "CPU"}, address : Buf \cup {NULL}]]
    /\ enq_hw_tx = cpu_cur % NDESC
    /\ Pending \in 0 .. NDESC
    /\ \A d \in Desc :
          desc[d].own = "HPA" <=> \E k \in 0 .. Pending - 1 : d = (hw_cur + k) % NDESC

\* Below five turns, x % m is x less the turns completed.
LEMMA ModTurns ==
  ASSUME NEW m \in Nat \ {0}, NEW x \in Nat, x < 5 * m
  PROVE  x % m = IF x < m THEN x ELSE IF x < 2 * m THEN x - m
                 ELSE IF x < 3 * m THEN x - 2 * m
                 ELSE IF x < 4 * m THEN x - 3 * m ELSE x - 4 * m
OBVIOUS

\* The same for the descriptor of a pointer, and for the pointers' range.
LEMMA PointerTurns ==
  ASSUME NEW x \in Nat, x < 4 * NDESC
  PROVE  /\ x % NDESC = IF x < NDESC THEN x ELSE IF x < 2 * NDESC THEN x - NDESC
                        ELSE IF x < 3 * NDESC THEN x - 2 * NDESC ELSE x - 3 * NDESC
         /\ x % (2 * NDESC) = IF x < 2 * NDESC THEN x ELSE x - 2 * NDESC
<1>1. NDESC \in Nat \ {0} /\ 2 * NDESC \in Nat \ {0}
  BY NDescAssumption
<1>2. x < 5 * NDESC /\ x < 5 * (2 * NDESC)
  BY <1>1
<1>3. x % NDESC = IF x < NDESC THEN x ELSE IF x < 2 * NDESC THEN x - NDESC
                        ELSE IF x < 3 * NDESC THEN x - 2 * NDESC ELSE x - 3 * NDESC
  BY <1>1, <1>2, ModTurns
<1> DEFINE m == 2 * NDESC
<1>4. x % m = IF x < m THEN x ELSE IF x < 2 * m THEN x - m
                 ELSE IF x < 3 * m THEN x - 2 * m
                 ELSE IF x < 4 * m THEN x - 3 * m ELSE x - 4 * m
  <2> HIDE DEF m
  <2> QED BY <1>1, <1>2, ModTurns DEF m
<1>5. x < 2 * m
  BY <1>1
<1>6. x % m = IF x < m THEN x ELSE x - m
  <2> HIDE DEF m
  <2> QED BY <1>4, <1>5
<1> QED BY <1>3, <1>6

\* A pointer's descriptor.
LEMMA PointerDesc ==
  ASSUME NEW x \in Nat, x < 2 * NDESC
  PROVE  x % NDESC = IF x < NDESC THEN x ELSE x - NDESC
<1>1. x < 4 * NDESC
  BY NDescAssumption
<1>2. x % NDESC = IF x < NDESC THEN x ELSE IF x < 2 * NDESC THEN x - NDESC
                        ELSE IF x < 3 * NDESC THEN x - 2 * NDESC ELSE x - 3 * NDESC
  BY <1>1, PointerTurns
<1> QED BY <1>2

\* Pending counts from the engine's position to where it has to stop.
LEMMA PendingValue ==
  ASSUME NEW h \in Ring, NEW c \in Ring
  PROVE  (c + 2 * NDESC - h) % (2 * NDESC) = IF c < h THEN c + 2 * NDESC - h ELSE c - h
<1>1. c + 2 * NDESC - h \in Nat /\ c + 2 * NDESC - h < 4 * NDESC
  BY NDescAssumption DEF Ring
<1> DEFINE x == c + 2 * NDESC - h
<1>2. x % (2 * NDESC) = IF x < 2 * NDESC THEN x ELSE x - 2 * NDESC
  <2> HIDE DEF x
  <2> QED BY <1>1, PointerTurns DEF x
<1> QED BY <1>1, <1>2, NDescAssumption DEF Ring

\* Two packets of one ring are never in the same descriptor.
LEMMA DistinctDesc ==
  ASSUME NEW h \in Ring, NEW j \in 0 .. NDESC - 1, NEW k \in 0 .. NDESC - 1,
         (h + j) % NDESC = (h + k) % NDESC
  PROVE  j = k
<1>1. h + j \in Nat /\ h + j < 4 * NDESC /\ h + k \in Nat /\ h + k < 4 * NDESC
  BY NDescAssumption DEF Ring
<1> DEFINE x == h + j
           y == h + k
<1>2. x % NDESC = IF x < NDESC THEN x ELSE IF x < 2 * NDESC THEN x - NDESC
                        ELSE IF x < 3 * NDESC THEN x - 2 * NDESC ELSE x - 3 * NDESC
  <2> HIDE DEF x
  <2> QED BY <1>1, PointerTurns DEF x
<1>3. y % NDESC = IF y < NDESC THEN y ELSE IF y < 2 * NDESC THEN y - NDESC
                        ELSE IF y < 3 * NDESC THEN y - 2 * NDESC ELSE y - 3 * NDESC
  <2> HIDE DEF y
  <2> QED BY <1>1, PointerTurns DEF y
<1> QED BY <1>1, <1>2, <1>3, NDescAssumption DEF Ring

\* Every descriptor is within a turn of the engine's.
LEMMA Reach ==
  ASSUME NEW h \in Ring, NEW d \in Desc
  PROVE  \E k \in 0 .. NDESC - 1 : d = (h + k) % NDESC
<1>1. CASE h < NDESC /\ d >= h
  <2>1. h + (d - h) = d /\ d - h \in 0 .. NDESC - 1
    BY <1>1, NDescAssumption DEF Ring, Desc
  <2>2. d % NDESC = d
    BY PointerTurns, NDescAssumption DEF Desc
  <2> QED BY <2>1, <2>2
<1>2. CASE (h < NDESC /\ d < h) \/ (h >= NDESC /\ d >= h - NDESC)
  <2> DEFINE k == d + NDESC - h
  <2>1. k \in 0 .. NDESC - 1 /\ h + k = d + NDESC
    BY <1>2, NDescAssumption DEF Ring, Desc
  <2>2. (d + NDESC) % NDESC = d
    <3> DEFINE x == d + NDESC
    <3>1. x \in Nat /\ x < 4 * NDESC /\ x >= NDESC /\ x < 2 * NDESC
      BY NDescAssumption DEF Desc
    <3>2. x % NDESC = x - NDESC
      <4> HIDE DEF x
      <4> QED BY <3>1, PointerDesc, NDescAssumption
    <3> QED BY <3>2, NDescAssumption DEF Desc
  <2> QED BY <2>1, <2>2
<1>3. CASE h >= NDESC /\ d < h - NDESC
  <2> DEFINE k == d + 2 * NDESC - h
  <2>1. k \in 0 .. NDESC - 1 /\ h + k = d + 2 * NDESC
    BY <1>3, NDescAssumption DEF Ring, Desc
  <2>2. (d + 2 * NDESC) % NDESC = d
    <3> DEFINE x == d + 2 * NDESC
    <3>1. x \in Nat /\ x < 4 * NDESC /\ x >= 2 * NDESC /\ x < 3 * NDESC
      BY NDescAssumption DEF Desc
    <3>2. x % NDESC = x - 2 * NDESC
      <4> HIDE DEF x
      <4> QED BY <3>1, PointerTurns, NDescAssumption
    <3> QED BY <3>2, NDescAssumption DEF Desc
  <2> QED BY <2>1, <2>2
<1> QED BY <1>1, <1>2, <1>3, NDescAssumption DEF Ring, Desc

\* A send that is taken finds room, and makes its descriptor the window's last.
LEMMA SendWindow ==
  ASSUME WindowInv, NEW b \in Buf, Send(b)
  PROVE  WindowInv'
<1> DEFINE n == Pending
<1>1. /\ hw_cur \in Ring /\ cpu_cur \in Ring /\ n \in 0 .. NDESC
      /\ n = IF cpu_cur < hw_cur THEN cpu_cur + 2 * NDESC - hw_cur ELSE cpu_cur - hw_cur
  BY PendingValue DEF WindowInv, Pending
<1>2. enq_hw_tx \in Desc /\ enq_hw_tx = cpu_cur % NDESC
  BY <1>1, ModDesc DEF WindowInv, Ring
<1>3. /\ hw_cur' = hw_cur /\ cpu_cur' = Advance(cpu_cur, 1)
      /\ enq_hw_tx' = (enq_hw_tx + 1) % NDESC
      /\ desc' = [desc EXCEPT ![enq_hw_tx] = [own |-> "HPA", address |-> b]]
      /\ desc[enq_hw_tx].own # "HPA"
  BY DEF Send
<1>4. \A d \in Desc : desc[d].own = "HPA" <=> \E k \in 0 .. n - 1 : d = (hw_cur + k) % NDESC
  BY DEF WindowInv
<1>5. n < NDESC
  <2> HIDE DEF n
  <2>1. PICK k \in 0 .. NDESC - 1 : enq_hw_tx = (hw_cur + k) % NDESC
    BY <1>1, <1>2, Reach
  <2>2. ~(k \in 0 .. n - 1)
    BY <1>2, <1>3, <1>4, <2>1
  <2> QED BY <1>1, <2>1, <2>2, NDescAssumption
<1>6. cpu_cur' \in Ring /\ cpu_cur' = IF cpu_cur + 1 < 2 * NDESC THEN cpu_cur + 1 ELSE 0
  <2> DEFINE x == cpu_cur + 1
  <2>1. x \in Nat /\ x < 4 * NDESC /\ x <= 2 * NDESC
    BY <1>1, NDescAssumption DEF Ring
  <2>2. x % (2 * NDESC) = IF x < 2 * NDESC THEN x ELSE x - 2 * NDESC
    <3> HIDE DEF x
    <3> QED BY <2>1, PointerTurns
  <2> QED BY <1>1, <1>3, <2>1, <2>2, NDescAssumption DEF Advance, Ring
<1>7. Pending' = n + 1
  <2>1. Pending' = IF cpu_cur' < hw_cur THEN cpu_cur' + 2 * NDESC - hw_cur ELSE cpu_cur' - hw_cur
    BY <1>1, <1>3, <1>6, PendingValue DEF Pending
  <2> HIDE DEF n
  <2> QED BY <2>1, <1>1, <1>5, <1>6, NDescAssumption DEF Ring
<1>8. cpu_cur % NDESC = IF cpu_cur < NDESC THEN cpu_cur ELSE cpu_cur - NDESC
  BY <1>1, PointerDesc, NDescAssumption DEF Ring
<1>9. enq_hw_tx' = cpu_cur' % NDESC
  <2>1. cpu_cur' % NDESC = IF cpu_cur' < NDESC THEN cpu_cur' ELSE cpu_cur' - NDESC
    BY <1>6, PointerDesc, NDescAssumption DEF Ring
  <2> DEFINE x == enq_hw_tx + 1
  <2>2. x \in Nat /\ x < 2 * NDESC /\ x <= NDESC
    BY <1>2, NDescAssumption DEF Desc
  <2>3. x % NDESC = IF x < NDESC THEN x ELSE x - NDESC
    <3> HIDE DEF x
    <3> QED BY <2>2, PointerDesc
  <2> QED BY <1>1, <1>2, <1>3, <1>6, <1>8, <2>1, <2>3, NDescAssumption DEF Ring, Desc
<1>10. (hw_cur + n) % NDESC = enq_hw_tx
  <2> HIDE DEF n
  <2> DEFINE x == hw_cur + n
  <2>1. x \in Nat /\ x < 4 * NDESC /\ (x = cpu_cur \/ x = cpu_cur + 2 * NDESC)
    BY <1>1, NDescAssumption DEF Ring
  <2>2. x % NDESC = IF x < NDESC THEN x ELSE IF x < 2 * NDESC THEN x - NDESC
                        ELSE IF x < 3 * NDESC THEN x - 2 * NDESC ELSE x - 3 * NDESC
    <3> HIDE DEF x
    <3> QED BY <2>1, PointerTurns
  <2> QED BY <1>1, <1>2, <1>8, <2>1, <2>2, NDescAssumption DEF Ring
<1>11. desc' \in [Desc -> [own : {"HPA", "CPU"}, address : Buf \cup {NULL}]]
  BY <1>2, <1>3 DEF WindowInv
<1>12. ASSUME NEW d \in Desc
       PROVE  desc'[d].own = "HPA" <=> \E k \in 0 .. Pending' - 1 : d = (hw_cur' + k) % NDESC
  <2> HIDE DEF n
  <2>1. 0 .. Pending' - 1 = (0 .. n - 1) \cup {n}
    BY <1>1, <1>7
  <2>2. desc'[d].own = "HPA" <=> (d = enq_hw_tx \/ desc[d].own = "HPA")
    BY <1>2, <1>3 DEF WindowInv
  <2> QED BY <1>3, <1>4, <1>10, <2>1, <2>2
<1>13. Pending' \in 0 .. NDESC
  <2> HIDE DEF n
  <2> QED BY <1>1, <1>5, <1>7, NDescAssumption
<1> QED BY <1>1, <1>3, <1>6, <1>9, <1>11, <1>12, <1>13 DEF WindowInv

\* The engine sends the first packet of the window.
LEMMA HwSendWindow ==
  ASSUME WindowInv, HwSend
  PROVE  WindowInv'
<1> DEFINE n == Pending
           c == hw_cur % NDESC
<1>1. /\ hw_cur \in Ring /\ cpu_cur \in Ring /\ n \in 0 .. NDESC
      /\ n = IF cpu_cur < hw_cur THEN cpu_cur + 2 * NDESC - hw_cur ELSE cpu_cur - hw_cur
  BY PendingValue DEF WindowInv, Pending
<1>2. c \in Desc
  BY <1>1, ModDesc DEF Ring
<1>3. /\ cpu_cur' = cpu_cur /\ enq_hw_tx' = enq_hw_tx
      /\ hw_cur # cpu_cur /\ hw_cur' = Advance(hw_cur, 1)
      /\ desc' = [desc EXCEPT ![c].own = "CPU"]
  BY DEF HwSend
<1>4. \A d \in Desc : desc[d].own = "HPA" <=> \E k \in 0 .. n - 1 : d = (hw_cur + k) % NDESC
  BY DEF WindowInv
<1> HIDE DEF n
<1>5. n >= 1
  BY <1>1, <1>3, NDescAssumption DEF Ring
<1>6. hw_cur' \in Ring /\ hw_cur' = IF hw_cur + 1 < 2 * NDESC THEN hw_cur + 1 ELSE 0
  <2> DEFINE x == hw_cur + 1
  <2>1. x \in Nat /\ x < 4 * NDESC /\ x <= 2 * NDESC
    BY <1>1, NDescAssumption DEF Ring
  <2>2. x % (2 * NDESC) = IF x < 2 * NDESC THEN x ELSE x - 2 * NDESC
    <3> HIDE DEF x
    <3> QED BY <2>1, PointerTurns
  <2> QED BY <1>1, <1>3, <2>1, <2>2, NDescAssumption DEF Advance, Ring
<1>7. Pending' = n - 1
  <2>1. Pending' = IF cpu_cur < hw_cur' THEN cpu_cur + 2 * NDESC - hw_cur' ELSE cpu_cur - hw_cur'
    BY <1>1, <1>3, <1>6, PendingValue DEF Pending
  <2> QED BY <2>1, <1>1, <1>3, <1>5, <1>6, NDescAssumption DEF Ring
<1>8. ASSUME NEW k \in 0 .. n - 2 PROVE (hw_cur' + k) % NDESC = (hw_cur + (k + 1)) % NDESC
  <2> DEFINE x == hw_cur' + k
             y == hw_cur + (k + 1)
  <2>1. /\ x \in Nat /\ x < 4 * NDESC /\ y \in Nat /\ y < 4 * NDESC
        /\ x = y \/ y = x + 2 * NDESC
    BY <1>1, <1>6, <1>8, NDescAssumption DEF Ring
  <2>2. x % NDESC = IF x < NDESC THEN x ELSE IF x < 2 * NDESC THEN x - NDESC
                        ELSE IF x < 3 * NDESC THEN x - 2 * NDESC ELSE x - 3 * NDESC
    <3> HIDE DEF x, y
    <3> QED BY <2>1, PointerTurns
  <2>3. y % NDESC = IF y < NDESC THEN y ELSE IF y < 2 * NDESC THEN y - NDESC
                        ELSE IF y < 3 * NDESC THEN y - 2 * NDESC ELSE y - 3 * NDESC
    <3> HIDE DEF x, y
    <3> QED BY <2>1, PointerTurns
  <2>4. x % NDESC = y % NDESC
    <3> HIDE DEF x, y
    <3> QED BY <2>1, <2>2, <2>3, NDescAssumption
  <2> QED BY <2>4
<1>9. c = (hw_cur + 0) % NDESC
  BY <1>1 DEF Ring
<1> HIDE DEF c
<1>10. ASSUME NEW k \in 1 .. n - 1 PROVE (hw_cur + k) % NDESC # c
  <2>1. k \in 0 .. NDESC - 1 /\ 0 \in 0 .. NDESC - 1 /\ k # 0
    BY <1>1, <1>10, NDescAssumption
  <2> QED BY <1>1, <1>9, <2>1, DistinctDesc
<1>11. ASSUME NEW d \in Desc
       PROVE  desc'[d].own = "HPA" <=> \E k \in 0 .. Pending' - 1 : d = (hw_cur' + k) % NDESC
  <2>1. CASE d = c
    <3>1. desc'[d].own # "HPA"
      BY <1>2, <1>3, <2>1 DEF WindowInv
    <3>2. \A k \in 0 .. n - 2 : k + 1 \in 1 .. n - 1
      BY <1>1
    <3>3. \A k \in 0 .. n - 2 : d # (hw_cur' + k) % NDESC
      BY <1>8, <1>10, <2>1, <3>2
    <3>4. Pending' - 1 = n - 2
      BY <1>1, <1>7
    <3> QED BY <3>1, <3>3, <3>4
  <2>2. CASE d # c
    <3>1. desc'[d].own = desc[d].own
      BY <1>2, <1>3, <2>2 DEF WindowInv
    <3>2. ASSUME NEW k \in 0 .. n - 1, d = (hw_cur + k) % NDESC
          PROVE  \E j \in 0 .. n - 2 : d = (hw_cur' + j) % NDESC
      <4>1. k # 0
        BY <1>9, <2>2, <3>2
      <4>2. k - 1 \in 0 .. n - 2 /\ (k - 1) + 1 = k
        BY <1>1, <4>1
      <4>3. (hw_cur' + (k - 1)) % NDESC = (hw_cur + ((k - 1) + 1)) % NDESC
        BY <1>8, <4>2
      <4> QED BY <3>2, <4>2, <4>3
    <3>3. ASSUME NEW j \in 0 .. n - 2, d = (hw_cur' + j) % NDESC
          PROVE  \E k \in 0 .. n - 1 : d = (hw_cur + k) % NDESC
      BY <1>1, <1>8, <3>3
    <3>4. Pending' - 1 = n - 2
      BY <1>1, <1>7
    <3> QED BY <1>4, <3>1, <3>2, <3>3, <3>4
  <2> QED BY <2>1, <2>2
<1>12. desc' \in [Desc -> [own : {"HPA", "CPU"}, address : Buf \cup {NULL}]]
  BY <1>2, <1>3 DEF WindowInv
<1>13. enq_hw_tx' = cpu_cur' % NDESC /\ Pending' \in 0 .. NDESC
  <2>1. enq_hw_tx' = cpu_cur' % NDESC
    BY <1>3 DEF WindowInv
  <2>2. Pending' \in 0 .. NDESC
    BY <1>1, <1>5, <1>7, NDescAssumption
  <2> QED BY <2>1, <2>2
<1> QED BY <1>1, <1>3, <1>6, <1>11, <1>12, <1>13 DEF WindowInv

LEMMA WindowInvariant == Spec => []WindowInv
<1>1. Init => WindowInv
  <2> SUFFICES ASSUME Init PROVE WindowInv
    OBVIOUS
  <2>1. hw_cur = 0 /\ cpu_cur = 0 /\ enq_hw_tx = 0 /\ hw_cur \in Ring /\ 0 \in Ring
    BY NDescAssumption DEF Init, Ring
  <2>2. Pending = 0
    BY <2>1, PendingValue, NDescAssumption DEF Pending
  <2>3. 0 = 0 % NDESC
    BY NDescAssumption
  <2> QED BY <2>1, <2>2, <2>3, NDescAssumption DEF Init, WindowInv
<1>2. RingType /\ WindowInv /\ [Next]_vars => WindowInv'
  <2> SUFFICES ASSUME RingType, WindowInv, [Next]_vars PROVE WindowInv'
    OBVIOUS
  <2>1. CASE \E b \in Buf : Send(b)
    BY <2>1, SendWindow
  <2>2. CASE HwSend
    BY <2>2, HwSendWindow
  <2>3. CASE CleanDesc
    <3> DEFINE c == descid % NDESC
    <3>1. c \in Desc
      BY ModDesc DEF RingType
    <3> HIDE DEF c
    <3>2. /\ desc[c].own = "CPU"
          /\ desc' = [desc EXCEPT ![c] = [own |-> "CPU", address |-> NULL]]
          /\ UNCHANGED <<hw_cur, cpu_cur, enq_hw_tx>>
      BY <2>3 DEF CleanDesc, Cleanable, c
    <3>3. \A d \in Desc : desc'[d].own = desc[d].own
      BY <3>1, <3>2 DEF WindowInv
    <3>4. desc' \in [Desc -> [own : {"HPA", "CPU"}, address : Buf \cup {NULL}]]
      BY <3>1, <3>2 DEF WindowInv
    <3> QED BY <3>2, <3>3, <3>4 DEF WindowInv, Pending
  <2>4. CASE UNCHANGED <<desc, hw_cur, cpu_cur, enq_hw_tx>>
    BY <2>4 DEF WindowInv, Pending
  <2> QED BY <2>1, <2>2, <2>3, <2>4 DEF Next, Isr, IsrEnter, IsrStatus, CleanEnd, vars
<1> QED BY <1>1, <1>2, RingTypeInvariant, PTL DEF Spec

\* The descriptors that are the engine's are the packets from its position to
\* its stop, in the order of the sends, whatever the size of the ring.
THEOREM TxEngineWindow == Spec => []EngineWindow
<1>1. WindowInv => EngineWindow
  <2> SUFFICES ASSUME WindowInv PROVE EngineWindow
    OBVIOUS
  <2>1. \A k \in 0 .. Pending - 1 : (hw_cur + k) % NDESC \in Desc
    BY ModDesc DEF WindowInv, Ring
  <2> QED BY <2>1 DEF WindowInv, EngineWindow, Pending
<1> QED BY <1>1, WindowInvariant, PTL

-----------------------------------------------------------------------------
(* The locals of hpa_tx_done: the loop has cleaned npkts descriptors from the  *)
(* one behind the last it had freed, a turn of the ring at most.               *)

ScanLocals ==
    /\ intsts \subseteq Intr /\ isr \in {"idle", "status", "tx_done"}
    /\ enq_done_hw \in Ring /\ npkts \in 0 .. NDESC
    /\ descid = IF isr = "tx_done" THEN enq_done_hw + 1 + npkts ELSE 0
    /\ isr # "tx_done" => npkts = 0

LEMMA ScanLocalsNext == ASSUME ScanLocals, [Next]_vars PROVE ScanLocals'
<1> USE DEF ScanLocals
<1>r. enq_done_hw \in Nat /\ NDESC \in Nat /\ NDESC > 0
  BY NDescAssumption DEF Ring
<1>1. ASSUME NEW b \in Buf, Send(b) PROVE ScanLocals'
  BY <1>1 DEF Send
<1>2. CASE HwSend
  BY <1>2 DEF HwSend
<1>3. CASE IsrEnter
  BY <1>3 DEF IsrEnter
<1>4. CASE IsrStatus
  BY <1>4, <1>r DEF IsrStatus
<1>5. CASE CleanDesc
  <2>1. /\ npkts' = npkts + 1 /\ descid' = descid + 1 /\ npkts < NDESC /\ isr = "tx_done"
        /\ UNCHANGED <<intsts, isr, enq_done_hw>>
    BY <1>5 DEF CleanDesc
  <2> QED BY <1>r, <2>1
<1>6. CASE CleanEnd
  <2>1. enq_done_hw' \in Ring
    BY <1>6, <1>r, AdvanceRange DEF CleanEnd
  <2> QED BY <1>6, <1>r, <2>1 DEF CleanEnd
<1>7. CASE UNCHANGED vars
  BY <1>7 DEF vars
<1> QED BY <1>1, <1>2, <1>3, <1>4, <1>5, <1>6, <1>7 DEF Next, Isr

\* The ring, its pointers, the status and the locals of hpa_tx_done stay in range: the
\* handler's loop reads no further than one turn behind the last descriptor it freed.
THEOREM TxTypeOK == Spec => []TypeOK
<1>1. Init => ScanLocals
  BY NDescAssumption DEF Init, ScanLocals, Ring
<1>2. RingType /\ WindowInv /\ ScanLocals => TypeOK
  <2> SUFFICES ASSUME RingType, WindowInv, ScanLocals PROVE TypeOK
    OBVIOUS
  <2>1. descid \in 0 .. 3 * NDESC
    BY NDescAssumption DEF ScanLocals, Ring
  <2> QED BY <2>1 DEF RingType, WindowInv, ScanLocals, TypeOK
<1> QED BY <1>1, <1>2, ScanLocalsNext, RingTypeInvariant, WindowInvariant, PTL DEF Spec
=============================================================================
