----------------------------- MODULE EventProofs -----------------------------
(*****************************************************************************)
(* The rings of events between an interrupt or a polling thread and a task:   *)
(* the 802.1AS thread (Dot1asControl) and the time-of-day events (TsEvents).  *)
(* They share no variable: each theorem is about the specification of one.    *)
(*                                                                            *)
(* Neither reader sleeps on work, and until a burst laps it the ring keeps the*)
(* messages or events in order, each once: for any size of the ring.          *)
(*****************************************************************************)
EXTENDS Dot1asControl, TsEvents, SequenceTheorems, TLAPS

-----------------------------------------------------------------------------
(* Types.  A giver that has read 0 will post: the semaphore has room for it. *)

Posts == (IF rx = "post" THEN 1 ELSE 0) + (IF timer = "post" THEN 1 ELSE 0)

TypeInv ==
    /\ TypeOK
    /\ dot1asSemId + Posts <= 2
    /\ thread = [pc |-> thread.pc, msg |-> thread.msg]

LEMMA AdvanceSlot == ASSUME NEW i \in Slot PROVE Advance(i) \in Slot
BY QueueAssumption DEF Slot, Advance

LEMMA TypeInit == Init => TypeInv
<1> SUFFICES ASSUME Init PROVE TypeInv
  OBVIOUS
<1>1. 0 \in Slot /\ dot1asMsgBuf \in [Slot -> Buf \cup {NULL}]
  BY QueueAssumption DEF Init, Slot
<1>2. thread = [pc |-> thread.pc, msg |-> thread.msg] /\ thread.pc = "wait"
  BY DEF Init
<1> QED BY <1>1, <1>2 DEF Init, TypeInv, TypeOK, Posts

LEMMA TypeNext == ASSUME TypeInv, [Next]_vars PROVE TypeInv'
<1> USE AdvanceSlot DEF TypeInv, TypeOK, Posts, ring, ghosts
<1>1. ASSUME NEW b \in Buf, RxStore(b) PROVE TypeInv'
  <2>1. lapped' \in BOOLEAN
    BY <1>1 DEF RxStore, Accept
  <2> QED BY <1>1, <2>1 DEF RxStore
<1>2. CASE RxAdvance
  BY <1>2 DEF RxAdvance
<1>3. CASE RxGive
  BY <1>3 DEF RxGive, SemGiveTest
<1>4. CASE RxPost
  BY <1>4 DEF RxPost
<1>5. CASE Tick
  BY <1>5 DEF Tick
<1>6. CASE TimerGive
  BY <1>6 DEF TimerGive, SemGiveTest
<1>7. CASE TimerPost
  BY <1>7 DEF TimerPost
<1>8. CASE Wake
  BY <1>8 DEF Wake
<1>9. CASE Process
  BY <1>9 DEF Process
<1>10. CASE Processed
  BY <1>10 DEF Processed, Account
<1>11. CASE Drained
  BY <1>11 DEF Drained
<1>12. CASE TimerEvent
  BY <1>12 DEF TimerEvent
<1>13. CASE TransmitDone
  BY <1>13 DEF TransmitDone
<1>14. CASE UNCHANGED vars
  BY <1>14 DEF vars
<1> QED BY <1>1, <1>2, <1>3, <1>4, <1>5, <1>6, <1>7, <1>8, <1>9, <1>10, <1>11, <1>12,
           <1>13, <1>14 DEF Next, RxStep, TimerStep, ThreadStep

\* The indices of the ring are slots, and two givers of the binary semaphore leave it at 2
\* at most (sal_sem_give).
THEOREM EventsTypeOK == Spec => []TypeOK
<1>1. TypeInv => TypeOK
  BY DEF TypeInv
<1> QED BY TypeInit, TypeNext, <1>1, PTL DEF Spec

-----------------------------------------------------------------------------
(* Wakeups: whoever made work for a thread that does not look for it any more *)
(* in this round has still to give, or the semaphore is not 0.              *)

WakeInv ==
    /\ dot1asMsgRdIdx # dot1asMsgWrIdx /\ thread.pc \notin {"loop", "process"}
           => dot1asSemId > 0 \/ rx \in {"give", "post"}
    /\ dot1asTimerEvent /\ thread.pc = "wait" => dot1asSemId > 0 \/ timer \in {"give", "post"}

LEMMA WakeInit == Init => WakeInv
BY DEF Init, WakeInv

LEMMA WakeNext == ASSUME TypeInv, WakeInv, [Next]_vars PROVE WakeInv'
<1> USE DEF TypeInv, TypeOK, WakeInv, ring, ghosts
<1>1. ASSUME NEW b \in Buf, RxStore(b) PROVE WakeInv'
  BY <1>1 DEF RxStore
<1>2. CASE RxAdvance
  BY <1>2 DEF RxAdvance
<1>3. CASE RxGive
  BY <1>3 DEF RxGive, SemGiveTest
<1>4. CASE RxPost
  BY <1>4 DEF RxPost
<1>5. CASE Tick
  BY <1>5 DEF Tick
<1>6. CASE TimerGive
  BY <1>6 DEF TimerGive, SemGiveTest
<1>7. CASE TimerPost
  BY <1>7 DEF TimerPost
<1>8. CASE Wake
  BY <1>8 DEF Wake
<1>9. CASE Process
  BY <1>9 DEF Process
<1>10. CASE Processed
  BY <1>10 DEF Processed
<1>11. CASE Drained
  BY <1>11 DEF Drained
<1>12. CASE TimerEvent
  BY <1>12 DEF TimerEvent
<1>13. CASE TransmitDone
  BY <1>13 DEF TransmitDone
<1>14. CASE UNCHANGED vars
  BY <1>14 DEF vars
<1> QED BY <1>1, <1>2, <1>3, <1>4, <1>5, <1>6, <1>7, <1>8, <1>9, <1>10, <1>11, <1>12,
           <1>13, <1>14 DEF Next, RxStep, TimerStep, ThreadStep

\* When the 802.1AS thread waits and nobody is about to wake it, there is neither a message
\* nor a tick (dot1asRxHandler, dot1asTimerThread and dot1asThread share both unlocked).
THEOREM EventsNoSleepOnWork == Spec => []NoSleepOnWork
<1>1. TypeInv /\ WakeInv => NoSleepOnWork
  BY DEF TypeInv, TypeOK, WakeInv, NoSleepOnWork
<1> QED BY TypeInit, TypeNext, WakeInit, WakeNext, <1>1, PTL DEF Spec

-----------------------------------------------------------------------------
(* Order.  Until the reader is lapped, the accepted messages are in the slots  *)
(* from the reader on; the writer is behind the last that it has counted.      *)

\* The slot of the i-th message from the reader rd on.
Pos(rd, i) == IF rd + i - 1 >= QUEUE THEN rd + i - 1 - QUEUE ELSE rd + i - 1

\* The accepted messages that the writer's index has gone past.
Counted == IF rx = "store" THEN Len(accepted) - 1 ELSE Len(accepted)

OrderInv ==
    /\ accepted \in Seq(Buf) /\ Len(accepted) < QUEUE
    /\ rx = "store" => Len(accepted) > 0
    /\ dot1asMsgWrIdx = Pos(dot1asMsgRdIdx, Counted + 1)
    /\ \A i \in 1 .. Len(accepted) :
          accepted[i] = dot1asMsgBuf[Pos(dot1asMsgRdIdx, i)] /\ accepted[i] \in allocated
    /\ \A i, j \in 1 .. Len(accepted) : i # j => accepted[i] # accepted[j]
    /\ thread.pc = "process" => Counted > 0 /\ thread.msg = accepted[1]

RingInv == ~lapped => OrderInv

LEMMA OrderInit == Init => RingInv
BY QueueAssumption DEF Init, RingInv, OrderInv, Counted, Pos

LEMMA PosFacts ==
  ASSUME NEW rd \in Slot
  PROVE  /\ Pos(rd, 1) = rd
         /\ \A i \in 1 .. QUEUE : Pos(rd, i) \in Slot
         /\ \A i \in 1 .. QUEUE - 1 : /\ Pos(rd, i + 1) = Advance(Pos(rd, i))
                                      /\ Pos(Advance(rd), i) = Pos(rd, i + 1)
         /\ \A i, j \in 1 .. QUEUE : i # j => Pos(rd, i) # Pos(rd, j)
BY QueueAssumption DEF Slot, Pos, Advance

\* A step that leaves ring, buffers and messages alone, and begins no processing.
LEMMA OrderQuiet ==
  ASSUME RingInv, UNCHANGED <<ring, allocated, ghosts>>,
         rx' = "store" <=> rx = "store",
         thread'.pc = "process" => UNCHANGED thread
  PROVE  RingInv'
BY DEF RingInv, OrderInv, Counted, ring, ghosts

LEMMA OrderStore ==
  ASSUME TypeInv, RingInv, NEW b \in Buf, RxStore(b)
  PROVE  RingInv'
<1> SUFFICES ASSUME ~lapped' PROVE OrderInv'
  BY DEF RingInv
<1> DEFINE rd == dot1asMsgRdIdx
           n == Len(accepted)
<1>1. /\ ~lapped /\ n + 1 < QUEUE /\ accepted' = Append(accepted, b)
      /\ OrderInv /\ accepted \in Seq(Buf) /\ n \in Nat /\ rd \in Slot
  <2>1. ~lapped /\ ~(n + 1 >= QUEUE)
    BY DEF RxStore, Accept
  <2>2. accepted' = Append(accepted, b)
    BY DEF RxStore, Accept
  <2>3. OrderInv /\ accepted \in Seq(Buf) /\ n \in Nat /\ rd \in Slot
    BY <2>1 DEF RingInv, OrderInv, TypeInv, TypeOK
  <2> QED BY <2>1, <2>2, <2>3, QueueAssumption
<1>2. /\ accepted' \in Seq(Buf) /\ Len(accepted') = n + 1 /\ accepted'[n + 1] = b
      /\ \A i \in 1 .. n : accepted'[i] = accepted[i]
  BY <1>1
<1>3. rx = "idle" /\ rx' = "store" /\ Counted = n /\ Counted' = n
  BY <1>1, <1>2 DEF RxStore, Counted
<1>4. dot1asMsgWrIdx = Pos(rd, n + 1) /\ dot1asMsgWrIdx \in Slot
      /\ UNCHANGED <<dot1asMsgWrIdx, dot1asMsgRdIdx, thread>>
  BY <1>1, <1>3 DEF OrderInv, RxStore, TypeInv, TypeOK
<1>5. \A i \in 1 .. n : Pos(rd, i) # Pos(rd, n + 1)
  BY <1>1, PosFacts, QueueAssumption
<1>6. /\ dot1asMsgBuf'[Pos(rd, n + 1)] = b
      /\ \A i \in 1 .. n : dot1asMsgBuf'[Pos(rd, i)] = dot1asMsgBuf[Pos(rd, i)]
  <2>1. dot1asMsgBuf' = [dot1asMsgBuf EXCEPT ![dot1asMsgWrIdx] = b]
    BY DEF RxStore
  <2>2. dot1asMsgBuf \in [Slot -> Buf \cup {NULL}]
    BY DEF TypeInv, TypeOK
  <2>3. \A i \in 1 .. n : Pos(rd, i) \in Slot
    BY <1>1, PosFacts, QueueAssumption
  <2> QED BY <1>4, <1>5, <2>1, <2>2, <2>3
<1>7. allocated' = allocated \cup {b} /\ b \notin allocated
  BY DEF RxStore
<1>8. \A i \in 1 .. n : accepted[i] = dot1asMsgBuf[Pos(rd, i)] /\ accepted[i] \in allocated
  BY <1>1 DEF OrderInv
<1>9. \A i \in 1 .. n + 1 :
          accepted'[i] = dot1asMsgBuf'[Pos(rd, i)] /\ accepted'[i] \in allocated'
  <2> SUFFICES ASSUME NEW i \in 1 .. n + 1
      PROVE accepted'[i] = dot1asMsgBuf'[Pos(rd, i)] /\ accepted'[i] \in allocated'
    OBVIOUS
  <2>1. i \in 1 .. n \/ i = n + 1
    BY <1>1
  <2> QED BY <1>2, <1>6, <1>7, <1>8, <2>1
<1>10. \A i, j \in 1 .. n + 1 : i # j => accepted'[i] # accepted'[j]
  <2> SUFFICES ASSUME NEW i \in 1 .. n + 1, NEW j \in 1 .. n + 1, i # j
      PROVE accepted'[i] # accepted'[j]
    OBVIOUS
  <2>1. (i \in 1 .. n \/ i = n + 1) /\ (j \in 1 .. n \/ j = n + 1)
    BY <1>1
  <2>2. \A k, l \in 1 .. n : k # l => accepted[k] # accepted[l]
    BY <1>1 DEF OrderInv
  <2> QED BY <1>2, <1>7, <1>8, <2>1, <2>2
<1>11. thread.pc = "process" => n > 0 /\ accepted[1] = accepted'[1] /\ thread.msg = accepted[1]
  <2>1. thread.pc = "process" => n > 0 /\ thread.msg = accepted[1]
    BY <1>1, <1>3 DEF OrderInv
  <2> QED BY <1>1, <1>2, <2>1
<1> QED BY <1>1, <1>2, <1>3, <1>4, <1>9, <1>10, <1>11 DEF OrderInv

LEMMA OrderProcessed ==
  ASSUME TypeInv, RingInv, Processed
  PROVE  RingInv'
<1> SUFFICES ASSUME ~lapped PROVE OrderInv'
  BY DEF RingInv, Processed, Account
<1> DEFINE rd == dot1asMsgRdIdx
           n == Len(accepted)
<1>1. /\ OrderInv /\ accepted \in Seq(Buf) /\ n \in Nat /\ n < QUEUE /\ rd \in Slot
      /\ Counted > 0 /\ thread.msg = accepted[1] /\ thread.pc = "process"
  BY DEF Processed, RingInv, OrderInv, TypeInv, TypeOK
<1>2. n > 0 /\ (rx = "store" => n > 1) /\ Counted \in 1 .. QUEUE - 1
  <2>1. Counted = IF rx = "store" THEN n - 1 ELSE n
    BY DEF Counted
  <2> QED BY <1>1, <2>1, QueueAssumption
<1>3. accepted # <<>> /\ Head(accepted) = thread.msg
  BY <1>1, <1>2
<1>4. accepted' = Tail(accepted)
  BY <1>3 DEF Processed, Account
<1>5. /\ accepted' \in Seq(Buf) /\ Len(accepted') = n - 1
      /\ \A i \in 1 .. n - 1 : accepted'[i] = accepted[i + 1]
  BY <1>1, <1>2, <1>4
<1>6. rd' = Advance(rd) /\ UNCHANGED <<dot1asMsgBuf, dot1asMsgWrIdx, rx>>
      /\ thread'.pc # "process"
  BY DEF Processed
<1>7. \A i \in 1 .. QUEUE - 1 : Pos(rd', i) = Pos(rd, i + 1)
  BY <1>1, <1>6, PosFacts
<1>8. Counted' = Counted - 1
  BY <1>1, <1>5, <1>6 DEF Counted
<1>9. dot1asMsgWrIdx' = Pos(rd', Counted' + 1)
  <2>1. Counted \in 1 .. QUEUE - 1 /\ Counted' + 1 = Counted
    BY <1>2, <1>8
  <2>2. dot1asMsgWrIdx = Pos(rd, Counted + 1)
    BY <1>1 DEF OrderInv
  <2> QED BY <1>6, <1>7, <2>1, <2>2
<1>10. dot1asMsgBuf[rd] = accepted[1]
  <2>1. accepted[1] = dot1asMsgBuf[Pos(rd, 1)]
    BY <1>1, <1>2 DEF OrderInv
  <2> QED BY <1>1, <2>1, PosFacts
<1>11. allocated' = allocated \ {accepted[1]}
  BY <1>10 DEF Processed
<1>12. \A i \in 1 .. n - 1 :
           accepted'[i] = dot1asMsgBuf'[Pos(rd', i)] /\ accepted'[i] \in allocated'
  <2> SUFFICES ASSUME NEW i \in 1 .. n - 1
      PROVE accepted'[i] = dot1asMsgBuf'[Pos(rd', i)] /\ accepted'[i] \in allocated'
    OBVIOUS
  <2>1. i + 1 \in 1 .. n /\ 1 \in 1 .. n /\ i + 1 # 1 /\ i \in 1 .. QUEUE - 1
    BY <1>1, QueueAssumption
  <2>2. /\ accepted[i + 1] = dot1asMsgBuf[Pos(rd, i + 1)] /\ accepted[i + 1] \in allocated
        /\ accepted[i + 1] # accepted[1]
    BY <1>1, <2>1 DEF OrderInv
  <2> QED BY <1>5, <1>6, <1>7, <1>11, <2>1, <2>2
<1>13. \A i, j \in 1 .. n - 1 : i # j => accepted'[i] # accepted'[j]
  <2> SUFFICES ASSUME NEW i \in 1 .. n - 1, NEW j \in 1 .. n - 1, i # j
      PROVE accepted'[i] # accepted'[j]
    OBVIOUS
  <2>1. i + 1 \in 1 .. n /\ j + 1 \in 1 .. n /\ i + 1 # j + 1
    BY <1>1
  <2>2. accepted[i + 1] # accepted[j + 1]
    BY <1>1, <2>1 DEF OrderInv
  <2> QED BY <1>5, <2>2
<1>14. Len(accepted') < QUEUE /\ (rx' = "store" => Len(accepted') > 0)
  <2>1. rx' = "store" => n > 1
    BY <1>2, <1>6
  <2>2. Len(accepted') = n - 1 /\ n - 1 < QUEUE /\ (n > 1 => n - 1 > 0)
    BY <1>1, <1>5, QueueAssumption
  <2> QED BY <2>1, <2>2
<1> QED BY <1>5, <1>6, <1>9, <1>12, <1>13, <1>14 DEF OrderInv

LEMMA OrderNext == ASSUME TypeInv, RingInv, [Next]_vars PROVE RingInv'
<1>1. ASSUME NEW b \in Buf, RxStore(b) PROVE RingInv'
  BY <1>1, OrderStore
<1>2. CASE RxAdvance
  <2> SUFFICES ASSUME ~lapped PROVE OrderInv'
    BY <1>2 DEF RxAdvance, RingInv, ghosts
  <2>1. OrderInv /\ dot1asMsgRdIdx \in Slot /\ Len(accepted) \in Nat
    BY DEF RingInv, OrderInv, TypeInv, TypeOK
  <2>2. /\ rx = "store" /\ rx' = "give" /\ dot1asMsgWrIdx' = Advance(dot1asMsgWrIdx)
        /\ UNCHANGED <<dot1asMsgBuf, dot1asMsgRdIdx, allocated, thread, accepted>>
    BY <1>2 DEF RxAdvance, ghosts
  <2>3. Counted' = Counted + 1 /\ Counted + 1 \in 1 .. QUEUE - 1 /\ Counted \in Nat
    BY <2>1, <2>2, QueueAssumption DEF Counted, OrderInv
  <2>4. dot1asMsgWrIdx' = Pos(dot1asMsgRdIdx, Counted' + 1)
    <3>1. dot1asMsgWrIdx = Pos(dot1asMsgRdIdx, Counted + 1)
      BY <2>1 DEF OrderInv
    <3>2. Pos(dot1asMsgRdIdx, (Counted + 1) + 1) = Advance(Pos(dot1asMsgRdIdx, Counted + 1))
      BY <2>1, <2>3, PosFacts
    <3> QED BY <2>2, <2>3, <3>1, <3>2
  <2> QED BY <2>1, <2>2, <2>3, <2>4 DEF OrderInv
<1>3. CASE RxGive
  BY <1>3, OrderQuiet DEF RxGive, SemGiveTest, ring, ghosts
<1>4. CASE RxPost
  BY <1>4, OrderQuiet DEF RxPost, ring, ghosts
<1>5. CASE TimerStep
  BY <1>5, OrderQuiet DEF TimerStep, Tick, TimerGive, TimerPost, ring, ghosts
<1>6. CASE Wake
  BY <1>6, OrderQuiet DEF Wake, ring, ghosts
<1>7. CASE Process
  <2> SUFFICES ASSUME ~lapped PROVE OrderInv'
    BY <1>7 DEF Process, RingInv, ghosts
  <2>1. OrderInv /\ dot1asMsgRdIdx \in Slot /\ Len(accepted) \in Nat
    BY DEF RingInv, OrderInv, TypeInv, TypeOK
  <2>2. /\ thread' = [pc |-> "process", msg |-> dot1asMsgBuf[dot1asMsgRdIdx]]
        /\ dot1asMsgRdIdx # dot1asMsgWrIdx
        /\ UNCHANGED <<dot1asMsgBuf, dot1asMsgRdIdx, dot1asMsgWrIdx, allocated, rx, accepted>>
    BY <1>7 DEF Process, ring, ghosts
  <2>3. Counted \in Nat /\ Counted <= Len(accepted) /\ Counted' = Counted
    BY <2>1, <2>2 DEF Counted, OrderInv
  <2>4. Pos(dot1asMsgRdIdx, 1) = dot1asMsgRdIdx
    BY <2>1, PosFacts
  <2>5. Counted # 0
    BY <2>1, <2>2, <2>4 DEF OrderInv
  <2>6. accepted[1] = dot1asMsgBuf[dot1asMsgRdIdx]
    <3>1. 1 \in 1 .. Len(accepted)
      BY <2>1, <2>3, <2>5
    <3> QED BY <2>1, <2>4, <3>1 DEF OrderInv
  <2> QED BY <2>1, <2>2, <2>3, <2>5, <2>6 DEF OrderInv
<1>8. CASE Processed
  BY <1>8, OrderProcessed
<1>9. CASE Drained \/ TimerEvent
  <2>1. thread'.pc # "process"
    BY <1>9 DEF Drained, TimerEvent, TypeInv
  <2> QED BY <1>9, <2>1, OrderQuiet DEF Drained, TimerEvent, ring, ghosts
<1>10. CASE TransmitDone
  <2>1. thread'.pc # "process"
    BY <1>10 DEF TransmitDone, TypeInv
  <2> QED BY <1>10, <2>1, OrderQuiet DEF TransmitDone, ring, ghosts
<1>11. CASE UNCHANGED vars
  BY <1>11, OrderQuiet DEF vars, ring, ghosts
<1> QED BY <1>1, <1>2, <1>3, <1>4, <1>5, <1>6, <1>7, <1>8, <1>9, <1>10, <1>11
        DEF Next, RxStep, ThreadStep

LEMMA ModStep ==
  ASSUME NEW m \in Nat \ {0}, NEW h \in 0 .. m - 1, NEW c \in 0 .. m - 1
  PROVE  (c + m - h) % m = IF c >= h THEN c - h ELSE c + m - h
OBVIOUS

LEMMA RingContents ==
  ASSUME TypeInv, OrderInv
  PROVE  /\ Waiting = Counted /\ Counted \in 0 .. Len(accepted) /\ Len(accepted) \in Nat
         /\ InRing = [i \in 1 .. Counted |-> accepted[i]]
<1> DEFINE rd == dot1asMsgRdIdx
           wr == dot1asMsgWrIdx
<1>1. /\ rd \in Slot /\ wr \in Slot /\ Len(accepted) \in Nat /\ Len(accepted) < QUEUE
      /\ Counted \in 0 .. Len(accepted) /\ wr = Pos(rd, Counted + 1) /\ QUEUE \in Nat \ {0}
  BY QueueAssumption DEF TypeInv, TypeOK, OrderInv, Counted
<1>2. Waiting = IF wr >= rd THEN wr - rd ELSE wr + QUEUE - rd
  BY <1>1, ModStep DEF Waiting, Slot
<1>3. Waiting = Counted
  BY <1>1, <1>2 DEF Pos, Slot
<1>4. \A i \in 1 .. Counted : (rd + i - 1) % QUEUE = Pos(rd, i)
  <2> SUFFICES ASSUME NEW i \in 1 .. Counted PROVE (rd + i - 1) % QUEUE = Pos(rd, i)
    OBVIOUS
  <2>1. i \in 1 .. QUEUE - 1 /\ rd \in 0 .. QUEUE - 1
    BY <1>1 DEF Slot
  <2> QED BY <1>1, <2>1 DEF Pos
<1>5. \A i \in 1 .. Counted : accepted[i] = dot1asMsgBuf[Pos(rd, i)]
  BY <1>1 DEF OrderInv
<1> QED BY <1>1, <1>3, <1>4, <1>5 DEF InRing

\* Until a burst of messages has lapped the reader, the ring holds the accepted messages in
\* the order of their arrival, each once (dot1asRxHandler, dot1asThread).
THEOREM EventsMessagesInOrder == Spec => []MessagesInOrder
<1>1. TypeInv /\ RingInv => MessagesInOrder
  <2> SUFFICES ASSUME TypeInv, OrderInv, ~lapped
      PROVE InRing = IF rx = "store" THEN SubSeq(accepted, 1, Len(accepted) - 1) ELSE accepted
    BY DEF RingInv, MessagesInOrder
  <2>1. InRing = [i \in 1 .. Counted |-> accepted[i]]
    BY RingContents
  <2>2. accepted \in Seq(Buf) /\ Len(accepted) \in Nat
        /\ (rx = "store" => Len(accepted) > 0)
    BY DEF OrderInv
  <2>3. CASE rx = "store"
    <3>1. Counted = Len(accepted) - 1
      BY <2>3 DEF Counted
    <3> QED BY <2>1, <2>2, <2>3, <3>1
  <2>4. CASE rx # "store"
    <3>1. Counted = Len(accepted)
      BY <2>4 DEF Counted
    <3>2. accepted = [i \in 1 .. Len(accepted) |-> accepted[i]]
      BY <2>2
    <3> QED BY <2>1, <2>4, <3>1, <3>2
  <2> QED BY <2>3, <2>4
<1> QED BY TypeInit, TypeNext, OrderInit, OrderNext, <1>1, PTL DEF Spec

\* Until then the buffer of every message in the ring, and of the one in process, is
\* allocated: it is freed once, and behind the processing (dot1asThread).
THEOREM EventsBuffersLive == Spec => []BuffersLiveUnlapped
<1>1. TypeInv /\ RingInv => BuffersLiveUnlapped
  <2> SUFFICES ASSUME TypeInv, OrderInv PROVE RingBuffersLive
    BY DEF RingInv, BuffersLiveUnlapped
  <2>1. /\ InRing = [i \in 1 .. Counted |-> accepted[i]]
        /\ Counted \in 0 .. Len(accepted) /\ Len(accepted) \in Nat
    BY RingContents
  <2>2. \A i \in 1 .. Len(accepted) : accepted[i] \in allocated
    BY DEF OrderInv
  <2>3. \A i \in DOMAIN InRing : InRing[i] \in allocated
    BY <2>1, <2>2
  <2>4. thread.pc = "process" => thread.msg \in allocated
    BY <2>1, <2>2 DEF OrderInv
  <2> QED BY <2>3, <2>4 DEF RingBuffersLive
<1> QED BY TypeInit, TypeNext, OrderInit, OrderNext, <1>1, PTL DEF Spec

-----------------------------------------------------------------------------
(* The time-of-day events (TsEvents), whose ring is of the same kind.        *)

Entry    == Event \cup {NoEvent}
Draining == {"drain", "enqueue", "overflow", "index", "full"}
Queueing == Draining \ {"drain"}

TsTypes ==
    /\ fifo \in Seq(Event) /\ captured \in Nat
    /\ {intsts, latch, edge, cb_events, overrun, missed} \subseteq BOOLEAN
    /\ event_ring \in [RingSlot -> Entry]
    /\ er_producer_idx \in RingSlot /\ er_consumer_idx \in RingSlot /\ er_sem \in {0, 1}
    /\ timesync \in [pc : {"poll", "give", "status", "clear", "depth", "ack"} \cup Draining,
                     sts : BOOLEAN, depth : Nat, ev : Entry]
    /\ task = [pc |-> task.pc, slot |-> task.slot, ev |-> task.ev, cb |-> task.cb]

\* The handler's passes.  As long as the status is clear nothing has been captured since
\* it was cleared: what is in the FIFO is what this pass still reads.  Between the polls an
\* edge waits for a status that is set, but for one that an acknowledge has missed.
PassInv ==
    /\ Len(fifo) <= FIFO /\ timesync.depth <= FIFO
    /\ ~intsts =>
         /\ timesync.pc \in {"poll", "give", "status", "ack"} => fifo = <<>>
         /\ timesync.pc \in Draining => Len(fifo) <= timesync.depth
    /\ timesync.pc \in {"poll", "give"} /\ ~edge => ~latch /\ (~missed => ~intsts)

\* Wakeups: while the task waits beside a ring that is not empty, the TIMESYNC thread has
\* counted an event and gives when its passes are over.
TsWakeInv ==
    /\ timesync.pc \in Queueing \cup {"give"} => cb_events
    /\ task.pc = "take" /\ er_sem = 0 /\ er_consumer_idx # er_producer_idx
           => timesync.pc # "poll" /\ cb_events

\* The slot of the i-th event from the consumer on.
Place(c, i) == IF c + i - 1 >= RING THEN c + i - 1 - RING ELSE c + i - 1

TsOrderInv ==
    /\ pending \in Seq(Entry) /\ Len(pending) < RING
    /\ er_producer_idx = Place(er_consumer_idx, Len(pending) + 1)
    /\ \A i \in 1 .. Len(pending) : pending[i] = event_ring[Place(er_consumer_idx, i)]
    /\ timesync.pc = "index" => event_ring[er_producer_idx] = timesync.ev
    /\ task.pc = "callback" => Len(pending) > 0

TsRingInv == ~overrun => TsOrderInv

LEMMA TsTypesInit == ASSUME TsInit PROVE TsTypes
<1>1. 0 \in RingSlot
  BY RingAssumption DEF RingSlot
<1>2. <<>> \in Seq(Event)
  BY EmptySeq
<1> QED
  BY <1>1, <1>2 DEF TsInit, Loop, TsTypes, Entry, Draining

LEMMA TsAdvance == ASSUME NEW i \in RingSlot PROVE NextSlot(i) \in RingSlot
BY RingAssumption DEF RingSlot, NextSlot

LEMMA TsTypesNext ==
  ASSUME TsTypes, PassInv, [TsNext]_(tsVars)
  PROVE  TsTypes'
<1> USE DEF TsTypes, Draining, hardware, tsRing, settings, tsGhosts, caller
<1>1. ASSUME NEW e \in EventId, Capture(e) PROVE TsTypes'
  <2>1. [id |-> e, n |-> captured + 1] \in Event
    BY <1>1, BoundAssumption DEF Capture, Event
  <2>2. fifo' \in Seq(Event)
    BY <1>1, <2>1, AppendProperties DEF Capture
  <2> QED
    BY <1>1, <2>2 DEF Capture
<1>2. CASE PollInterrupt \/ PollQuiet \/ ReadStatus \/ ClearStatus
  BY <1>2 DEF PollInterrupt, PollQuiet, ReadStatus, ClearStatus, Goes
<1>3. CASE ReadDepth
  BY <1>3, LenProperties DEF ReadDepth
<1>4. CASE NextEntry
  <2>1. timesync.depth - 1 \in Nat
    BY <1>4 DEF NextEntry
  <2>2. CASE fifo = <<>>
    BY <1>4, <2>1, <2>2 DEF NextEntry
  <2>3. CASE fifo # <<>>
    <3>1. Head(fifo) \in Entry /\ Tail(fifo) \in Seq(Event) /\ NoEvent \in Entry
      BY <2>3, HeadTailProperties DEF Entry
    <3>2. PICK wanted \in BOOLEAN :
            /\ cb_events' = (cb_events \/ wanted) /\ fifo' = Tail(fifo)
            /\ timesync' = [timesync EXCEPT !.depth = @ - 1,
                                            !.pc = IF wanted THEN "enqueue" ELSE "drain",
                                            !.ev = IF wanted THEN Head(fifo) ELSE NoEvent]
            /\ UNCHANGED <<intsts, latch, edge, captured, overrun, missed, event_ring,
                           er_producer_idx, er_consumer_idx, er_sem, task>>
      BY <1>4, <2>3 DEF NextEntry
    <3> QED
      BY <2>1, <3>1, <3>2
  <2> QED
    BY <2>2, <2>3
<1>5. CASE Acknowledge
  <2>1. timesync' = [timesync EXCEPT !.pc = IF cb_events THEN "give" ELSE "poll"]
    BY <1>5 DEF Acknowledge, Goes
  <2>2. PICK again \in {FALSE, intsts} :
          /\ latch' = again /\ edge' = (edge \/ again)
          /\ missed' = (missed \/ (intsts /\ ~again))
    BY <1>5 DEF Acknowledge
  <2>3. latch' \in BOOLEAN /\ edge' \in BOOLEAN /\ missed' \in BOOLEAN
    BY <2>2
  <2> QED
    BY <1>5, <2>1, <2>3 DEF Acknowledge
<1>6. CASE TodGet
  <2>1. fifo' \in Seq(Event)
    <3>1. fifo' = fifo \/ fifo' = <<>> \/ (fifo # <<>> /\ fifo' = Tail(fifo))
      BY <1>6 DEF TodGet, TodCapture, TodRead
    <3>2. <<>> \in Seq(Event)
      BY EmptySeq
    <3>3. fifo # <<>> => Tail(fifo) \in Seq(Event)
      BY HeadTailProperties
    <3> QED
      BY <3>1, <3>2, <3>3
  <2> QED
    BY <1>6, <2>1 DEF TodGet, TodCapture, TodRead
<1>7. CASE PassDone
  BY <1>7 DEF PassDone
<1>8. CASE Enqueue
  BY <1>8 DEF Enqueue, Goes
<1>9. CASE Overflow \/ SetFull \/ Give
  BY <1>9 DEF Overflow, SetFull, Give, NextDrain, Goes, Entry
<1>10. CASE AdvanceProducer
  <2>1. er_producer_idx' \in RingSlot /\ timesync' \in [pc : {"full", "drain"},
                     sts : BOOLEAN, depth : Nat, ev : Entry]
    <3>1. CASE RingFull
      <4>1. er_producer_idx' = er_producer_idx /\ timesync' = [timesync EXCEPT !.pc = "full"]
        BY <1>10, <3>1 DEF AdvanceProducer, Goes
      <4> QED
        BY <4>1
    <3>2. CASE ~RingFull
      <4>1. /\ er_producer_idx' = NextSlot(er_producer_idx)
            /\ timesync' = [timesync EXCEPT !.pc = "drain", !.ev = NoEvent]
        BY <1>10, <3>2 DEF AdvanceProducer, NextDrain
      <4> QED
        BY <4>1, TsAdvance DEF Entry
    <3> QED
      BY <3>1, <3>2
  <2>2. overrun' \in BOOLEAN
    <3>1. overrun' = overrun \/ overrun' = (overrun \/ Laps)
      BY <1>10 DEF AdvanceProducer
    <3> QED
      BY <3>1
  <2> QED
    BY <1>10, <2>1, <2>2 DEF AdvanceProducer
<1>11. CASE EventTask
  <2>1. CASE Dequeue
    BY <2>1 DEF Dequeue
  <2>2. CASE Called
    <3>1. er_consumer_idx' \in RingSlot
      BY <2>2, TsAdvance DEF Called
    <3> QED
      BY <2>2, <3>1 DEF Called
  <2>3. CASE ClearRingStatus
    BY <2>3 DEF ClearRingStatus, Loop
  <2>4. CASE RingDrained
    BY <2>4 DEF RingDrained
  <2>5. CASE TaskWake
    BY <2>5 DEF TaskWake
  <2> QED
    BY <1>11, <2>1, <2>2, <2>3, <2>4, <2>5 DEF EventTask
<1>12. CASE ConfigStep
  BY <1>12 DEF ConfigStep, CopyConfig, SetMask, SetDefault
<1>13. ASSUME NEW e \in EventId, NEW on \in BOOLEAN, NEW fn \in {NONE, "function"},
              Configure(e, on, fn)
       PROVE  TsTypes'
  BY <1>13 DEF Configure
<1>14. CASE UNCHANGED tsVars
  BY <1>14 DEF tsVars
<1> QED
  BY <1>1, <1>2, <1>3, <1>4, <1>5, <1>6, <1>7, <1>8, <1>9, <1>10, <1>11, <1>12, <1>13,
     <1>14 DEF TsNext, Handler

LEMMA PassInit == ASSUME TsInit PROVE PassInv
BY EmptySeq, BoundAssumption DEF TsInit, PassInv, Draining

LEMMA PassNext ==
  ASSUME TsTypes, PassInv, [TsNext]_(tsVars)
  PROVE  PassInv'
<1> USE DEF PassInv, Draining
<1>0. /\ timesync \in [pc : {"poll", "give", "status", "clear", "depth", "ack"} \cup Draining,
                       sts : BOOLEAN, depth : Nat, ev : Entry]
      /\ intsts \in BOOLEAN /\ edge \in BOOLEAN /\ latch \in BOOLEAN /\ missed \in BOOLEAN
      /\ fifo \in Seq(Event) /\ Len(fifo) \in Nat /\ FIFO \in Nat
  BY LenProperties, BoundAssumption DEF TsTypes
<1>1. ASSUME NEW e \in EventId, Capture(e) PROVE PassInv'
  <2>1. /\ intsts' = TRUE /\ latch' = (latch \/ ~intsts) /\ timesync' = timesync
        /\ edge' = (edge \/ (~latch /\ ~intsts)) /\ missed' = missed
    BY <1>1 DEF Capture
  <2>2. timesync.pc \in {"poll", "give"} /\ ~edge' => ~latch' /\ missed
    BY <1>0, <2>1
  <2>3. [id |-> e, n |-> captured + 1] \in Event
    BY <1>1, BoundAssumption DEF Capture, Event, TsTypes
  <2>4. Len(fifo') = Len(fifo) + 1 /\ Len(fifo) < FIFO
    BY <1>0, <1>1, <2>3, AppendProperties DEF Capture
  <2>5. Len(fifo') <= FIFO
    BY <1>0, <2>4
  <2> QED
    BY <1>0, <2>1, <2>2, <2>5
<1>2. CASE PollInterrupt
  BY <1>0, <1>2 DEF PollInterrupt, Goes
<1>3. CASE PollQuiet
  BY <1>0, <1>3 DEF PollQuiet, Goes, hardware
<1>4. CASE ReadStatus
  BY <1>0, <1>4 DEF ReadStatus, hardware
<1>5. CASE ClearStatus
  BY <1>0, <1>5 DEF ClearStatus, Goes
<1>6. CASE ReadDepth
  BY <1>0, <1>6 DEF ReadDepth, hardware
<1>7. CASE NextEntry
  <2>1. /\ timesync.pc = "drain" /\ timesync.depth > 0
        /\ UNCHANGED <<intsts, edge, latch, missed>>
    BY <1>7 DEF NextEntry
  <2>2. /\ timesync'.depth = timesync.depth - 1 /\ timesync'.pc \in {"enqueue", "drain"}
    <3>1. CASE fifo = <<>>
      BY <1>0, <1>7, <3>1 DEF NextEntry
    <3>2. CASE fifo # <<>>
      <4>1. PICK wanted \in BOOLEAN :
              timesync' = [timesync EXCEPT !.depth = @ - 1,
                                           !.pc = IF wanted THEN "enqueue" ELSE "drain",
                                           !.ev = IF wanted THEN Head(fifo) ELSE NoEvent]
        BY <1>7, <3>2 DEF NextEntry
      <4> QED
        BY <1>0, <4>1
    <3> QED
      BY <3>1, <3>2
  <2>3. Len(fifo') = 0 \/ Len(fifo') = Len(fifo) - 1
    BY <1>0, <1>7, EmptySeq, HeadTailProperties DEF NextEntry
  <2> QED
    BY <1>0, <2>1, <2>2, <2>3
<1>8. CASE PassDone
  <2>1. /\ timesync.pc = "drain" /\ timesync.depth = 0 /\ timesync'.depth = 0
        /\ timesync'.pc \in {"status", "ack"}
        /\ UNCHANGED <<fifo, intsts, latch, edge, missed>>
    BY <1>0, <1>8 DEF PassDone, hardware
  <2>2. Len(fifo) <= 0 => fifo = <<>>
    BY <1>0, EmptySeq
  <2> QED
    BY <1>0, <2>1, <2>2
<1>9. CASE Acknowledge
  <2>1. /\ timesync.pc = "ack" /\ timesync'.depth = timesync.depth
        /\ timesync'.pc \in {"give", "poll"} /\ UNCHANGED <<fifo, intsts>>
    BY <1>0, <1>9 DEF Acknowledge, Goes
  <2>2. PICK again \in {FALSE, intsts} :
          /\ latch' = again /\ edge' = (edge \/ again)
          /\ missed' = (missed \/ (intsts /\ ~again))
    BY <1>9 DEF Acknowledge
  <2>3. ~edge' => ~latch' /\ (~missed' => ~intsts')
    BY <1>0, <2>1, <2>2
  <2> QED
    BY <1>0, <2>1, <2>3
<1>10. CASE Enqueue
  BY <1>0, <1>10 DEF Enqueue, Goes, hardware
<1>11. CASE Overflow \/ SetFull
  <2>1. /\ timesync.pc \in {"overflow", "full"}
        /\ UNCHANGED <<fifo, intsts, latch, edge, missed>>
        /\ timesync' = [timesync EXCEPT !.pc = "drain", !.ev = NoEvent]
    BY <1>11 DEF Overflow, SetFull, NextDrain, hardware
  <2>2. timesync'.pc = "drain" /\ timesync'.depth = timesync.depth
    BY <1>0, <2>1
  <2> QED
    BY <1>0, <2>1, <2>2
<1>12. CASE AdvanceProducer
  BY <1>0, <1>12 DEF AdvanceProducer, NextDrain, Goes, hardware
<1>13. CASE Give
  BY <1>0, <1>13 DEF Give, Goes, hardware
<1>14. ASSUME UNCHANGED <<timesync, fifo, intsts, latch, edge, missed>> PROVE PassInv'
  BY <1>14
<1>15. CASE EventTask
  BY <1>14, <1>15 DEF EventTask, Dequeue, Called, ClearRingStatus, RingDrained,
                      TaskWake, hardware
<1>16. CASE ConfigStep
  BY <1>14, <1>16 DEF ConfigStep, CopyConfig, SetMask, SetDefault, hardware
<1>17. ASSUME NEW e \in EventId, NEW on \in BOOLEAN, NEW fn \in {NONE, "function"},
              Configure(e, on, fn)
       PROVE  PassInv'
  BY <1>14, <1>17 DEF Configure
<1>18. CASE UNCHANGED tsVars
  BY <1>14, <1>18 DEF tsVars, hardware
<1>19. CASE TodCapture
  BY <1>14, <1>19 DEF TodCapture
<1>20. CASE TodRead
  <2>1. /\ fifo' = <<>> \/ (fifo # <<>> /\ fifo' = Tail(fifo))
        /\ UNCHANGED <<timesync, intsts, latch, edge, missed>>
    BY <1>20 DEF TodRead
  <2>2. Len(fifo') <= Len(fifo) /\ (fifo = <<>> => fifo' = <<>>)
    BY <1>0, <2>1, EmptySeq, HeadTailProperties
  <2> QED
    BY <1>0, <2>1, <2>2
<1> QED
  BY <1>1, <1>2, <1>3, <1>4, <1>5, <1>6, <1>7, <1>8, <1>9, <1>10, <1>11, <1>12, <1>13,
     <1>15, <1>16, <1>17, <1>18, <1>19, <1>20 DEF TsNext, Handler, TodGet

LEMMA TsWakeInit == ASSUME TsInit PROVE TsWakeInv
BY DEF TsInit, Loop, TsWakeInv, Draining, Queueing

LEMMA TsWakeNext ==
  ASSUME TsTypes, TsWakeInv, [TsNext]_(tsVars)
  PROVE  TsWakeInv'
<1> USE DEF TsWakeInv, Queueing, Draining, tsRing
<1>0. /\ timesync \in [pc : {"poll", "give", "status", "clear", "depth", "ack"} \cup Draining,
                       sts : BOOLEAN, depth : Nat, ev : Entry]
      /\ er_sem \in {0, 1} /\ cb_events \in BOOLEAN
      /\ task = [pc |-> task.pc, slot |-> task.slot, ev |-> task.ev, cb |-> task.cb]
  BY DEF TsTypes
<1>u. ASSUME UNCHANGED <<timesync, task, cb_events, er_sem, er_consumer_idx, er_producer_idx>>
      PROVE  TsWakeInv'
  BY <1>u
<1>1. ASSUME NEW e \in EventId, Capture(e) PROVE TsWakeInv'
  BY <1>u, <1>1 DEF Capture
<1>2. CASE PollInterrupt
  BY <1>0, <1>2 DEF PollInterrupt, Goes
<1>3. CASE PollQuiet
  BY <1>0, <1>3 DEF PollQuiet, Goes
<1>4. CASE ReadStatus \/ ClearStatus \/ ReadDepth
  BY <1>0, <1>4 DEF ReadStatus, ClearStatus, ReadDepth, Goes
<1>5. CASE NextEntry
  <2>1. PICK wanted \in BOOLEAN :
          /\ cb_events' = (cb_events \/ wanted)
          /\ timesync'.pc = (IF wanted THEN "enqueue" ELSE "drain")
          /\ timesync.pc = "drain"
          /\ UNCHANGED <<task, er_sem, er_consumer_idx, er_producer_idx>>
    <3>1. CASE fifo = <<>>
      <4>1. /\ timesync.pc = "drain" /\ timesync' = [timesync EXCEPT !.depth = @ - 1]
            /\ UNCHANGED <<cb_events, task, er_sem, er_consumer_idx, er_producer_idx>>
        BY <1>5, <3>1 DEF NextEntry
      <4>2. timesync'.pc = "drain" /\ cb_events' = (cb_events \/ FALSE)
        BY <1>0, <4>1
      <4> QED
        BY <4>1, <4>2
    <3>2. CASE fifo # <<>>
      <4>1. PICK wanted \in BOOLEAN :
              /\ cb_events' = (cb_events \/ wanted)
              /\ timesync' = [timesync EXCEPT !.depth = @ - 1,
                                              !.pc = IF wanted THEN "enqueue" ELSE "drain",
                                              !.ev = IF wanted THEN Head(fifo) ELSE NoEvent]
              /\ timesync.pc = "drain"
              /\ UNCHANGED <<task, er_sem, er_consumer_idx, er_producer_idx>>
        BY <1>5, <3>2 DEF NextEntry
      <4>2. timesync'.pc = (IF wanted THEN "enqueue" ELSE "drain")
        BY <1>0, <4>1
      <4> QED
        BY <4>1, <4>2
    <3> QED
      BY <3>1, <3>2
  <2>2. timesync'.pc = (IF wanted THEN "enqueue" ELSE "drain")
    BY <2>1
  <2>3. CASE wanted
    <3>1. cb_events'
      BY <2>1, <2>3
    <3> QED
      BY <2>2, <2>3, <3>1
  <2>4. CASE ~wanted
    BY <1>0, <2>1, <2>2, <2>4
  <2> QED
    BY <2>3, <2>4
<1>6. CASE PassDone
  BY <1>0, <1>6 DEF PassDone
<1>7. CASE Acknowledge
  <2>1. /\ timesync.pc = "ack" /\ timesync'.pc = (IF cb_events THEN "give" ELSE "poll")
        /\ UNCHANGED <<cb_events, task, er_sem, er_consumer_idx, er_producer_idx>>
    BY <1>0, <1>7 DEF Acknowledge, Goes
  <2> QED
    BY <2>1
<1>8. CASE TodGet
  BY <1>u, <1>8 DEF TodGet, TodCapture, TodRead
<1>9. CASE Enqueue
  BY <1>0, <1>9 DEF Enqueue, Goes
<1>10. CASE Overflow \/ SetFull
  BY <1>0, <1>10 DEF Overflow, SetFull, NextDrain
<1>11. CASE AdvanceProducer
  <2>1. /\ cb_events /\ UNCHANGED <<cb_events, task, er_sem, er_consumer_idx>>
        /\ timesync'.pc \in {"full", "drain"}
    BY <1>0, <1>11 DEF AdvanceProducer, NextDrain, Goes
  <2> QED
    BY <2>1
<1>12. CASE Give
  BY <1>0, <1>12 DEF Give, Goes
<1>13. CASE Dequeue \/ Called \/ ClearRingStatus \/ TaskWake
  <2>1. task'.pc # "take" /\ UNCHANGED <<timesync, cb_events>>
    BY <1>0, <1>13 DEF Dequeue, Called, ClearRingStatus, Loop, TaskWake
  <2> QED
    BY <2>1
<1>14. CASE RingDrained
  BY <1>0, <1>14 DEF RingDrained
<1>15. CASE ConfigStep
  BY <1>u, <1>15 DEF ConfigStep, CopyConfig, SetMask, SetDefault
<1>16. ASSUME NEW e \in EventId, NEW on \in BOOLEAN, NEW fn \in {NONE, "function"},
              Configure(e, on, fn)
       PROVE  TsWakeInv'
  BY <1>u, <1>16 DEF Configure
<1>17. CASE UNCHANGED tsVars
  BY <1>u, <1>17 DEF tsVars
<1> QED
  BY <1>1, <1>2, <1>3, <1>4, <1>5, <1>6, <1>7, <1>8, <1>9, <1>10, <1>11, <1>12, <1>13,
     <1>14, <1>15, <1>16, <1>17 DEF TsNext, Handler, EventTask

LEMMA PlaceFacts ==
  ASSUME NEW c \in RingSlot
  PROVE  /\ Place(c, 1) = c
         /\ \A i \in 1 .. RING : Place(c, i) \in RingSlot
         /\ \A i \in 1 .. RING - 1 : /\ Place(c, i + 1) = NextSlot(Place(c, i))
                                     /\ Place(NextSlot(c), i) = Place(c, i + 1)
         /\ \A i, j \in 1 .. RING : i # j => Place(c, i) # Place(c, j)
BY RingAssumption DEF RingSlot, Place, NextSlot

\* The number of events queued, from the two indices.
LEMMA PlaceDistance ==
  ASSUME RING \in Nat \ {0}, NEW c \in 0 .. RING - 1, NEW n \in 0 .. RING - 1
  PROVE  (Place(c, n + 1) + RING - c) % RING = n
<1>1. CASE c + n >= RING
  BY <1>1, ModStep DEF Place
<1>2. CASE c + n < RING
  <2>1. Place(c, n + 1) = c + n
    BY <1>2 DEF Place
  <2>2. Place(c, n + 1) + RING - c = n + RING
    BY <2>1
  <2> QED
    BY <2>2, ModStep
<1> QED
  BY <1>1, <1>2

LEMMA TsOrderInit == ASSUME TsInit PROVE TsRingInv
BY EmptySeq, RingAssumption DEF TsInit, Loop, TsRingInv, TsOrderInv, Place

\* A step that leaves the ring and its history alone and begins neither a callback nor the
\* index of a new event.
LEMMA TsOrderQuiet ==
  ASSUME TsRingInv,
         UNCHANGED <<event_ring, er_producer_idx, er_consumer_idx, pending, overrun>>,
         timesync'.pc = "index" => UNCHANGED timesync,
         task'.pc = "callback" => UNCHANGED task
  PROVE  TsRingInv'
BY DEF TsRingInv, TsOrderInv

LEMMA TsOrderFacts ==
  ASSUME TsTypes, TsOrderInv
  PROVE  /\ RING \in Nat /\ RING > 1 /\ Len(pending) \in 0 .. RING - 1
         /\ er_consumer_idx \in RingSlot /\ er_producer_idx \in RingSlot
         /\ event_ring \in [RingSlot -> Entry] /\ timesync.ev \in Entry
         /\ \A i \in 1 .. Len(pending) : pending[i] \in Entry
         /\ er_producer_idx = er_consumer_idx <=> Len(pending) = 0
<1>1. /\ RING \in Nat /\ RING > 1 /\ Len(pending) \in 0 .. RING - 1
      /\ \A i \in 1 .. Len(pending) : pending[i] \in Entry
  BY LenProperties, ElementOfSeq, RingAssumption DEF TsOrderInv
<1>2. /\ er_consumer_idx \in RingSlot /\ er_producer_idx \in RingSlot
      /\ event_ring \in [RingSlot -> Entry] /\ timesync.ev \in Entry
  BY DEF TsTypes
<1>3. er_producer_idx = er_consumer_idx <=> Len(pending) = 0
  <2>1. er_producer_idx = Place(er_consumer_idx, Len(pending) + 1)
    BY DEF TsOrderInv
  <2> QED
    BY <1>1, <1>2, <2>1 DEF Place, RingSlot
<1> QED
  BY <1>1, <1>2, <1>3

\* The slot at the producer's index holds none of the pending events.
LEMMA EnqueueKeeps ==
  ASSUME TsTypes, TsRingInv, Enqueue
  PROVE  TsRingInv'
<1> SUFFICES ASSUME ~overrun PROVE TsOrderInv'
  BY DEF TsRingInv, Enqueue, tsGhosts
<1> DEFINE n == Len(pending)
           c == er_consumer_idx
<1>1. /\ TsOrderInv /\ timesync.pc = "enqueue"
      /\ UNCHANGED <<er_producer_idx, er_consumer_idx, pending, task>>
  BY DEF TsRingInv, Enqueue, tsGhosts
<1>2. CASE er_status = "FULL"
  <2>1. event_ring' = event_ring /\ timesync' = [timesync EXCEPT !.pc = "overflow"]
    BY <1>2 DEF Enqueue, Goes
  <2>2. timesync'.pc = "overflow"
    BY <2>1 DEF TsTypes
  <2> QED
    BY <1>1, <2>1, <2>2 DEF TsOrderInv
<1>3. CASE er_status # "FULL"
  <2>1. /\ event_ring' = [event_ring EXCEPT ![er_producer_idx] = timesync.ev]
        /\ timesync' = [timesync EXCEPT !.pc = "index"]
    BY <1>3 DEF Enqueue, Goes
  <2>2. timesync'.ev = timesync.ev
    BY <2>1 DEF TsTypes
  <2>3. event_ring'[er_producer_idx] = timesync.ev
    BY <1>1, <2>1, TsOrderFacts
  <2>4. ASSUME NEW i \in 1 .. n PROVE event_ring'[Place(c, i)] = event_ring[Place(c, i)]
    <3>1. i \in 1 .. RING /\ n + 1 \in 1 .. RING /\ i # n + 1
      BY <1>1, TsOrderFacts
    <3>2. Place(c, i) # Place(c, n + 1) /\ Place(c, i) \in RingSlot
      BY <1>1, <3>1, PlaceFacts, TsOrderFacts
    <3>3. er_producer_idx = Place(c, n + 1)
      BY <1>1 DEF TsOrderInv
    <3> QED
      BY <1>1, <2>1, <3>2, <3>3, TsOrderFacts
  <2> QED
    BY <1>1, <2>2, <2>3, <2>4 DEF TsOrderInv
<1> QED
  BY <1>2, <1>3

\* The producer that is not at the slot before the consumer's makes one more event visible.
LEMMA AdvanceKeeps ==
  ASSUME TsTypes, TsRingInv, AdvanceProducer
  PROVE  TsRingInv'
<1> DEFINE n == Len(pending)
           c == er_consumer_idx
<1>0. /\ timesync.pc = "index" /\ UNCHANGED <<event_ring, er_consumer_idx, task>>
  BY DEF AdvanceProducer
<1>1. CASE RingFull
  <2>1. /\ UNCHANGED <<er_producer_idx, pending, overrun>>
        /\ timesync' = [timesync EXCEPT !.pc = "full"]
    BY <1>1 DEF AdvanceProducer, Goes, tsGhosts
  <2>2. timesync'.pc = "full"
    BY <2>1 DEF TsTypes
  <2> QED
    BY <1>0, <2>1, <2>2, TsOrderQuiet
<1>2. CASE ~RingFull
  <2>1. /\ er_producer_idx' = NextSlot(er_producer_idx)
        /\ pending' = Append(pending, timesync.ev) /\ overrun' = (overrun \/ Laps)
        /\ timesync' = [timesync EXCEPT !.pc = "drain", !.ev = NoEvent]
    BY <1>2 DEF AdvanceProducer, NextDrain
  <2>2. timesync'.pc = "drain"
    BY <2>1 DEF TsTypes
  <2> SUFFICES ASSUME ~overrun, ~Laps PROVE TsOrderInv'
    BY <2>1 DEF TsRingInv
  <2>3. TsOrderInv
    BY DEF TsRingInv
  <2>4. /\ pending \in Seq(Entry) /\ er_producer_idx = Place(c, n + 1)
        /\ event_ring[er_producer_idx] = timesync.ev
        /\ \A i \in 1 .. n : pending[i] = event_ring[Place(c, i)]
    BY <1>0, <2>3 DEF TsOrderInv
  <2>5. n + 1 < RING
    BY <1>2, <2>3, <2>4, TsOrderFacts
       DEF RingFull, Laps, NextSlot, Place, RingSlot
  <2>6. /\ pending' \in Seq(Entry) /\ Len(pending') = n + 1
        /\ pending'[n + 1] = timesync.ev /\ \A i \in 1 .. n : pending'[i] = pending[i]
    BY <2>1, <2>3, <2>4, TsOrderFacts, AppendProperties
  <2>7. er_producer_idx' = Place(c, (n + 1) + 1)
    <3>1. n + 1 \in 1 .. RING - 1
      BY <2>3, <2>5, TsOrderFacts
    <3> QED
      BY <2>1, <2>3, <2>4, <3>1, PlaceFacts, TsOrderFacts
  <2>8. \A i \in 1 .. n + 1 : pending'[i] = event_ring[Place(c, i)]
    <3> SUFFICES ASSUME NEW i \in 1 .. n + 1 PROVE pending'[i] = event_ring[Place(c, i)]
      OBVIOUS
    <3>1. i \in 1 .. n \/ i = n + 1
      BY <2>3, TsOrderFacts
    <3> QED
      BY <2>4, <2>6, <3>1
  <2>9. Len(pending') > 0
    BY <2>3, <2>6, TsOrderFacts
  <2> QED
    BY <1>0, <2>2, <2>5, <2>6, <2>7, <2>8, <2>9 DEF TsOrderInv
<1> QED
  BY <1>1, <1>2

LEMMA CalledKeeps ==
  ASSUME TsTypes, TsRingInv, Called
  PROVE  TsRingInv'
<1> SUFFICES ASSUME ~overrun PROVE TsOrderInv'
  BY DEF TsRingInv, Called
<1> DEFINE n == Len(pending)
           c == er_consumer_idx
<1>1. /\ TsOrderInv /\ n > 0 /\ pending \in Seq(Entry) /\ er_producer_idx = Place(c, n + 1)
      /\ er_consumer_idx' = NextSlot(c) /\ task' = [task EXCEPT !.pc = "status"]
      /\ UNCHANGED <<event_ring, er_producer_idx, timesync>>
      /\ pending' = IF pending = <<>> THEN <<>> ELSE Tail(pending)
  BY DEF TsRingInv, TsOrderInv, Called
<1>2. pending # <<>>
  BY <1>1, EmptySeq
<1>3. /\ pending' \in Seq(Entry) /\ Len(pending') = n - 1
      /\ \A i \in 1 .. n - 1 : pending'[i] = pending[i + 1]
  BY <1>1, <1>2, HeadTailProperties
<1>4. n \in 1 .. RING - 1
  BY <1>1, TsOrderFacts
<1>5. \A i \in 1 .. RING - 1 : Place(NextSlot(c), i) = Place(c, i + 1)
  BY <1>1, PlaceFacts, TsOrderFacts
<1>6. er_producer_idx = Place(NextSlot(c), (n - 1) + 1)
  BY <1>1, <1>4, <1>5
<1>7. ASSUME NEW i \in 1 .. n - 1 PROVE pending'[i] = event_ring[Place(NextSlot(c), i)]
  <2>1. i + 1 \in 1 .. n /\ i \in 1 .. RING - 1
    BY <1>1, <1>4, TsOrderFacts
  <2> QED
    BY <1>1, <1>3, <1>5, <2>1 DEF TsOrderInv
<1>8. task'.pc = "status"
  BY <1>1 DEF TsTypes
<1>9. Len(pending') < RING
  BY <1>3, <1>4, <1>1, TsOrderFacts
<1> QED
  BY <1>1, <1>3, <1>6, <1>7, <1>8, <1>9 DEF TsOrderInv

LEMMA TsOrderNext ==
  ASSUME TsTypes, TsRingInv, [TsNext]_(tsVars)
  PROVE  TsRingInv'
<1> USE DEF tsRing, tsGhosts
<1>0. /\ timesync \in [pc : {"poll", "give", "status", "clear", "depth", "ack"} \cup Draining,
                       sts : BOOLEAN, depth : Nat, ev : Entry]
      /\ task = [pc |-> task.pc, slot |-> task.slot, ev |-> task.ev, cb |-> task.cb]
  BY DEF TsTypes
<1>1. ASSUME NEW e \in EventId, Capture(e) PROVE TsRingInv'
  BY <1>1, TsOrderQuiet DEF Capture
<1>2. CASE PollInterrupt \/ PollQuiet \/ ReadStatus \/ ClearStatus \/ ReadDepth
  <2>1. timesync'.pc # "index"
    BY <1>0, <1>2 DEF PollInterrupt, PollQuiet, ReadStatus, ClearStatus,
                     ReadDepth, Goes
  <2> QED
    BY <1>2, <2>1, TsOrderQuiet DEF PollInterrupt, PollQuiet, ReadStatus,
                                    ClearStatus, ReadDepth
<1>3. CASE NextEntry
  <2>1. CASE fifo = <<>>
    BY <1>0, <1>3, <2>1, TsOrderQuiet DEF NextEntry
  <2>2. CASE fifo # <<>>
    <3>1. PICK wanted \in BOOLEAN :
            timesync' = [timesync EXCEPT !.depth = @ - 1,
                                         !.pc = IF wanted THEN "enqueue" ELSE "drain",
                                         !.ev = IF wanted THEN Head(fifo) ELSE NoEvent]
      BY <1>3, <2>2 DEF NextEntry
    <3>2. timesync'.pc # "index"
      BY <1>0, <3>1
    <3> QED
      BY <1>3, <3>2, TsOrderQuiet DEF NextEntry
  <2> QED
    BY <2>1, <2>2
<1>4. CASE Acknowledge
  <2>1. timesync'.pc # "index"
    BY <1>0, <1>4 DEF Acknowledge, Goes
  <2> QED
    BY <1>4, <2>1, TsOrderQuiet DEF Acknowledge
<1>5. CASE TodGet
  BY <1>5, TsOrderQuiet DEF TodGet, TodCapture, TodRead
<1>6. CASE PassDone
  <2>1. timesync'.pc # "index"
    BY <1>0, <1>6 DEF PassDone
  <2> QED
    BY <1>6, <2>1, TsOrderQuiet DEF PassDone
<1>7. CASE Enqueue
  BY <1>7, EnqueueKeeps
<1>8. CASE Overflow \/ SetFull \/ Give
  <2>1. timesync'.pc # "index"
    BY <1>0, <1>8 DEF Overflow, SetFull, Give, NextDrain, Goes
  <2> QED
    BY <1>8, <2>1, TsOrderQuiet DEF Overflow, SetFull, Give
<1>9. CASE AdvanceProducer
  BY <1>9, AdvanceKeeps
<1>10. CASE Dequeue
  <2> SUFFICES ASSUME ~overrun PROVE TsOrderInv'
    BY <1>10 DEF TsRingInv, Dequeue
  <2>1. TsOrderInv /\ er_consumer_idx # er_producer_idx
    BY <1>10 DEF TsRingInv, Dequeue
  <2>2. Len(pending) > 0
    BY <2>1, TsOrderFacts
  <2> QED
    BY <1>10, <2>1, <2>2 DEF TsOrderInv, Dequeue
<1>11. CASE Called
  BY <1>11, CalledKeeps
<1>12. CASE ClearRingStatus \/ RingDrained \/ TaskWake
  <2>1. task'.pc # "callback"
    BY <1>0, <1>12 DEF ClearRingStatus, RingDrained, TaskWake, Loop
  <2> QED
    BY <1>12, <2>1, TsOrderQuiet DEF ClearRingStatus, RingDrained, TaskWake
<1>13. CASE ConfigStep
  BY <1>13, TsOrderQuiet DEF ConfigStep, CopyConfig, SetMask, SetDefault
<1>14. ASSUME NEW e \in EventId, NEW on \in BOOLEAN, NEW fn \in {NONE, "function"},
              Configure(e, on, fn)
       PROVE  TsRingInv'
  BY <1>14, TsOrderQuiet DEF Configure
<1>15. CASE UNCHANGED tsVars
  BY <1>15, TsOrderQuiet DEF tsVars
<1> QED
  BY <1>1, <1>2, <1>3, <1>4, <1>5, <1>6, <1>7, <1>8, <1>9, <1>10, <1>11, <1>12, <1>13,
     <1>14, <1>15 DEF TsNext, Handler, EventTask

LEMMA TsInvariant ==
  TsSpec => [](TsTypes /\ PassInv /\ TsWakeInv /\ TsRingInv)
<1> DEFINE Inv == TsTypes /\ PassInv /\ TsWakeInv /\ TsRingInv
<1>1. TsInit => Inv
  BY TsTypesInit, PassInit, TsWakeInit, TsOrderInit
<1>2. Inv /\ [TsNext]_(tsVars) => Inv'
  BY TsTypesNext, PassNext, TsWakeNext, TsOrderNext
<1> QED
  BY <1>1, <1>2, PTL DEF TsSpec

(* What TsTypes leaves out: what a configuration writes.                         *)
CallRecord ==
    config = [pc |-> config.pc, id |-> config.id, on |-> config.on, fn |-> config.fn]

ConfigTypes ==
    /\ capture \subseteq EventId /\ event_id_mask \subseteq EventId
    /\ event_cb_func \in [EventId -> {NONE, "function", "default"}]
    /\ er_status \in {"none", "FULL", "OVERFLOW"}
    /\ CallRecord
    /\ config.pc # "idle" => config.id \in EventId
    /\ config.fn \in {NONE, "function"}

LEMMA ConfigTypesInit == TsInit => ConfigTypes
BY DEF TsInit, ConfigTypes, NoCall, CallRecord

LEMMA ConfigTypesNext ==
  ASSUME ConfigTypes, [TsNext]_(tsVars)
  PROVE  ConfigTypes'
<1> USE DEF ConfigTypes, hardware, tsRing, settings, tsGhosts, caller
<1>1. ASSUME NEW e \in EventId, Capture(e) PROVE ConfigTypes'
  BY <1>1 DEF Capture, CallRecord
<1>2. CASE NextEntry \/ Acknowledge
  BY <1>2 DEF NextEntry, Acknowledge, CallRecord
<1>3. CASE TodGet
  BY <1>3, EventAssumption DEF TodGet, TodCapture, TodRead, CallRecord
<1>4. CASE PollInterrupt \/ PollQuiet \/ ReadStatus \/ ClearStatus \/ ReadDepth \/ PassDone \/ Give
  BY <1>4 DEF PollInterrupt, PollQuiet, ReadStatus, ClearStatus, ReadDepth, PassDone, Give, CallRecord
<1>5. CASE Enqueue \/ Overflow \/ AdvanceProducer \/ SetFull
  BY <1>5 DEF Enqueue, Overflow, AdvanceProducer, SetFull, CallRecord
<1>6. CASE EventTask
  BY <1>6 DEF EventTask, Dequeue, Called, ClearRingStatus, RingDrained, TaskWake, CallRecord
<1>7. CASE CopyConfig \/ SetDefault
  <2>1. /\ config.pc # "idle"
        /\ \/ event_cb_func' = [event_cb_func EXCEPT ![config.id] = config.fn]
           \/ event_cb_func' = [event_cb_func EXCEPT ![config.id] = "default"]
        /\ config' = [config EXCEPT !.pc = "mask"] \/ config' = NoCall
        /\ UNCHANGED <<capture, er_status, event_id_mask>>
    BY <1>7 DEF CopyConfig, SetDefault
  <2>2. event_cb_func' \in [EventId -> {NONE, "function", "default"}]
    BY <2>1
  <2>3. CallRecord' /\ config'.fn \in {NONE, "function"} /\ (config'.pc # "idle" => config'.id \in EventId)
    <3>1. CASE config' = NoCall
      BY <3>1 DEF NoCall, CallRecord
    <3>2. CASE config' = [config EXCEPT !.pc = "mask"]
      <4>1. config' = [pc |-> "mask", id |-> config.id, on |-> config.on, fn |-> config.fn]
        BY <3>2 DEF CallRecord
      <4> QED
        BY <2>1, <4>1 DEF CallRecord
    <3> QED
      BY <2>1, <3>1, <3>2
  <2> QED
    BY <2>1, <2>2, <2>3
<1>8. CASE SetMask
  <2>1. /\ config.pc # "idle" /\ event_id_mask' \subseteq event_id_mask \cup {config.id}
        /\ config' = [config EXCEPT !.pc = "default"] \/ config' = NoCall
        /\ UNCHANGED <<capture, er_status, event_cb_func>>
    BY <1>8 DEF SetMask
  <2>2. CallRecord' /\ config'.fn \in {NONE, "function"} /\ (config'.pc # "idle" => config'.id \in EventId)
    <3>1. CASE config' = NoCall
      BY <3>1 DEF NoCall, CallRecord
    <3>2. CASE config' = [config EXCEPT !.pc = "default"]
      <4>1. config' = [pc |-> "default", id |-> config.id, on |-> config.on, fn |-> config.fn]
        BY <3>2 DEF CallRecord
      <4> QED
        BY <2>1, <4>1 DEF CallRecord
    <3> QED
      BY <2>1, <3>1, <3>2
  <2>3. event_id_mask' \subseteq EventId
    BY <2>1
  <2> QED
    BY <2>1, <2>2, <2>3
<1>9. ASSUME NEW e \in EventId, NEW on \in BOOLEAN, NEW fn \in {NONE, "function"},
             Configure(e, on, fn)
      PROVE  ConfigTypes'
  BY <1>9 DEF Configure, CallRecord
<1>10. CASE UNCHANGED tsVars
  BY <1>10 DEF tsVars, CallRecord
<1> QED
  BY <1>1, <1>2, <1>3, <1>4, <1>5, <1>6, <1>7, <1>8, <1>9, <1>10 DEF TsNext, Handler, ConfigStep

\* The FIFO never exceeds its depth, the ring's indices are slots, the semaphore is binary,
\* and the masks and callbacks are of known events.
THEOREM TsEventsTypeOK == TsSpec => []TsTypeOK
<1>1. TsTypes /\ PassInv /\ ConfigTypes => TsTypeOK
  <2> SUFFICES ASSUME TsTypes, PassInv, ConfigTypes PROVE TsTypeOK
    OBVIOUS
  <2>1. timesync.depth \in 0 .. FIFO /\ Len(fifo) <= FIFO
    BY BoundAssumption DEF TsTypes, PassInv
  <2>2. {intsts, latch, edge, cb_events, overrun, missed} \subseteq BOOLEAN
    BY Zenon DEF TsTypes
  <2>3. er_sem \in {0, 1} /\ event_ring \in [RingSlot -> Entry] /\ fifo \in Seq(Event)
    BY DEF TsTypes
  <2> QED
    BY <2>1, <2>2, <2>3 DEF TsTypes, ConfigTypes, TsTypeOK, Entry
<1> QED
  BY <1>1, TsInvariant, ConfigTypesInit, ConfigTypesNext, PTL DEF TsSpec

\* When the TIMESYNC thread polls and no edge waits, its passes have left nothing in the FIFO
\* (rimesync_handler), until the acknowledge behind them has taken the interrupt of an event
\* that came in between.
THEOREM TsFifoDrained == TsSpec => []FifoDrained
<1>1. PassInv => FifoDrained
  BY DEF PassInv, FifoDrained
<1> QED
  BY <1>1, TsInvariant, PTL

\* The event task never sleeps beside events of which nobody will wake it
\* (ts_event_task_wake, ts_event_task).
THEOREM TsNoSleepOnEvents == TsSpec => []NoSleepOnEvents
<1>1. TsWakeInv => NoSleepOnEvents
  BY DEF TsWakeInv, NoSleepOnEvents
<1> QED
  BY <1>1, TsInvariant, PTL

\* Until the producer has lapped the consumer, the ring holds the accepted events in their
\* order, each once (ts_event_enqueue, ts_event_dequeue).
THEOREM TsEventsInOrder == TsSpec => []EventsInOrder
<1>1. TsTypes /\ TsRingInv => EventsInOrder
  <2> SUFFICES ASSUME TsTypes, TsOrderInv PROVE Queued = pending
    BY DEF TsRingInv, EventsInOrder
  <2> DEFINE n == Len(pending)
             c == er_consumer_idx
             p == er_producer_idx
  <2>1. /\ RING \in Nat \ {0} /\ n \in 0 .. RING - 1 /\ c \in 0 .. RING - 1
        /\ p \in 0 .. RING - 1 /\ p = Place(c, n + 1)
    BY TsOrderFacts DEF TsOrderInv, RingSlot
  <2>2. (p + RING - c) % RING = n
    BY <2>1, PlaceDistance
  <2>3. ASSUME NEW i \in 1 .. n PROVE (c + i - 1) % RING = Place(c, i)
    BY <2>1 DEF Place
  <2>4. Queued = [i \in 1 .. n |-> event_ring[(c + i - 1) % RING]]
    BY <2>2 DEF Queued
  <2>5. \A i \in 1 .. n : event_ring[(c + i - 1) % RING] = pending[i]
    BY <2>3 DEF TsOrderInv
  <2>6. pending = [i \in 1 .. n |-> pending[i]]
    BY DEF TsOrderInv
  <2> HIDE DEF n, c, p
  <2> QED
    BY <2>4, <2>5, <2>6
<1> QED
  BY <1>1, TsInvariant, PTL
==============================================================================
