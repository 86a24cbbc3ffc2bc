----------------------------- MODULE Dot1asControl -----------------------------
(***************************************************************************)
(* The event loop of the 802.1AS application                               *)
(* (src/appl/proto/dot1as/dot1as_control.c).  The RX task puts messages in a *)
(* ring and the timer thread sets a flag; each then gives the semaphore that *)
(* the 802.1AS thread waits for.  The ring, its indices and the flag are     *)
(* shared without a lock, and the binary semaphore of                        *)
(* os/osal/linux/sal_sync.c reads its value before it posts.                *)
(*                                                                         *)
(* A free slot test that cannot fail, for the indices stay below the size of *)
(* the ring, lets a burst lap the reader: what then happens to the messages  *)
(* is part of the model.                                                    *)
(***************************************************************************)
EXTENDS Naturals, Integers, Sequences, FiniteSets

CONSTANTS
    QUEUE,   \* DOT1AS_MAX_QUEUE_MSGS
    Buf,     \* the packet buffers
    NULL

ASSUME QueueAssumption == QUEUE \in Nat \ {0, 1}
ASSUME BufAssumption   == IsFiniteSet(Buf) /\ NULL \notin Buf

Slot == 0 .. QUEUE - 1

VARIABLES
    dot1asMsgBuf,      \* the buffer of each slot's message
    dot1asMsgWrIdx, dot1asMsgRdIdx,
    dot1asTimerEvent,
    dot1asSemId,       \* the value of the semaphore
    allocated,         \* the buffers that are not free
    rx,                \* the RX task in dot1asRxHandler
    timer,             \* the timer thread
    thread,            \* the 802.1AS thread, and the buffer it works on
    accepted,          \* history: the messages accepted and not yet processed, in order,
                       \* until the reader is lapped
    lapped             \* history: as many messages as slots have been waiting

vars == <<dot1asMsgBuf, dot1asMsgWrIdx, dot1asMsgRdIdx, dot1asTimerEvent,
          dot1asSemId, allocated, rx, timer, thread, accepted, lapped>>

ring   == <<dot1asMsgBuf, dot1asMsgWrIdx, dot1asMsgRdIdx>>
ghosts == <<accepted, lapped>>

Init ==
    /\ dot1asMsgBuf = [i \in Slot |-> NULL]
    /\ dot1asMsgWrIdx = 0 /\ dot1asMsgRdIdx = 0
    /\ dot1asTimerEvent = FALSE
    /\ dot1asSemId = 0
    /\ allocated = {}
    /\ rx = "idle" /\ timer = "sleep"
    /\ thread = [pc |-> "wait", msg |-> NULL]
    /\ accepted = <<>> /\ lapped = FALSE

\* The history of a message in buffer b: it is accepted, and it has been processed.
Accept(b) ==
    /\ lapped' = (lapped \/ Len(accepted) + 1 >= QUEUE)
    /\ accepted' = IF lapped' THEN <<>> ELSE Append(accepted, b)
Account(b) ==
    /\ accepted' = IF accepted # <<>> /\ Head(accepted) = b THEN Tail(accepted) ELSE accepted
    /\ UNCHANGED lapped

Advance(i) == IF i = QUEUE - 1 THEN 0 ELSE i + 1

-----------------------------------------------------------------------------
(* The RX task, in dot1asRxHandler.                                         *)

\* "Check for the free message buffer".
FreeMessageBuffer ==
    \/ dot1asMsgRdIdx > dot1asMsgWrIdx
    \/ QUEUE - (dot1asMsgWrIdx - dot1asMsgRdIdx) # 0

\* Mutation: the message goes into the slot behind the free one.
RxStore_NextSlot(b) ==
    /\ rx = "idle" /\ b \notin allocated
    /\ FreeMessageBuffer
    /\ dot1asMsgBuf' = [dot1asMsgBuf EXCEPT ![Advance(dot1asMsgWrIdx)] = b]
    /\ allocated' = allocated \cup {b}
    /\ rx' = "store"
    /\ Accept(b)
    /\ UNCHANGED <<dot1asMsgWrIdx, dot1asMsgRdIdx, dot1asTimerEvent,
                   dot1asSemId, timer, thread>>

\* An 802.1AS packet in buffer b: the message is stored.
RxStore(b) ==
    /\ rx = "idle" /\ b \notin allocated
    /\ FreeMessageBuffer
    /\ dot1asMsgBuf' = [dot1asMsgBuf EXCEPT ![dot1asMsgWrIdx] = b]
    /\ allocated' = allocated \cup {b}
    /\ rx' = "store"
    /\ Accept(b)
    /\ UNCHANGED <<dot1asMsgWrIdx, dot1asMsgRdIdx, dot1asTimerEvent,
                   dot1asSemId, timer, thread>>

RxAdvance ==
    /\ rx = "store"
    /\ dot1asMsgWrIdx' = Advance(dot1asMsgWrIdx)
    /\ rx' = "give"
    /\ UNCHANGED <<dot1asMsgBuf, dot1asMsgRdIdx, dot1asTimerEvent, dot1asSemId,
                   allocated, timer, thread, ghosts>>

\* Mutation: the test of the value is the wrong way round.
SemGiveTest_Inverted(at) == IF dot1asSemId # 0 THEN "post" ELSE at

\* sal_sem_give of a binary semaphore: the value is read, and if it is 0 the
\* semaphore is posted, whatever it is by then.
SemGiveTest(at) == IF dot1asSemId = 0 THEN "post" ELSE at

RxGive ==
    /\ rx = "give"
    /\ rx' = SemGiveTest("idle")
    /\ UNCHANGED <<ring, dot1asTimerEvent, dot1asSemId, allocated, timer, thread, ghosts>>

RxPost ==
    /\ rx = "post"
    /\ dot1asSemId' = dot1asSemId + 1
    /\ rx' = "idle"
    /\ UNCHANGED <<ring, dot1asTimerEvent, allocated, timer, thread, ghosts>>

-----------------------------------------------------------------------------
(* The timer thread.                                                        *)

Tick ==
    /\ timer = "sleep"
    /\ dot1asTimerEvent' = TRUE
    /\ timer' = "give"
    /\ UNCHANGED <<ring, dot1asSemId, allocated, rx, thread, ghosts>>

TimerGive ==
    /\ timer = "give"
    /\ timer' = SemGiveTest("sleep")
    /\ UNCHANGED <<ring, dot1asTimerEvent, dot1asSemId, allocated, rx, thread, ghosts>>

TimerPost ==
    /\ timer = "post"
    /\ dot1asSemId' = dot1asSemId + 1
    /\ timer' = "sleep"
    /\ UNCHANGED <<ring, dot1asTimerEvent, allocated, rx, thread, ghosts>>

-----------------------------------------------------------------------------
(* dot1asThread.                                                            *)

Wake ==
    /\ thread.pc = "wait" /\ dot1asSemId > 0
    /\ dot1asSemId' = dot1asSemId - 1
    /\ thread' = [pc |-> "loop", msg |-> NULL]
    /\ UNCHANGED <<ring, dot1asTimerEvent, allocated, rx, timer, ghosts>>

\* A message is parsed and processed ...
Process ==
    /\ thread.pc = "loop" /\ dot1asMsgRdIdx # dot1asMsgWrIdx
    /\ thread' = [pc |-> "process", msg |-> dot1asMsgBuf[dot1asMsgRdIdx]]
    /\ UNCHANGED <<ring, dot1asTimerEvent, dot1asSemId, allocated, rx, timer, ghosts>>

\* Mutation: one message is processed for each wakeup.
Processed_OneOnly ==
    /\ thread.pc = "process"
    /\ allocated' = allocated \ {dot1asMsgBuf[dot1asMsgRdIdx]}
    /\ dot1asMsgRdIdx' = Advance(dot1asMsgRdIdx)
    /\ thread' = [pc |-> "timer", msg |-> NULL]
    /\ Account(thread.msg)
    /\ UNCHANGED <<dot1asMsgBuf, dot1asMsgWrIdx, dot1asTimerEvent, dot1asSemId,
                   rx, timer>>

\* Mutation: the slot of a message is not left.
Processed_KeepSlot ==
    /\ thread.pc = "process"
    /\ allocated' = allocated \ {dot1asMsgBuf[dot1asMsgRdIdx]}
    /\ thread' = [pc |-> "loop", msg |-> NULL]
    /\ Account(thread.msg)
    /\ UNCHANGED <<ring, dot1asTimerEvent, dot1asSemId, rx, timer>>

\* ... and the buffer that its slot now holds is freed.
Processed ==
    /\ thread.pc = "process"
    /\ allocated' = allocated \ {dot1asMsgBuf[dot1asMsgRdIdx]}
    /\ dot1asMsgRdIdx' = Advance(dot1asMsgRdIdx)
    /\ thread' = [pc |-> "loop", msg |-> NULL]
    /\ Account(thread.msg)
    /\ UNCHANGED <<dot1asMsgBuf, dot1asMsgWrIdx, dot1asTimerEvent, dot1asSemId,
                   rx, timer>>

Drained ==
    /\ thread.pc = "loop" /\ dot1asMsgRdIdx = dot1asMsgWrIdx
    /\ thread' = [thread EXCEPT !.pc = "timer"]
    /\ UNCHANGED <<ring, dot1asTimerEvent, dot1asSemId, allocated, rx, timer, ghosts>>

\* The timers of all state machines are run if the flag is set.
TimerEvent ==
    /\ thread.pc = "timer"
    /\ thread' = [thread EXCEPT !.pc = IF dot1asTimerEvent THEN "transmit" ELSE "wait"]
    /\ UNCHANGED <<ring, dot1asTimerEvent, dot1asSemId, allocated, rx, timer, ghosts>>

\* dot1asTransmit has returned: the flag is cleared, also of a tick meanwhile.
TransmitDone ==
    /\ thread.pc = "transmit"
    /\ dot1asTimerEvent' = FALSE
    /\ thread' = [thread EXCEPT !.pc = "wait"]
    /\ UNCHANGED <<ring, dot1asSemId, allocated, rx, timer, ghosts>>

RxStep     == RxAdvance \/ RxGive \/ RxPost
TimerStep  == Tick \/ TimerGive \/ TimerPost
ThreadStep == Wake \/ Process \/ Processed \/ Drained \/ TimerEvent \/ TransmitDone

Next == (\E b \in Buf : RxStore(b)) \/ RxStep \/ TimerStep \/ ThreadStep

\* The threads run; packets need not arrive.
Spec == /\ Init /\ [][Next]_vars
        /\ WF_vars(RxStep) /\ WF_vars(TimerStep) /\ WF_vars(ThreadStep)

-----------------------------------------------------------------------------
(* Properties.                                                              *)

\* The indices are slots, and a race of two givers leaves the binary semaphore at
\* 2 at most.
TypeOK ==
    /\ dot1asMsgBuf \in [Slot -> Buf \cup {NULL}]
    /\ dot1asMsgWrIdx \in Slot /\ dot1asMsgRdIdx \in Slot
    /\ dot1asTimerEvent \in BOOLEAN /\ lapped \in BOOLEAN
    /\ dot1asSemId \in 0 .. 2
    /\ allocated \subseteq Buf
    /\ rx \in {"idle", "store", "give", "post"}
    /\ timer \in {"sleep", "give", "post"}
    /\ thread.pc \in {"wait", "loop", "process", "timer", "transmit"}

\* The thread does not sleep on work: when it waits, nobody is about to wake it
\* and the semaphore is 0, there is neither a message nor a tick.
NoSleepOnWork ==
    thread.pc = "wait" /\ dot1asSemId = 0 /\ rx = "idle" /\ timer = "sleep"
        => dot1asMsgRdIdx = dot1asMsgWrIdx /\ ~dot1asTimerEvent

\* The slots from the reader to the writer.
Waiting == (dot1asMsgWrIdx + QUEUE - dot1asMsgRdIdx) % QUEUE
InRing  == [i \in 1 .. Waiting |-> dot1asMsgBuf[(dot1asMsgRdIdx + i - 1) % QUEUE]]

\* Until as many messages as slots have been waiting: the ring holds the accepted
\* messages in the order of their arrival, none is lost and none comes twice.
MessagesInOrder ==
    ~lapped => InRing = IF rx = "store" THEN SubSeq(accepted, 1, Len(accepted) - 1)
                        ELSE accepted

\* A buffer is freed when its packet is handled: those of the messages in the ring
\* and of the one in process are allocated, to be read and freed once.
RingBuffersLive ==
    /\ \A i \in DOMAIN InRing : InRing[i] \in allocated
    /\ thread.pc = "process" => thread.msg \in allocated

\* Until a burst laps the reader that is so.
BuffersLiveUnlapped == ~lapped => RingBuffersLive

\* Every accepted message is processed in the end, if no burst laps the reader.
IsAccepted(b) == \E i \in DOMAIN accepted : accepted[i] = b
MessagesProcessed == [](~lapped) => \A b \in Buf : IsAccepted(b) ~> ~IsAccepted(b)
===============================================================================
