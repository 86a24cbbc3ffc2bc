-------------------------------- MODULE TsEvents --------------------------------
(***************************************************************************)
(* Time-of-day events.  The TIMESYNC thread (tse.c) empties the hardware's   *)
(* FIFO of captured events and puts those that the driver asked for into a   *)
(* ring; the event task (ts.c) calls the event's callback for each.  Ring,   *)
(* status flag, mask and callbacks are shared without a lock with the task   *)
(* and with cbx_ts_event_config_set, the FIFO with cbx_ts_tod_get.          *)
(*                                                                         *)
(* Behind the passes over the FIFO the thread clears the latch of the       *)
(* external interrupt.  Whether an event that has come in between raises it *)
(* again is the hardware's business: `missed' is set when it does not.      *)
(*                                                                         *)
(* The test for a full ring compares unsigned indices and never sees that    *)
(* the producer is right behind the consumer: `overrun' is set when that     *)
(* lets the producer lap the consumer.                                      *)
(***************************************************************************)
EXTENDS Naturals, Sequences, FiniteSets

CONSTANTS
    RING,        \* TS_EVENT_RING_SIZE
    EventId,     \* the event ids in use
    FIFO,        \* the depth of the hardware's FIFO
    MaxEvents,   \* bound: the events that are captured
    MaxConfig,   \* bound: the calls of cbx_ts_event_config_set and cbx_ts_tod_get
    CPU,         \* the event that cbx_ts_tod_get has captured
    NONE         \* the null pointer

ASSUME RingAssumption  == RING \in Nat \ {0, 1}
ASSUME EventAssumption == 
    IsFiniteSet(EventId) /\ NONE \notin EventId /\ CPU \in EventId
ASSUME BoundAssumption == FIFO \in Nat /\ MaxEvents \in Nat /\ MaxConfig \in Nat

RingSlot == 0 .. RING - 1
Event == [id : EventId, n : 1 .. MaxEvents]

VARIABLES
    (* the hardware *)
    fifo,             \* the captured events
    intsts,           \* INTERRUPT_STATUS is not 0
    latch,            \* the external interrupt is pending: the GPIO is low
    edge,             \* the GPIO's falling edge has not been polled
    capture,          \* the field TIME_CAPTURE_MODE
    captured,         \* how many events were captured
    (* ts_context and ts_event_state *)
    event_ring, er_producer_idx, er_consumer_idx, er_status, er_sem,
    event_id_mask, event_cb_func,
    (* the threads *)
    cb_events,        \* the last interrupt had events with a callback (the code counts them)
    timesync,         \* the TIMESYNC thread
    task,             \* the event task
    config,           \* the caller of cbx_ts_event_config_set
    tod,              \* the caller of cbx_ts_tod_get
    configs,          \* how many calls there were
    (* history *)
    pending,          \* the events put into the ring and not yet delivered
    overrun,          \* the producer has lapped the consumer
    missed            \* the latch was cleared while the status was set, and stayed clear

hardware == <<fifo, intsts, latch, edge, capture, captured>>
tsRing   == <<event_ring, er_producer_idx, er_consumer_idx, er_status>>
settings == <<event_id_mask, event_cb_func>>
tsGhosts == <<pending, overrun>>
caller   == <<config, tod, configs>>
tsVars == <<hardware, tsRing, er_sem, settings, cb_events, timesync, task, caller, tsGhosts,
            missed>>

NoEvent == [id |-> NONE, n |-> 0]
Loop    == [pc |-> "dequeue", slot |-> 0, ev |-> NoEvent, cb |-> NONE]
NoCall  == [pc |-> "idle", id |-> NONE, on |-> FALSE, fn |-> NONE]

\* ts_init clears everything; no event is captured before it is configured.
TsInit ==
    /\ fifo = <<>> /\ intsts = FALSE /\ latch = FALSE /\ edge = FALSE
    /\ capture = {} /\ captured = 0
    /\ event_ring = [i \in RingSlot |-> NoEvent]
    /\ er_producer_idx = 0 /\ er_consumer_idx = 0 /\ er_status = "none"
    /\ er_sem = 0
    /\ event_id_mask = {} /\ event_cb_func = [e \in EventId |-> NONE]
    /\ cb_events = FALSE
    /\ timesync = [pc |-> "poll", sts |-> FALSE, depth |-> 0, ev |-> NoEvent]
    /\ task = Loop
    /\ config = NoCall /\ tod = "idle"
    /\ configs = 0
    /\ pending = <<>> /\ overrun = FALSE /\ missed = FALSE

NextSlot(i) == IF i < RING - 1 THEN i + 1 ELSE 0

-----------------------------------------------------------------------------
(* The hardware.                                                            *)

\* An event is captured: the status is set.  If it was clear it sets the latch, and if
\* that was clear the line falls.
Capture(e) ==
    /\ e \in capture /\ Len(fifo) < FIFO /\ captured < MaxEvents
    /\ captured' = captured + 1
    /\ fifo' = Append(fifo, [id |-> e, n |-> captured + 1])
    /\ intsts' = TRUE
    /\ latch' = (latch \/ ~intsts)
    /\ edge' = (edge \/ (~latch /\ ~intsts))
    /\ UNCHANGED <<capture, tsRing, er_sem, settings, cb_events, timesync, task,
                   caller, tsGhosts, missed>>

-----------------------------------------------------------------------------
(* The TIMESYNC thread: rimesync_handler and the wakeup behind it.           *)

Goes(pc)  == timesync' = [timesync EXCEPT !.pc = pc]
NextDrain == timesync' = [timesync EXCEPT !.pc = "drain", !.ev = NoEvent]

\* The GPIO had an edge: the handler starts.
PollInterrupt ==
    /\ timesync.pc = "poll" /\ edge
    /\ edge' = FALSE
    /\ cb_events' = FALSE
    /\ Goes("status")
    /\ UNCHANGED <<fifo, intsts, latch, capture, captured, tsRing, er_sem, settings, task,
                   caller, tsGhosts, missed>>

\* It had none: the task is woken once more for the last interrupt's events.
PollQuiet ==
    /\ timesync.pc = "poll" /\ ~edge /\ cb_events
    /\ Goes("give")
    /\ UNCHANGED <<hardware, tsRing, er_sem, settings, cb_events, task, caller, tsGhosts, missed>>

ReadStatus ==
    /\ timesync.pc = "status"
    /\ timesync' = [timesync EXCEPT !.pc = "clear", !.sts = intsts]
    /\ UNCHANGED <<hardware, tsRing, er_sem, settings, cb_events, task, caller, tsGhosts, missed>>

ClearStatus ==
    /\ timesync.pc = "clear"
    /\ intsts' = FALSE
    /\ Goes("depth")
    /\ UNCHANGED <<fifo, latch, edge, capture, captured, tsRing, er_sem, settings, cb_events,
                   task, caller, tsGhosts, missed>>

\* Mutation: the last entry of the FIFO is not counted.
ReadDepth_OneLess ==
    /\ timesync.pc = "depth"
    /\ timesync' = [timesync EXCEPT !.pc = "drain",
                                    !.depth = IF fifo = <<>> THEN 0 ELSE Len(fifo) - 1]
    /\ UNCHANGED <<hardware, tsRing, er_sem, settings, cb_events, task, caller, tsGhosts, missed>>

ReadDepth ==
    /\ timesync.pc = "depth"
    /\ timesync' = [timesync EXCEPT !.pc = "drain", !.depth = Len(fifo)]
    /\ UNCHANGED <<hardware, tsRing, er_sem, settings, cb_events, task, caller, tsGhosts, missed>>

\* One entry of the FIFO: queued if the driver asked for this event.  It is not valid
\* when a caller of cbx_ts_tod_get has read one in between.
NextEntry ==
    /\ timesync.pc = "drain" /\ timesync.depth > 0
    /\ IF fifo = <<>>
       THEN timesync' = [timesync EXCEPT !.depth = @ - 1] /\ UNCHANGED <<fifo, cb_events>>
       ELSE /\ fifo' = Tail(fifo)
            /\ LET wanted == Head(fifo).id \in event_id_mask IN
                 /\ cb_events' = (cb_events \/ wanted)
                 /\ timesync' = [timesync EXCEPT !.depth = @ - 1,
                                    !.pc = IF wanted THEN "enqueue" ELSE "drain",
                                    !.ev = IF wanted THEN Head(fifo) ELSE NoEvent]
    /\ UNCHANGED <<intsts, latch, edge, capture, captured, tsRing, er_sem, settings, task,
                   caller, tsGhosts, missed>>

\* Mutation: the count of events starts again with each pass.
PassDone_ResetCount ==
    /\ timesync.pc = "drain" /\ timesync.depth = 0
    /\ cb_events' = (cb_events /\ ~timesync.sts)
    /\ timesync' = [timesync EXCEPT !.sts = FALSE,
                                    !.pc = IF timesync.sts THEN "status" ELSE "ack"]
    /\ UNCHANGED <<hardware, tsRing, er_sem, settings, task, caller, tsGhosts, missed>>

\* The FIFO is read until the status was 0 before it.
PassDone ==
    /\ timesync.pc = "drain" /\ timesync.depth = 0
    /\ timesync' = [timesync EXCEPT !.sts = FALSE,
                                    !.pc = IF timesync.sts THEN "status" ELSE "ack"]
    /\ UNCHANGED <<hardware, tsRing, er_sem, settings, cb_events, task, caller, tsGhosts, missed>>

\* extern_intr_ack: the latch is cleared.  An event captured since the last pass read
\* the status may set it again, or its interrupt is gone.
Acknowledge ==
    /\ timesync.pc = "ack"
    /\ \E again \in {FALSE, intsts} :
          /\ latch' = again
          /\ edge' = (edge \/ again)
          /\ missed' = (missed \/ (intsts /\ ~again))
    /\ Goes(IF cb_events THEN "give" ELSE "poll")
    /\ UNCHANGED <<fifo, intsts, capture, captured, tsRing, er_sem, settings, cb_events,
                   task, caller, tsGhosts>>

\* Mutation: the next free slot is taken for this event's.
Enqueue_NextSlot ==
    /\ timesync.pc = "enqueue"
    /\ IF er_status = "FULL"
       THEN Goes("overflow") /\ UNCHANGED event_ring
       ELSE /\ event_ring' = [event_ring EXCEPT ![NextSlot(er_producer_idx)] = timesync.ev]
            /\ Goes("index")
    /\ UNCHANGED <<hardware, er_producer_idx, er_consumer_idx, er_status, er_sem,
                   settings, cb_events, task, caller, tsGhosts, missed>>

\* ts_event_enqueue: an event is refused if the last one found the ring full, and
\* written at the producer's index otherwise.
Enqueue ==
    /\ timesync.pc = "enqueue"
    /\ IF er_status = "FULL"
       THEN Goes("overflow") /\ UNCHANGED event_ring
       ELSE /\ event_ring' = [event_ring EXCEPT ![er_producer_idx] = timesync.ev]
            /\ Goes("index")
    /\ UNCHANGED <<hardware, er_producer_idx, er_consumer_idx, er_status, er_sem,
                   settings, cb_events, task, caller, tsGhosts, missed>>

Overflow ==
    /\ timesync.pc = "overflow"
    /\ er_status' = "OVERFLOW"
    /\ NextDrain
    /\ UNCHANGED <<hardware, event_ring, er_producer_idx, er_consumer_idx, er_sem,
                   settings, cb_events, task, caller, tsGhosts, missed>>

\* "When the er_producer_idx is one less than the er_consumer_idx (with wrapping
\* accounted for), then the ring is full".  The difference of the unsigned indices
\* is never 1 when the producer is the lower one.
RingFull ==
    /\ er_producer_idx > er_consumer_idx
    /\ er_producer_idx - er_consumer_idx = RING - 1

\* The case that the test misses.
Laps == er_producer_idx < er_consumer_idx /\ NextSlot(er_producer_idx) = er_consumer_idx

\* The index goes on, and makes the event visible, unless the ring is full.
AdvanceProducer ==
    /\ timesync.pc = "index"
    /\ IF RingFull
       THEN Goes("full") /\ UNCHANGED <<er_producer_idx, tsGhosts>>
       ELSE /\ er_producer_idx' = NextSlot(er_producer_idx)
            /\ pending' = Append(pending, timesync.ev)
            /\ overrun' = (overrun \/ Laps)
            /\ NextDrain
    /\ UNCHANGED <<hardware, event_ring, er_consumer_idx, er_status, er_sem, settings,
                   cb_events, task, caller, missed>>

SetFull ==
    /\ timesync.pc = "full"
    /\ er_status' = "FULL"
    /\ NextDrain
    /\ UNCHANGED <<hardware, event_ring, er_producer_idx, er_consumer_idx, er_sem,
                   settings, cb_events, task, caller, tsGhosts, missed>>

\* ts_event_task_wake gives the binary semaphore; this thread is its only giver.
Give ==
    /\ timesync.pc = "give"
    /\ er_sem' = 1
    /\ Goes("poll")
    /\ UNCHANGED <<hardware, tsRing, settings, cb_events, task, caller, tsGhosts, missed>>

-----------------------------------------------------------------------------
(* The event task: ts_event_dequeue and the wait.                           *)

\* The callback of the event at the consumer's index is looked up ...
Dequeue ==
    /\ task.pc = "dequeue" /\ er_consumer_idx # er_producer_idx
    /\ LET ev == event_ring[er_consumer_idx] IN
         task' = [pc |-> "callback", slot |-> er_consumer_idx, ev |-> ev,
                  cb |-> event_cb_func[ev.id]]
    /\ UNCHANGED <<hardware, tsRing, er_sem, settings, cb_events, timesync, caller, tsGhosts, missed>>

\* ... it has returned, and the slot is left ...
Called ==
    /\ task.pc = "callback"
    /\ er_consumer_idx' = NextSlot(er_consumer_idx)
    /\ task' = [task EXCEPT !.pc = "status"]
    /\ pending' = IF pending = <<>> THEN <<>> ELSE Tail(pending)
    /\ UNCHANGED <<hardware, event_ring, er_producer_idx, er_status, er_sem, settings,
                   cb_events, timesync, caller, overrun, missed>>

\* ... and the status cleared, whatever it has become.
ClearRingStatus ==
    /\ task.pc = "status"
    /\ er_status' = "none"
    /\ task' = Loop
    /\ UNCHANGED <<hardware, event_ring, er_producer_idx, er_consumer_idx, er_sem,
                   settings, cb_events, timesync, caller, tsGhosts, missed>>

RingDrained ==
    /\ task.pc = "dequeue" /\ er_consumer_idx = er_producer_idx
    /\ task' = [task EXCEPT !.pc = "take"]
    /\ UNCHANGED <<hardware, tsRing, er_sem, settings, cb_events, timesync, caller, tsGhosts, missed>>

TaskWake ==
    /\ task.pc = "take" /\ er_sem > 0
    /\ er_sem' = er_sem - 1
    /\ task' = [task EXCEPT !.pc = "dequeue"]
    /\ UNCHANGED <<hardware, tsRing, settings, cb_events, timesync, caller, tsGhosts, missed>>

-----------------------------------------------------------------------------
(* cbx_ts_event_config_set.                                                 *)

\* A call for event e: enabled with a callback or disabled, with function fn or
\* none.  The registers are written for this event alone.
Configure(e, on, fn) ==
    /\ config.pc = "idle" /\ configs < MaxConfig
    /\ configs' = configs + 1
    /\ capture' = IF on THEN {e} ELSE {}
    /\ config' = [pc |-> "copy", id |-> e, on |-> on, fn |-> fn]
    /\ UNCHANGED <<fifo, intsts, latch, edge, captured, tsRing, er_sem, settings, cb_events,
                   timesync, task, tod, tsGhosts, missed>>

CopyConfig ==
    /\ config.pc = "copy"
    /\ event_cb_func' = [event_cb_func EXCEPT ![config.id] = config.fn]
    /\ config' = [config EXCEPT !.pc = "mask"]
    /\ UNCHANGED <<hardware, tsRing, er_sem, event_id_mask, cb_events, timesync, task,
                   tod, configs, tsGhosts, missed>>

SetMask ==
    /\ config.pc = "mask"
    /\ event_id_mask' = IF config.on THEN event_id_mask \cup {config.id}
                        ELSE event_id_mask \ {config.id}
    /\ config' = IF config.on /\ config.fn = NONE THEN [config EXCEPT !.pc = "default"]
                 ELSE NoCall
    /\ UNCHANGED <<hardware, tsRing, er_sem, event_cb_func, cb_events, timesync, task,
                   tod, configs, tsGhosts, missed>>

\* An enabled event without a function gets one of the driver's own.
SetDefault ==
    /\ config.pc = "default"
    /\ event_cb_func' = [event_cb_func EXCEPT ![config.id] = "default"]
    /\ config' = NoCall
    /\ UNCHANGED <<hardware, tsRing, er_sem, event_id_mask, cb_events, timesync, task,
                   tod, configs, tsGhosts, missed>>

\* cbx_ts_tod_get has the hardware capture an event of its own ...
TodCapture ==
    /\ tod = "idle" /\ configs < MaxConfig
    /\ configs' = configs + 1
    /\ capture' = capture \cup {CPU}
    /\ tod' = "read"
    /\ UNCHANGED <<fifo, intsts, latch, edge, captured, tsRing, er_sem, settings, cb_events,
                   timesync, task, config, tsGhosts, missed>>

\* ... and reads the oldest entry of the FIFO, be it that event's or another.
TodRead ==
    /\ tod = "read"
    /\ fifo' = IF fifo = <<>> THEN <<>> ELSE Tail(fifo)
    /\ tod' = "idle"
    /\ UNCHANGED <<intsts, latch, edge, capture, captured, tsRing, er_sem, settings, cb_events,
                   timesync, task, config, configs, tsGhosts, missed>>

Handler    == \/ PollInterrupt \/ PollQuiet \/ ReadStatus \/ ClearStatus \/ ReadDepth
              \/ NextEntry \/ PassDone \/ Acknowledge \/ Enqueue \/ Overflow \/ AdvanceProducer
              \/ SetFull \/ Give
EventTask  == Dequeue \/ Called \/ ClearRingStatus \/ RingDrained \/ TaskWake
ConfigStep == CopyConfig \/ SetMask \/ SetDefault
TodGet     == TodCapture \/ TodRead

TsNext ==
    \/ \E e \in EventId : Capture(e)
    \/ Handler \/ EventTask \/ ConfigStep \/ TodGet
    \/ \E e \in EventId, on \in BOOLEAN, fn \in {NONE, "function"} : Configure(e, on, fn)

\* The threads run; events and calls need not come.
TsSpec == TsInit /\ [][TsNext]_tsVars /\ WF_tsVars(Handler) /\ WF_tsVars(EventTask)

-----------------------------------------------------------------------------
(* Properties.                                                              *)

TsTypeOK ==
    /\ fifo \in Seq(Event) /\ Len(fifo) <= FIFO
    /\ {intsts, latch, edge, cb_events, overrun, missed} \subseteq BOOLEAN
    /\ capture \subseteq EventId /\ event_id_mask \subseteq EventId
    /\ event_ring \in [RingSlot -> Event \cup {NoEvent}]
    /\ er_producer_idx \in RingSlot /\ er_consumer_idx \in RingSlot
    /\ er_status \in {"none", "FULL", "OVERFLOW"}
    /\ er_sem \in {0, 1}
    /\ event_cb_func \in [EventId -> {NONE, "function", "default"}]
    /\ timesync.depth \in 0 .. FIFO

\* When the TIMESYNC thread polls and no edge is waiting, the FIFO is empty, until an
\* acknowledge has taken the interrupt of an event that came behind the last look at
\* the status: the handler's passes leave no event behind, and any other raises an edge.
FifoDrained == timesync.pc = "poll" /\ ~edge /\ ~missed => fifo = <<>>

\* The same whatever the acknowledge clears.  Where the latch follows a change of the
\* status and not its level, the code does not keep this: an event that comes between
\* the last look at the status and the acknowledge stays in the FIFO, and since the
\* status stays set, so do all later ones.
NothingLeftBehind == timesync.pc = "poll" /\ ~edge => fifo = <<>>

\* The task does not sleep on events: when it waits, the semaphore is 0 and the
\* TIMESYNC thread has nothing to give, the ring is empty.
NoSleepOnEvents ==
    task.pc = "take" /\ er_sem = 0 /\ timesync.pc = "poll"
        => er_consumer_idx = er_producer_idx

\* The slots from the consumer to the producer.
Queued == [i \in 1 .. (er_producer_idx + RING - er_consumer_idx) % RING |->
              event_ring[(er_consumer_idx + i - 1) % RING]]

\* Until the producer has lapped the consumer: the ring holds the accepted events
\* in their order, none is lost or comes twice.
EventsInOrder == ~overrun => Queued = pending

\* A ring with one free slot drops the event ("the irq will simply drop the
\* event"): the indices of a ring that holds events never become equal by adding
\* one.  The code does not keep this.
NeverLapped == ~overrun

\* Every event that an interrupt finds in the mask is delivered, if the ring is
\* not lapped.
IsPending(n) == \E i \in DOMAIN pending : pending[i].n = n
EventsDelivered ==
    [](~overrun) => \A n \in 1 .. MaxEvents : IsPending(n) ~> ~IsPending(n)
===============================================================================
