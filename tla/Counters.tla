-------------------------------- MODULE Counters --------------------------------
(***************************************************************************)
(* Collection of the port counters (platform/soc/common/counter.c, built     *)
(* with COUNTER_THREAD): a thread adds what each hardware counter has        *)
(* counted to a software counter; callers read, clear and force a            *)
(* collection; start and stop create and end the thread.  Nothing is         *)
(* locked: counter_hw_val and counter_sw_val are read, used and written in   *)
(* separate steps by every party.                                           *)
(*                                                                         *)
(* One counter of one port stands for all: they are collected alike, one     *)
(* after the other.                                                         *)
(***************************************************************************)
EXTENDS Integers, FiniteSets, FiniteSetsExt

CONSTANTS
    MODULUS,    \* 2 to the width of the hardware's counter
    User,       \* the callers of the statistics functions
    MaxCount,   \* bound: how often the hardware counts
    MaxCalls    \* bound: how many calls there are

ASSUME ModulusAssumption == MODULUS \in Nat \ {0, 1}
ASSUME UserAssumption    == IsFiniteSet(User) /\ {"thread", "control"} \cap User = {}
ASSUME BoundAssumption   == MaxCount \in Nat /\ MaxCalls \in Nat

Proc  == User \cup {"thread", "control"}
Value == 0 .. MODULUS - 1

VARIABLES
    reg,                \* the hardware's counter
    counter_hw_val, counter_sw_val,
    counter_interval,   \* a collection is due every so often, or never
    counter_pid,        \* the thread's id is not SAL_THREAD_ERROR
    counter_notify,     \* "NULL", or the value of the semaphore
    counter_sync_req,
    proc,               \* where each party is, and its local variables
    sync_gnt,           \* the thread's local variable
    started,            \* the last start or stop was a start, and has returned
    calls,              \* how many calls there were
    (* history *)
    total,              \* how often the hardware has counted
    seen,               \* total when the register was last read for sw_val
    expected,           \* what sw_val is to be when all is collected
    request,            \* of each caller's sync: total when it began, and whether
                        \* another sync was under way in between
    overlap             \* two parties were in the middle of an update

shadow  == <<counter_hw_val, counter_sw_val>>
control == <<counter_interval, counter_pid, counter_notify, started>>
history == <<total, seen, expected, overlap>>
counterVars == <<reg, shadow, control, counter_sync_req, proc, sync_gnt, calls, history,
                 request>>

Idle == [pc |-> "idle", prev |-> 0, new |-> 0, sum |-> 0, at |-> 0]

\* soc_robo2_counter_attach; the hardware has counted before, and is about to wrap.
CountersInit ==
    /\ reg = MODULUS - 2
    /\ counter_hw_val = 0 /\ counter_sw_val = 0
    /\ counter_interval = FALSE /\ counter_pid = FALSE /\ counter_notify = "NULL"
    /\ counter_sync_req = FALSE
    /\ proc = [p \in Proc |-> Idle]
    /\ sync_gnt = FALSE /\ started = FALSE /\ calls = 0
    /\ total = reg /\ seen = 0 /\ expected = reg /\ overlap = FALSE
    /\ request = [u \in User |-> [at |-> 0, shared |-> FALSE]]

At(p, pc)  == proc[p].pc = pc
To(p, pc)  == proc' = [proc EXCEPT ![p].pc = pc]
End(p)     == proc' = [proc EXCEPT ![p] = Idle]
Updating   == {p \in Proc : proc[p].pc \in {"read", "add", "store", "hw", "write"}}

\* Another party is in the middle of an update when p begins one.
Overlaps(p) == overlap' = (overlap \/ Updating \ {p} # {})

\* The hardware counts, at most once around between two collections.
Count ==
    /\ total < MaxCount /\ total - seen < MODULUS - 1
    /\ reg' = (reg + 1) % MODULUS
    /\ total' = total + 1 /\ expected' = expected + 1
    /\ UNCHANGED <<shadow, control, counter_sync_req, proc, sync_gnt, calls, seen,
                   overlap, request>>

-----------------------------------------------------------------------------
(* The collection of a counter, by the thread (soc_robo_counter_collect), a  *)
(* caller (soc_robo_counter_collect_sync) or a start (which discards).       *)

CollectPrev(p) ==
    /\ At(p, "prev")
    /\ proc' = [proc EXCEPT ![p].prev = counter_hw_val, ![p].pc = "read"]
    /\ Overlaps(p)
    /\ UNCHANGED <<reg, shadow, control, counter_sync_req, sync_gnt, calls, total,
                   seen, expected, request>>

\* A start takes what it reads for the previous value, and counts nothing.
CollectRead(p) ==
    /\ At(p, "read")
    /\ proc' = [proc EXCEPT ![p].new = reg, ![p].at = total,
                            ![p].pc = IF p = "control" THEN "hw" ELSE "add"]
    /\ expected' = IF p = "control" THEN counter_sw_val ELSE expected
    /\ UNCHANGED <<reg, shadow, control, counter_sync_req, sync_gnt, calls, total,
                   seen, overlap, request>>

\* "Counter must have wrapped around."
Difference(new, prev) == IF new < prev THEN new + MODULUS - prev ELSE new - prev

\* The software counter is read and the difference added ...
CollectAdd(p) ==
    /\ At(p, "add")
    /\ proc' = [proc EXCEPT ![p].sum = counter_sw_val + Difference(proc[p].new, proc[p].prev),
                            ![p].pc = "store"]
    /\ UNCHANGED <<reg, shadow, control, counter_sync_req, sync_gnt, calls, history, request>>

\* ... and the sum written.
CollectStore(p) ==
    /\ At(p, "store")
    /\ counter_sw_val' = proc[p].sum
    /\ To(p, "hw")
    /\ UNCHANGED <<reg, counter_hw_val, control, counter_sync_req, sync_gnt, calls,
                   history, request>>

CollectHw(p) ==
    /\ At(p, "hw")
    /\ counter_hw_val' = proc[p].new
    /\ seen' = Max({seen, proc[p].at})
    /\ proc' = [proc EXCEPT ![p] =
                   [Idle EXCEPT !.pc = IF p = "thread" THEN "grant"
                                       ELSE IF p = "control" THEN "launch" ELSE "idle"]]
    /\ UNCHANGED <<reg, counter_sw_val, control, counter_sync_req, sync_gnt, calls,
                   total, expected, overlap, request>>

Collect(p) ==
    CollectPrev(p) \/ CollectRead(p) \/ CollectAdd(p) \/ CollectStore(p) \/ CollectHw(p)

-----------------------------------------------------------------------------
(* The callers.                                                             *)

Call(p) == At(p, "idle") /\ calls < MaxCalls /\ calls' = calls + 1

\* soc_robo_counter_get with sync_hw.
Get(u) ==
    /\ Call(u) /\ To(u, "prev")
    /\ UNCHANGED <<reg, shadow, control, counter_sync_req, sync_gnt, history, request>>

\* soc_robo_counter_set to 0: the two software values ...
Set(u) ==
    /\ Call(u) /\ To(u, "write")
    /\ counter_sw_val' = 0 /\ counter_hw_val' = 0
    /\ Overlaps(u)
    /\ UNCHANGED <<reg, control, counter_sync_req, sync_gnt, total, seen, expected, request>>

\* Mutation: the register is left alone.
SetRegister_Not(u) ==
    /\ At(u, "write") /\ End(u)
    /\ expected' = 0 /\ seen' = total
    /\ UNCHANGED <<reg, shadow, control, counter_sync_req, sync_gnt, calls, total,
                   overlap, request>>

\* ... and then the register.
SetRegister(u) ==
    /\ At(u, "write") /\ End(u)
    /\ reg' = 0
    /\ expected' = 0 /\ seen' = total
    /\ UNCHANGED <<shadow, control, counter_sync_req, sync_gnt, calls, total, overlap,
                   request>>

\* A sync of a caller that has not returned, or that the thread still grants.
SyncUnderWay(u) == proc[u].pc \in {"give", "sleep"}
Others(u)       == {v \in User \ {u} : SyncUnderWay(v)}

\* soc_robo_counter_sync.
Sync(u) ==
    /\ Call(u) /\ counter_interval
    /\ counter_sync_req' = TRUE
    /\ To(u, "give")
    /\ request' = [v \in User |->
           IF v = u THEN [at |-> total, shared |-> Others(u) # {} \/ sync_gnt]
           ELSE [request[v] EXCEPT !.shared = @ \/ SyncUnderWay(v)]]
    /\ UNCHANGED <<reg, shadow, control, sync_gnt, history>>

\* The thread's semaphore is given; before the thread has created it the call
\* fails on a NULL pointer.
SyncGive(u) ==
    /\ At(u, "give")
    /\ counter_notify' = IF counter_notify = "NULL" THEN "NULL" ELSE "1"
    /\ To(u, IF counter_notify = "NULL" THEN "fault" ELSE "sleep")
    /\ UNCHANGED <<reg, shadow, counter_interval, counter_pid, started,
                   counter_sync_req, sync_gnt, calls, history, request>>

\* A second later: the request is granted, or withdrawn with an error.
SyncReturn(u) ==
    /\ At(u, "sleep")
    /\ To(u, IF counter_sync_req THEN "idle" ELSE "synced")
    /\ counter_sync_req' = FALSE
    /\ UNCHANGED <<reg, shadow, control, sync_gnt, calls, history, request>>

Synced(u) ==
    /\ At(u, "synced") /\ End(u)
    /\ UNCHANGED <<reg, shadow, control, counter_sync_req, sync_gnt, calls, history,
                   request>>

UserStep(u) ==
    Collect(u) \/ SetRegister(u) \/ SyncGive(u) \/ SyncReturn(u) \/ Synced(u)

-----------------------------------------------------------------------------
(* soc_robo_counter_start and _stop, called by one party.                    *)

\* A start stops a thread that runs; a stop that finds none is done.
CounterStart ==
    /\ Call("control")
    /\ started' = FALSE
    /\ IF counter_pid
       THEN counter_interval' = FALSE /\ To("control", "restart")
       ELSE UNCHANGED counter_interval /\ To("control", "fresh")
    /\ UNCHANGED <<reg, shadow, counter_pid, counter_notify, counter_sync_req,
                   sync_gnt, history, request>>

CounterStop ==
    /\ Call("control") /\ counter_pid
    /\ started' = FALSE
    /\ counter_interval' = FALSE
    /\ To("control", "stop")
    /\ UNCHANGED <<reg, shadow, counter_pid, counter_notify, counter_sync_req,
                   sync_gnt, history, request>>

\* The thread is woken, if its semaphore is there ...
StopGive ==
    /\ proc["control"].pc \in {"restart", "stop"}
    /\ counter_notify' = IF counter_notify = "NULL" THEN "NULL" ELSE "1"
    /\ To("control", IF At("control", "stop") THEN "stopSleep" ELSE "restartSleep")
    /\ UNCHANGED <<reg, shadow, counter_interval, counter_pid, started,
                   counter_sync_req, sync_gnt, calls, history, request>>

\* ... and a second later it has ended, or the call fails.
StopCheck ==
    /\ proc["control"].pc \in {"restartSleep", "stopSleep"}
    /\ To("control", IF At("control", "stopSleep") \/ counter_pid THEN "idle" ELSE "fresh")
    /\ UNCHANGED <<reg, shadow, control, counter_sync_req, sync_gnt, calls, history,
                   request>>

\* "Create fresh semaphores"; then the values are synchronised (CollectPrev).
Fresh ==
    /\ At("control", "fresh")
    /\ counter_notify' = "NULL"
    /\ To("control", "prev")
    /\ UNCHANGED <<reg, shadow, counter_interval, counter_pid, started,
                   counter_sync_req, sync_gnt, calls, history, request>>

Launch ==
    /\ At("control", "launch")
    /\ counter_interval' = TRUE
    /\ proc' = [proc EXCEPT !["control"].pc = "pid", !["thread"].pc = "boot"]
    /\ sync_gnt' = FALSE
    /\ UNCHANGED <<reg, shadow, counter_pid, counter_notify, started,
                   counter_sync_req, calls, history, request>>

StorePid ==
    /\ At("control", "pid")
    /\ counter_pid' = TRUE /\ started' = TRUE
    /\ End("control")
    /\ UNCHANGED <<reg, shadow, counter_interval, counter_notify, counter_sync_req,
                   sync_gnt, calls, history, request>>

ControlStep == StopGive \/ StopCheck \/ Fresh \/ Collect("control") \/ Launch \/ StorePid

-----------------------------------------------------------------------------
(* soc_robo_counter_thread.                                                 *)

\* It sleeps until its creator has stored its id, and creates its semaphore.
Boot ==
    /\ At("thread", "boot") /\ ~At("control", "pid")
    /\ counter_notify' = "0"
    /\ To("thread", "loop")
    /\ UNCHANGED <<reg, shadow, counter_interval, counter_pid, started,
                   counter_sync_req, sync_gnt, calls, history, request>>

Loop ==
    /\ At("thread", "loop")
    /\ To("thread", IF counter_interval THEN "take" ELSE "exit")
    /\ UNCHANGED <<reg, shadow, control, counter_sync_req, sync_gnt, calls, history,
                   request>>

\* Mutation: the wait has no timeout.
Take_Forever ==
    /\ At("thread", "take") /\ counter_notify = "1"
    /\ counter_notify' = "0"
    /\ To("thread", "awake")
    /\ UNCHANGED <<reg, shadow, counter_interval, counter_pid, started,
                   counter_sync_req, sync_gnt, calls, history, request>>

\* The semaphore is taken, or the interval is over.
Take ==
    /\ At("thread", "take")
    /\ counter_notify' = "0"
    /\ To("thread", "awake")
    /\ UNCHANGED <<reg, shadow, counter_interval, counter_pid, started,
                   counter_sync_req, sync_gnt, calls, history, request>>

\* A request that is there by now will be granted by this collection.
Awake ==
    /\ At("thread", "awake")
    /\ sync_gnt' = (counter_interval /\ counter_sync_req)
    /\ To("thread", IF counter_interval THEN "prev" ELSE "exit")
    /\ UNCHANGED <<reg, shadow, control, counter_sync_req, calls, history, request>>

\* Mutation: whatever has been requested by the end of a collection is granted.
Grant_All ==
    /\ At("thread", "grant")
    /\ counter_sync_req' = FALSE
    /\ sync_gnt' = FALSE
    /\ To("thread", "loop")
    /\ UNCHANGED <<reg, shadow, control, calls, history, request>>

Grant ==
    /\ At("thread", "grant")
    /\ counter_sync_req' = (counter_sync_req /\ ~sync_gnt)
    /\ sync_gnt' = FALSE
    /\ To("thread", "loop")
    /\ UNCHANGED <<reg, shadow, control, calls, history, request>>

\* Mutation: the id goes first.
ThreadExit_PidFirst ==
    /\ \/ /\ At("thread", "exit") /\ To("thread", "exited")
          /\ counter_pid' = FALSE
          /\ UNCHANGED counter_interval
       \/ /\ At("thread", "exited") /\ End("thread")
          /\ counter_interval' = FALSE
          /\ UNCHANGED counter_pid
    /\ UNCHANGED <<reg, shadow, counter_notify, started, counter_sync_req, sync_gnt,
                   calls, history, request>>

\* The thread ends: the interval is cleared, then the id.
ThreadExit ==
    /\ \/ /\ At("thread", "exit") /\ To("thread", "exited")
          /\ counter_interval' = FALSE
          /\ UNCHANGED counter_pid
       \/ /\ At("thread", "exited") /\ End("thread")
          /\ counter_pid' = FALSE
          /\ UNCHANGED counter_interval
    /\ UNCHANGED <<reg, shadow, counter_notify, started, counter_sync_req, sync_gnt,
                   calls, history, request>>

CounterThread == Boot \/ Loop \/ Take \/ Awake \/ Collect("thread") \/ Grant \/ ThreadExit

CountersNext ==
    \/ Count \/ CounterThread \/ ControlStep \/ CounterStart \/ CounterStop
    \/ \E u \in User : UserStep(u) \/ Get(u) \/ Set(u) \/ Sync(u)

\* The thread runs; calls and counts need not come.
CountersSpec ==
    /\ CountersInit /\ [][CountersNext]_counterVars
    /\ WF_counterVars(CounterThread) /\ WF_counterVars(ControlStep)

-----------------------------------------------------------------------------
(* Properties.                                                              *)

CountersTypeOK ==
    /\ reg \in Value /\ counter_hw_val \in Value /\ counter_sw_val \in Nat
    /\ {counter_interval, counter_pid, counter_sync_req, sync_gnt, started, overlap}
          \subseteq BOOLEAN
    /\ counter_notify \in {"NULL", "0", "1"}
    /\ \A p \in Proc : proc[p].prev \in Value /\ proc[p].new \in Value
                       /\ proc[p].sum \in Nat

\* The software counter and what the register has counted since it was last read
\* make up the hardware's counts since the last clear or start: nothing is lost at a
\* wrap, by a clear or by a start, until two parties update it at once.
Accounted ==
    ~overlap /\ Updating = {}
        => counter_sw_val + Difference(reg, counter_hw_val) = expected

\* A start launches no second thread beside one that has not ended, and that would
\* clear the new one's interval or id on its way out.
OneCounterThread == At("control", "launch") => At("thread", "idle")

\* "Ensures that ALL counter activity that occurred before the sync is reflected":
\* what was counted before the call is in the software counter when it succeeds.
SyncReflects(u) == At(u, "synced") => seen >= request[u].at

\* That is so for a sync with no other one beside it and no grant left over from
\* an earlier one.
SyncAlone == \A u \in User : ~request[u].shared => SyncReflects(u)

\* The code does not keep it otherwise.
SyncComplete == \A u \in User : SyncReflects(u)

\* While the thread runs every count is collected in the end.
Collected == (started /\ seen < total) ~> (~started \/ seen = total)
===============================================================================
