--------------------------- MODULE LinkScanControl ---------------------------
(***************************************************************************)
(* Starting and stopping the link scan thread (src/drivers/fsal/link.c):   *)
(* cbx_link_scan_init, _detach and _enable_set, called by application       *)
(* threads at any time, also beside each other, and the life of the threads  *)
(* they create.  What a scan does is the subject of module LinkScan.        *)
(*                                                                         *)
(* lc_thread is set by the new thread itself and is how enable_set knows     *)
(* whether there is one; nothing waits for a thread to end but a sleep.      *)
(* init and the end of detach take no lock at all.                          *)
(***************************************************************************)
EXTENDS Naturals, FiniteSets

CONSTANTS
    App,          \* the callers
    Thread,       \* the scan threads that can exist at one time
    NULL,         \* no thread (SAL_THREAD_ERROR)
    ZERO          \* what memset leaves in lc_thread

ASSUME ControlAssumption ==
    /\ NULL \notin Thread /\ NULL \notin App
    /\ ZERO \notin Thread /\ ZERO # NULL

VARIABLES
    init,        \* LINK_CNTL.init; the semaphore and the lock exist with it
    enabled,     \* lc_us # 0
    lc_thread,   \* the thread that scans, as far as the API knows
    lc_lock,     \* the caller that holds LC_LOCK
    app,         \* where each caller is, and in what call
    thread,      \* where each thread is
    asked,       \* history: what the last call asked for, once it has succeeded
    unseen,      \* history: a call found no thread while a created one had not run,
                 \* and not all threads have ended since
    beside       \* history: a call overlapped an init or the end of a detach, and
                 \* no init without threads and other calls has ended since

vars == <<init, enabled, lc_thread, lc_lock, app, thread, asked, unseen, beside>>

Outside == [at |-> "idle", call |-> "none"]

Init ==
    /\ init = FALSE /\ enabled = FALSE
    /\ lc_thread = NULL /\ lc_lock = NULL
    /\ app = [a \in App |-> Outside]
    /\ thread = [t \in Thread |-> "none"]
    /\ asked = "off"
    /\ unseen = FALSE /\ beside = FALSE

Alive   == {t \in Thread : thread[t] # "none"}
Created == {t \in Thread : thread[t] = "created"}

-----------------------------------------------------------------------------
(* The API.                                                                 *)

\* The caller is in an init, or at the end of a detach.
Unlocked(a) == app[a].at \in {"destroy", "init", "end"}

Alone(a) == \A b \in App \ {a} : app[b] = Outside

MoveTo(a, at) == app' = [app EXCEPT ![a] = [at |-> at, call |-> @.call]]
Return(a)     == app' = [app EXCEPT ![a] = Outside]

\* A call passes LC_CHECK_INIT and comes to LC_LOCK.  An init detaches first, with
\* interval zero, when the module is initialized.
Begin(a, call) ==
    /\ app[a] = Outside
    /\ init \/ call = "init"
    /\ app' = [app EXCEPT ![a] = [at   |-> IF init THEN "lock" ELSE "init",
                                  call |-> call]]
    /\ beside' = (beside \/ (\E b \in App : Unlocked(b)) \/ (~init /\ ~Alone(a)))
    /\ UNCHANGED <<init, enabled, lc_thread, lc_lock, thread, asked, unseen>>

\* The caller takes LC_LOCK.  It may have waited for it while another one detached:
\* while there is no lock to take it does not get on (in C it crashes).
Enters(a, calls) ==
    /\ app[a].at = "lock" /\ app[a].call \in calls
    /\ init /\ lc_lock = NULL

Unlock(a)     == lc_lock' = IF lc_lock = a THEN NULL ELSE lc_lock

\* The caller decides by lc_thread that there is no thread.
FindsNone ==
    /\ lc_thread = NULL
    /\ unseen' = (unseen \/ Created # {})

\* cbx_link_scan_enable_set with an interval, which is set first ...
EnableSet(a) ==
    /\ Enters(a, {"start"})
    /\ enabled' = TRUE /\ lc_lock' = a
    /\ MoveTo(a, "create")
    /\ asked' = "unknown"
    /\ UNCHANGED <<init, lc_thread, thread, unseen, beside>>

\* Mutation: a thread is created without a look for one that runs.
EnableThread_Always(a) ==
    /\ app[a].at = "create"
    /\ \E t \in Thread \ Alive : thread' = [thread EXCEPT ![t] = "created"]
    /\ asked' = "on"
    /\ Return(a) /\ Unlock(a)
    /\ UNCHANGED <<init, enabled, lc_thread, unseen, beside>>

\* ... and then a thread that is known is woken; when there is none one is created,
\* or the call fails.
EnableThread(a) ==
    /\ app[a].at = "create"
    /\ \/ /\ lc_thread # NULL
          /\ asked' = "on"
          /\ UNCHANGED <<enabled, thread, unseen>>
       \/ /\ FindsNone
          /\ \E t \in Thread \ Alive : thread' = [thread EXCEPT ![t] = "created"]
          /\ asked' = "on"
          /\ UNCHANGED enabled
       \/ /\ FindsNone
          /\ enabled' = FALSE /\ asked' = "unknown"
          /\ UNCHANGED thread
    /\ Return(a) /\ Unlock(a)
    /\ UNCHANGED <<init, lc_thread, beside>>

Stops == {"stop", "detach", "init"}

\* How a stop that has succeeded goes on: that was all, or detach does the rest.
Stopped(a) ==
    IF app[a].call = "stop"
    THEN Return(a) /\ UNCHANGED beside
    ELSE MoveTo(a, "destroy") /\ beside' = (beside \/ ~Alone(a))

\* cbx_link_scan_enable_set with interval zero, called by itself or by detach, when
\* no thread is known: there is nothing to stop, and nothing is changed.
DisableNothing(a) ==
    /\ Enters(a, Stops)
    /\ FindsNone
    /\ Stopped(a)
    /\ asked' = "off"
    /\ UNCHANGED <<init, enabled, lc_thread, lc_lock, thread>>

\* The same, when there is one: it is told to end, and the caller sleeps with
\* LC_LOCK held.
Disable(a) ==
    /\ Enters(a, Stops) /\ lc_thread # NULL
    /\ enabled' = FALSE
    /\ lc_lock' = a
    /\ MoveTo(a, "sleep")
    /\ asked' = "unknown"
    /\ UNCHANGED <<init, lc_thread, thread, unseen, beside>>

\* Mutation: the call succeeds without a look at whether the thread has ended.
DisableDone_Unchecked(a) ==
    /\ app[a].at = "sleep"
    /\ asked' = "off"
    /\ Stopped(a) /\ Unlock(a)
    /\ UNCHANGED <<init, enabled, lc_thread, thread, unseen>>

\* The wait is over.  The call fails when the thread is still there.
DisableDone(a) ==
    /\ app[a].at = "sleep"
    /\ \/ /\ FindsNone
          /\ asked' = "off" /\ Stopped(a)
       \/ /\ lc_thread # NULL
          /\ asked' = "failed" /\ Return(a)
          /\ UNCHANGED <<unseen, beside>>
    /\ Unlock(a)
    /\ UNCHANGED <<init, enabled, lc_thread, thread>>

\* The end of cbx_link_scan_detach, which holds no lock: the handlers are freed
\* and the semaphore and the lock destroyed.
Destroy(a) ==
    /\ app[a].at = "destroy"
    /\ IF app[a].call = "init" THEN MoveTo(a, "init") ELSE Return(a)
    /\ init' = FALSE /\ lc_lock' = NULL
    /\ UNCHANGED <<enabled, lc_thread, thread, asked, unseen, beside>>

\* cbx_link_scan_init clears everything and makes the lock and the semaphore ...
LinkScanInit(a) ==
    /\ app[a].at = "init"
    /\ init' = TRUE /\ enabled' = FALSE
    /\ lc_thread' = ZERO /\ lc_lock' = NULL
    /\ MoveTo(a, "end")
    /\ UNCHANGED <<thread, asked, unseen, beside>>

\* ... one of which may fail to be made ...
InitFails(a) ==
    /\ app[a].at = "init"
    /\ init' = FALSE /\ enabled' = FALSE
    /\ lc_thread' = ZERO /\ lc_lock' = NULL
    /\ Return(a)
    /\ UNCHANGED <<thread, asked, unseen, beside>>

\* ... and says behind init = TRUE that there is no thread.
InitEnd(a) ==
    /\ app[a].at = "end"
    /\ lc_thread' = NULL
    /\ Return(a)
    /\ beside' = (beside /\ ~(Alone(a) /\ Alive = {}))
    /\ UNCHANGED <<init, enabled, lc_lock, thread, asked, unseen>>

-----------------------------------------------------------------------------
(* cbxi_robo2_link_scan_thread.                                             *)

Start(t) ==
    /\ thread[t] = "created"
    /\ thread' = [thread EXCEPT ![t] = "check"]
    /\ lc_thread' = t
    /\ UNCHANGED <<init, enabled, lc_lock, app, asked, unseen, beside>>

\* The condition of the loop.
Check(t) ==
    /\ thread[t] = "check"
    /\ thread' = [thread EXCEPT ![t] = IF enabled THEN "scan" ELSE "exit"]
    /\ UNCHANGED <<init, enabled, lc_thread, lc_lock, app, asked, unseen, beside>>

\* All ports are scanned and the thread takes the semaphore, for the interval at
\* most.
Scan(t) ==
    /\ thread[t] = "scan"
    /\ thread' = [thread EXCEPT ![t] = "sleep"]
    /\ UNCHANGED <<init, enabled, lc_thread, lc_lock, app, asked, unseen, beside>>

\* Mutation: a wait that times out ends the thread.
Wake_Ends(t) ==
    /\ thread[t] = "sleep"
    /\ thread' = [thread EXCEPT ![t] = "exit"]
    /\ UNCHANGED <<init, enabled, lc_thread, lc_lock, app, asked, unseen, beside>>

Wake(t) ==
    /\ thread[t] = "sleep"
    /\ thread' = [thread EXCEPT ![t] = "check"]
    /\ UNCHANGED <<init, enabled, lc_thread, lc_lock, app, asked, unseen, beside>>

Exit(t) ==
    /\ thread[t] = "exit"
    /\ thread' = [thread EXCEPT ![t] = "none"]
    /\ lc_thread' = NULL
    /\ unseen' = (unseen /\ Alive # {t})
    /\ UNCHANGED <<init, enabled, lc_lock, app, asked, beside>>

ThreadStep(t) == Start(t) \/ Check(t) \/ Scan(t) \/ Wake(t) \/ Exit(t)

Next ==
    \/ \E a \in App :
          \/ \E call \in {"start", "stop", "detach", "init"} : Begin(a, call)
          \/ EnableSet(a) \/ EnableThread(a)
          \/ DisableNothing(a) \/ Disable(a) \/ DisableDone(a)
          \/ Destroy(a) \/ LinkScanInit(a) \/ InitFails(a) \/ InitEnd(a)
    \/ \E t \in Thread : ThreadStep(t)

\* Threads that can run do run; nobody has to call the API.
Spec == Init /\ [][Next]_vars /\ \A t \in Thread : WF_vars(ThreadStep(t))

-----------------------------------------------------------------------------
(* Properties.                                                              *)

\* Every caller and thread is somewhere in its code.
TypeOK ==
    /\ init \in BOOLEAN /\ enabled \in BOOLEAN
    /\ lc_thread \in Thread \cup {NULL, ZERO}
    /\ lc_lock \in App \cup {NULL}
    /\ app \in [App -> [at : {"idle", "lock", "create", "sleep", "destroy", "init", "end"},
                        call : {"none", "start", "stop", "detach", "init"}]]
    /\ thread \in [Thread -> {"none", "created", "check", "scan", "sleep", "exit"}]
    /\ asked \in {"on", "off", "unknown", "failed"}
    /\ unseen \in BOOLEAN /\ beside \in BOOLEAN

\* There is at most one scan thread, unless a call has looked for one before it ran
\* or has overlapped an init or the end of a detach: two would share the link
\* bitmaps and the list of handlers without a lock.
OneThread == ~unseen /\ ~beside => Cardinality(Alive) <= 1

\* After a call that stopped the scan and succeeded there is no scan thread, with
\* the same two exceptions.
StoppedMeansStopped == ~unseen /\ ~beside => (asked = "off" => Alive = {})

\* A thread that scans or sleeps finds its semaphore, with the same exceptions: a
\* detach that gave up on a slow thread, and an init that did, destroy nothing.
SemaphoreExists ==
    ~unseen /\ ~beside => (\A t \in Thread : thread[t] \in {"scan", "sleep"} => init)

\* When the last call was a stop that succeeded nothing is scanned, whatever calls
\* came before.  The code does not keep this: a stop that comes before a created
\* thread has run stops nothing.
NoScanWhenStopped ==
    asked = "off" /\ (\A a \in App : app[a] = Outside) =>
        \A t \in Thread : thread[t] # "scan"

\* As long as no stop fails for a scan that takes longer than the caller waits, and
\* the two exceptions do not happen: after a call that started the scan and
\* succeeded the ports are scanned, again and again, until a call stops it.
ScansWhileEnabled ==
    [](asked # "failed" /\ ~unseen /\ ~beside) =>
        []<>(asked # "on" \/ \E t \in Thread : thread[t] = "scan")
==============================================================================
