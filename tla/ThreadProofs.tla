----------------------------- MODULE ThreadProofs ----------------------------
(*****************************************************************************)
(* The polling threads: link scan control, the scan itself (LinkScan) and the *)
(* counter thread (Counters).  The three share no variable: each theorem is   *)
(* about the specification of one of them.                                    *)
(*                                                                            *)
(* A scan thread is unique, ends before its stop succeeds, and does not       *)
(* outlive its semaphore, for any callers whose calls overlap as they like,    *)
(* until a start or a stop has come before a created thread has run (`unseen') *)
(* or something has come beside an init or a detach (`beside'): TLC shows that  *)
(* it does not hold then.                                                     *)
(*                                                                            *)
(* A scan that reports a change tells every handler, though others free the    *)
(* list's entries under it, and the spanning tree states that a scan has set   *)
(* match the links, for any ports, groups and handlers.                        *)
(*                                                                            *)
(* The counter thread loses no count, is the only one, and serves a sync that *)
(* nobody disturbs, for any width of the counter and any callers.             *)
(*****************************************************************************)
EXTENDS LinkScanControl, LinkScan, Counters, FiniteSetTheorems, TLAPS

(* Who scans and when (LinkScanControl).                                    *)

Running == {t \in Thread : thread[t] \in {"check", "scan", "sleep", "exit"}}

(* A caller that decides or waits holds the lock, and one in an init or at the *)
(* end of a detach has all others idle, until such a call overlaps another.   *)
LockInv ==
    ~beside =>
        \A a \in App :
            /\ app[a].at \in {"create", "sleep"} => lc_lock = a /\ init = TRUE
            /\ Unlocked(a) => Alone(a)

(* Unless a created thread was not seen either, the running thread is the one  *)
(* the API knows of, and one that is created is the only one.                 *)
KnownInv ==
    ~unseen /\ ~beside =>
        /\ \A t \in Running : lc_thread = t
        /\ Created # {} => Running = {} /\ lc_thread = NULL
        /\ \A t, u \in Created : t = u
        /\ asked = "off" => Alive = {}
        /\ \A a \in App : app[a].at = "sleep" => Created = {}
        /\ \A a \in App : Unlocked(a) => Alive = {}
        /\ Alive # {} => init = TRUE

ControlInv == TypeOK /\ LockInv /\ KnownInv

LEMMA AliveParts ==
  ASSUME TypeOK PROVE Alive = Created \cup Running
BY DEF TypeOK, Alive, Created, Running

AppTypes == [App -> [at : {"idle", "lock", "create", "sleep", "destroy", "init", "end"},
                     call : {"none", "start", "stop", "detach", "init"}]]

\* A caller goes on or returns, and the others stay where they are.
LEMMA CallerMoves ==
  ASSUME TypeOK, NEW a \in App, NEW at \in {"create", "sleep", "destroy", "init", "end"},
         MoveTo(a, at)
  PROVE  /\ app' \in AppTypes /\ app'[a].at = at
         /\ \A b \in App \ {a} : app'[b] = app[b]
BY DEF MoveTo, TypeOK, AppTypes

LEMMA CallerReturns ==
  ASSUME TypeOK, NEW a \in App, Return(a)
  PROVE  /\ app' \in AppTypes /\ app'[a] = Outside /\ app'[a].at = "idle"
         /\ \A b \in App \ {a} : app'[b] = app[b]
BY DEF Return, Outside, TypeOK, AppTypes

LEMMA StopMoves ==
  ASSUME TypeOK, NEW a \in App, Stopped(a)
  PROVE  /\ app' \in AppTypes /\ beside' \in BOOLEAN
         /\ \A b \in App \ {a} : app'[b] = app[b]
         /\ app'[a].at \in {"idle", "destroy"}
         /\ beside' = FALSE => beside = FALSE
         /\ beside' = FALSE /\ app'[a].at = "destroy" => Alone(a)
<1>1. CASE app[a].call = "stop"
  BY <1>1, CallerReturns DEF Stopped, TypeOK
<1>2. CASE app[a].call # "stop"
  BY <1>2, CallerMoves DEF Stopped, TypeOK
<1> QED BY <1>1, <1>2

\* Every caller and thread is somewhere in its code, whatever overlaps.
LEMMA ControlTypes == ASSUME TypeOK, [Next]_vars PROVE TypeOK'
<1> USE DEF TypeOK, MoveTo, Return, Outside
<1>1. ASSUME NEW a \in App, NEW call \in {"start", "stop", "detach", "init"}, Begin(a, call)
      PROVE  TypeOK'
  <2>1. app' \in [App -> [at : {"idle", "lock", "create", "sleep", "destroy", "init", "end"},
                          call : {"none", "start", "stop", "detach", "init"}]]
    BY <1>1 DEF Begin
  <2>2. UNCHANGED <<init, enabled, lc_thread, lc_lock, thread, asked, unseen>> /\ beside' \in BOOLEAN
    BY <1>1 DEF Begin
  <2> QED BY <2>1, <2>2
<1>2. ASSUME NEW a \in App, EnableSet(a) PROVE TypeOK'
  BY <1>2 DEF EnableSet
<1>3. ASSUME NEW a \in App, EnableThread(a) PROVE TypeOK'
  BY <1>3 DEF EnableThread, FindsNone, Unlock
<1>4. ASSUME NEW a \in App, DisableNothing(a) PROVE TypeOK'
  <2>1. app' \in AppTypes /\ beside' \in BOOLEAN /\ unseen' \in BOOLEAN
    BY <1>4, StopMoves DEF DisableNothing, FindsNone
  <2> QED BY <1>4, <2>1 DEF DisableNothing, AppTypes
<1>5. ASSUME NEW a \in App, Disable(a) PROVE TypeOK'
  BY <1>5 DEF Disable
<1>6. ASSUME NEW a \in App, DisableDone(a) PROVE TypeOK'
  <2>1. app' \in AppTypes /\ beside' \in BOOLEAN /\ unseen' \in BOOLEAN
    BY <1>6, StopMoves, CallerReturns DEF DisableDone, FindsNone
  <2> QED BY <1>6, <2>1 DEF DisableDone, Unlock, AppTypes
<1>7. ASSUME NEW a \in App, Destroy(a) PROVE TypeOK'
  <2>1. app' \in AppTypes
    BY <1>7, CallerMoves, CallerReturns DEF Destroy
  <2> QED BY <1>7, <2>1 DEF Destroy, AppTypes
<1>8. ASSUME NEW a \in App, LinkScanInit(a) \/ InitFails(a) \/ InitEnd(a) PROVE TypeOK'
  <2>1. app' \in AppTypes
    BY <1>8, CallerMoves, CallerReturns DEF LinkScanInit, InitFails, InitEnd
  <2> QED BY <1>8, <2>1 DEF LinkScanInit, InitFails, InitEnd, AppTypes
<1>9. ASSUME NEW t \in Thread, ThreadStep(t) PROVE TypeOK'
  BY <1>9 DEF ThreadStep, Start, Check, Scan, Wake, Exit
<1>10. CASE UNCHANGED vars
  BY <1>10 DEF vars
<1> QED BY <1>1, <1>2, <1>3, <1>4, <1>5, <1>6, <1>7, <1>8, <1>9, <1>10 DEF Next

LEMMA ControlLocks == ASSUME TypeOK, LockInv, [Next]_vars PROVE LockInv'
<1> SUFFICES ASSUME beside' = FALSE PROVE LockInv'
  BY ControlTypes DEF LockInv, TypeOK
<1> USE DEF MoveTo, Return, Outside, Unlocked, TypeOK
<1>0. ASSUME beside = FALSE
      PROVE  \A a \in App : /\ app[a].at \in {"create", "sleep"} => lc_lock = a /\ init = TRUE
                            /\ Unlocked(a) => Alone(a)
  BY <1>0 DEF LockInv
<1>u. ASSUME beside = FALSE, NEW a \in App, app[a].at # "idle"
      PROVE  \A b \in App \ {a} : ~Unlocked(b)
  <2> SUFFICES ASSUME NEW b \in App \ {a}, Unlocked(b) PROVE FALSE
    OBVIOUS
  <2>1. app[a] = Outside
    BY <1>0, <1>u DEF Alone
  <2> QED BY <1>u, <2>1
<1>n. ASSUME NEW a \in App, Alone(a), \A b \in App \ {a} : app'[b] = app[b] PROVE Alone(a)'
  BY <1>n DEF Alone
<1>a. ASSUME UNCHANGED <<app, lc_lock, init, beside>> PROVE LockInv'
  BY <1>a DEF LockInv, Alone
\* A step of a caller that leaves the others where they are.
<1>m. ASSUME NEW a \in App, \A b \in App \ {a} : app'[b] = app[b], beside = FALSE,
             \A b \in App \ {a} :
                app[b].at \in {"create", "sleep"} => lc_lock' = b /\ init' = TRUE,
             \A b \in App \ {a} : Unlocked(b) => Alone(b)',
             app'[a].at \in {"create", "sleep"} => lc_lock' = a /\ init' = TRUE,
             Unlocked(a)' => Alone(a)'
      PROVE  LockInv'
  BY <1>m DEF LockInv
<1>1. ASSUME NEW a \in App, NEW call \in {"start", "stop", "detach", "init"}, Begin(a, call)
      PROVE  LockInv'
  <2>1. /\ beside = FALSE /\ (\A b \in App : ~Unlocked(b)) /\ (init \/ Alone(a))
        /\ \A b \in App \ {a} : app'[b] = app[b]
        /\ app'[a].at = IF init THEN "lock" ELSE "init"
        /\ lc_lock' = lc_lock /\ init' = init
    BY <1>1 DEF Begin
  <2>2. \A b \in App \ {a} :
           app[b].at \in {"create", "sleep"} => lc_lock' = b /\ init' = TRUE
    BY <1>0, <2>1
  <2>3. Unlocked(a)' => Alone(a)'
    BY <1>n, <2>1
  <2> QED BY <1>m, <2>1, <2>2, <2>3
<1>2. ASSUME NEW a \in App, EnableSet(a) \/ Disable(a) PROVE LockInv'
  <2>1. /\ beside = FALSE /\ lc_lock = NULL /\ lc_lock' = a /\ init = TRUE /\ init' = TRUE
        /\ app[a].at = "lock" /\ app'[a].at \in {"create", "sleep"}
        /\ \A b \in App \ {a} : app'[b] = app[b]
    BY <1>2 DEF EnableSet, Disable, Enters
  <2>2. \A b \in App : app[b].at \notin {"create", "sleep"}
    BY <1>0, <2>1, ControlAssumption
  <2>3. \A b \in App \ {a} : ~Unlocked(b)
    BY <1>u, <2>1
  <2> QED BY <1>m, <2>1, <2>2, <2>3
<1>3. ASSUME NEW a \in App, EnableThread(a) \/ DisableNothing(a) \/ DisableDone(a) PROVE LockInv'
  <2>1. /\ beside = FALSE /\ init' = init
        /\ app[a].at # "idle"
        /\ \A b \in App \ {a} : app'[b] = app[b]
        /\ \/ lc_lock' = lc_lock
           \/ lc_lock = a
        /\ \/ app'[a].at = "idle"
           \/ app'[a].at = "destroy" /\ Alone(a)
    <3>1. CASE EnableThread(a)
      BY <3>1, CallerReturns DEF EnableThread, Unlock
    <3>2. CASE DisableNothing(a)
      BY <3>2, StopMoves DEF DisableNothing, Enters
    <3>3. CASE DisableDone(a)
      <4>1. CASE Stopped(a)
        BY <3>3, <4>1, StopMoves DEF DisableDone, Unlock
      <4>2. CASE Return(a) /\ beside' = beside
        BY <3>3, <4>2, CallerReturns DEF DisableDone, Unlock
      <4> QED BY <3>3, <4>1, <4>2 DEF DisableDone
    <3> QED BY <1>3, <3>1, <3>2, <3>3
  <2>2. \A b \in App \ {a} : app[b].at \in {"create", "sleep"} => lc_lock' = b /\ init' = TRUE
    BY <1>0, <2>1
  <2>3. \A b \in App \ {a} : ~Unlocked(b)
    BY <1>u, <2>1
  <2>4. Unlocked(a)' => Alone(a)'
    BY <1>n, <2>1
  <2> QED BY <1>m, <2>1, <2>2, <2>3, <2>4
<1>4. ASSUME NEW a \in App, Destroy(a) \/ LinkScanInit(a) \/ InitFails(a) PROVE LockInv'
  <2>1. /\ beside = FALSE /\ Unlocked(a)
        /\ \A b \in App \ {a} : app'[b] = app[b]
        /\ app'[a].at \notin {"create", "sleep"}
    BY <1>4 DEF Destroy, LinkScanInit, InitFails
  <2>2. Alone(a)
    BY <1>0, <2>1
  <2>3. Alone(a)' /\ \A b \in App \ {a} : app[b].at = "idle"
    BY <1>n, <2>1, <2>2 DEF Alone
  <2> QED BY <1>m, <2>1, <2>3
<1>5. ASSUME NEW a \in App, InitEnd(a) PROVE LockInv'
  <2>1. /\ Alone(a) /\ app'[a] = Outside
        /\ \A b \in App \ {a} : app'[b] = app[b]
    BY <1>0, <1>5 DEF InitEnd, Alone
  <2>2. \A b \in App : app'[b] = Outside
    BY <2>1 DEF Alone
  <2> QED BY <2>2 DEF LockInv
<1>6. ASSUME NEW t \in Thread, ThreadStep(t) PROVE LockInv'
  BY <1>6, <1>a DEF ThreadStep, Start, Check, Scan, Wake, Exit
<1>7. CASE UNCHANGED vars
  BY <1>7, <1>a DEF vars
<1> QED BY <1>1, <1>2, <1>3, <1>4, <1>5, <1>6, <1>7 DEF Next

LEMMA ControlInit == Init => ControlInv
<1> SUFFICES ASSUME Init PROVE ControlInv
  OBVIOUS
<1>1. TypeOK /\ Alive = {} /\ Running = {} /\ Created = {}
  BY DEF Init, TypeOK, Outside, Alive, Running, Created
<1>2. \A a \in App : app[a].at = "idle"
  BY DEF Init, Outside
<1> QED BY <1>1, <1>2 DEF ControlInv, LockInv, KnownInv, Unlocked

LEMMA ControlKnown ==
  ASSUME TypeOK, LockInv, KnownInv, [Next]_vars PROVE KnownInv'
<1> SUFFICES ASSUME unseen' = FALSE, beside' = FALSE PROVE KnownInv'
  BY ControlTypes DEF KnownInv, TypeOK
<1> USE DEF Outside, Unlocked
<1>t. TypeOK'
  BY ControlTypes
<1>p. /\ Alive = Created \cup Running /\ Alive' = Created' \cup Running'
      /\ Created \subseteq Thread /\ Running \subseteq Thread
  BY <1>t DEF TypeOK, Alive, Created, Running
\* What holds beside a call while it holds.
<1>0. ASSUME unseen = FALSE, beside = FALSE
      PROVE  /\ \A t \in Running : lc_thread = t
             /\ Created # {} => Running = {} /\ lc_thread = NULL
             /\ \A t, u \in Created : t = u
             /\ asked = "off" => Alive = {}
             /\ \A a \in App : app[a].at = "sleep" => Created = {}
             /\ \A a \in App : app[a].at \in {"destroy", "init", "end"} => Alive = {}
             /\ Alive # {} => init = TRUE
  BY <1>0 DEF KnownInv
<1>r. ASSUME lc_thread = NULL, unseen = FALSE, beside = FALSE PROVE Running = {}
  BY <1>0, <1>r, <1>p, ControlAssumption
<1>s. ASSUME thread' = thread PROVE Created' = Created /\ Running' = Running /\ Alive' = Alive
  BY <1>s DEF Created, Running, Alive
<1>e. ASSUME Alive' = {} PROVE KnownInv'
  BY <1>e, <1>p DEF KnownInv
<1>1. ASSUME NEW a \in App, NEW call \in {"start", "stop", "detach", "init"}, Begin(a, call)
      PROVE  KnownInv'
  <2>1. /\ beside = FALSE /\ unseen = FALSE /\ (\A b \in App : ~Unlocked(b))
        /\ \A b \in App \ {a} : app'[b] = app[b]
        /\ app'[a].at = IF init THEN "lock" ELSE "init"
        /\ UNCHANGED <<lc_thread, init, asked, thread>>
    BY <1>1 DEF Begin, TypeOK
  <2> QED BY <1>0, <1>s, <2>1 DEF KnownInv
<1>2. ASSUME NEW a \in App, EnableSet(a) \/ Disable(a) PROVE KnownInv'
  <2>1. /\ beside = FALSE /\ unseen = FALSE
        /\ \A b \in App \ {a} : app'[b] = app[b]
        /\ app'[a].at \in {"create", "sleep"}
        /\ asked' = "unknown"
        /\ UNCHANGED <<lc_thread, init, thread>>
        /\ app'[a].at = "sleep" => lc_thread # NULL
    BY <1>2 DEF EnableSet, Disable, Enters, TypeOK, MoveTo
  <2> QED BY <1>0, <1>s, <2>1 DEF KnownInv
<1>3. ASSUME NEW a \in App, EnableThread(a) PROVE KnownInv'
  <2>1. /\ beside = FALSE /\ unseen = FALSE /\ app[a].at = "create"
        /\ \A b \in App \ {a} : app'[b] = app[b]
        /\ app'[a].at = "idle"
        /\ asked' # "off"
        /\ UNCHANGED <<lc_thread, init>>
    BY <1>3 DEF EnableThread, FindsNone, TypeOK, Return
  <2>2. CASE thread' = thread
    BY <1>0, <1>s, <2>1, <2>2 DEF KnownInv
  <2>3. CASE thread' # thread
    <3>1. PICK t \in Thread \ Alive : thread' = [thread EXCEPT ![t] = "created"]
      BY <1>3, <2>3 DEF EnableThread
    <3>2. lc_thread = NULL /\ Created = {} /\ Running = {}
      BY <1>3, <1>r, <2>1, <2>3 DEF EnableThread, FindsNone
    <3>3. Created' = {t} /\ Running' = {} /\ Alive' = {t}
      BY <1>p, <3>1, <3>2 DEF TypeOK, Running, Created, Alive
    <3>4. lc_lock = a /\ init = TRUE
      BY <2>1 DEF LockInv
    <3>5. \A b \in App \ {a} : app[b].at # "sleep"
      BY <2>1, <3>4 DEF LockInv
    <3>6. \A b \in App \ {a} : ~Unlocked(b)
      <4> SUFFICES ASSUME NEW b \in App \ {a}, Unlocked(b) PROVE FALSE
        OBVIOUS
      <4>1. app[a] = Outside
        BY <2>1 DEF LockInv, Alone
      <4> QED BY <2>1, <4>1
    <3> QED BY <2>1, <3>2, <3>3, <3>4, <3>5, <3>6 DEF KnownInv
  <2> QED BY <2>2, <2>3
<1>4. ASSUME NEW a \in App, DisableNothing(a) \/ DisableDone(a) PROVE KnownInv'
  <2>1. /\ beside = FALSE /\ unseen = FALSE
        /\ \A b \in App \ {a} : app'[b] = app[b]
        /\ app'[a].at \in {"idle", "destroy"}
        /\ UNCHANGED <<lc_thread, init, thread>>
        /\ \/ lc_thread = NULL /\ Created = {}
           \/ asked' = "failed" /\ app'[a].at = "idle"
    <3>1. CASE Stopped(a) /\ FindsNone
      <4>1. lc_thread = NULL /\ Created = {} /\ unseen = FALSE
        BY <3>1 DEF FindsNone, TypeOK
      <4> QED BY <1>4, <3>1, <4>1, StopMoves DEF DisableNothing, DisableDone
    <3>2. CASE Return(a) /\ asked' = "failed" /\ UNCHANGED <<unseen, beside>>
      BY <1>4, <3>2, CallerReturns DEF DisableNothing, DisableDone
    <3> QED BY <1>4, <3>1, <3>2 DEF DisableNothing, DisableDone
  <2>2. CASE lc_thread = NULL /\ Created = {}
    <3>1. Alive = {}
      BY <1>p, <1>r, <2>1, <2>2
    <3> QED BY <1>e, <1>s, <2>1, <3>1
  <2>3. CASE asked' = "failed" /\ app'[a].at = "idle"
    BY <1>0, <1>s, <2>1, <2>3 DEF KnownInv
  <2> QED BY <2>1, <2>2, <2>3
<1>5. ASSUME NEW a \in App, Destroy(a) \/ LinkScanInit(a) \/ InitFails(a) PROVE KnownInv'
  <2>1. beside = FALSE /\ unseen = FALSE /\ thread' = thread /\ Unlocked(a)
    BY <1>5 DEF Destroy, LinkScanInit, InitFails
  <2>2. Alive' = {}
    BY <1>0, <1>s, <2>1
  <2> QED BY <1>e, <2>2
<1>6. ASSUME NEW a \in App, InitEnd(a) PROVE KnownInv'
  <2>1. unseen = FALSE /\ thread' = thread /\ Unlocked(a) /\ (beside = FALSE \/ Alive = {})
    BY <1>6 DEF InitEnd, TypeOK
  <2>2. Alive' = {}
    BY <1>0, <1>s, <2>1
  <2> QED BY <1>e, <2>2
<1>7. ASSUME NEW t \in Thread, Start(t) PROVE KnownInv'
  <2>1. /\ beside = FALSE /\ unseen = FALSE /\ t \in Created /\ lc_thread' = t
        /\ UNCHANGED <<init, app, asked>>
    BY <1>7 DEF Start, Created
  <2>2. Created = {t} /\ Running = {}
    BY <1>0, <2>1
  <2>3. Created' = {} /\ Running' = {t} /\ Alive' = {t}
    BY <1>7, <1>p, <2>2 DEF Start, TypeOK, Created, Running, Alive
  <2>4. t \in Alive /\ asked # "off" /\ init = TRUE /\ \A a \in App : ~Unlocked(a)
    BY <1>0, <1>p, <2>1
  <2> QED BY <2>1, <2>3, <2>4 DEF KnownInv
<1>8. ASSUME NEW t \in Thread, Check(t) \/ Scan(t) \/ Wake(t) PROVE KnownInv'
  <2>1. Created' = Created /\ Running' = Running /\ Alive' = Alive
    BY <1>8 DEF Check, Scan, Wake, TypeOK, Created, Running, Alive
  <2>2. UNCHANGED <<init, lc_thread, app, asked, unseen, beside>>
    BY <1>8 DEF Check, Scan, Wake
  <2> QED BY <1>0, <2>1, <2>2 DEF KnownInv
<1>9. ASSUME NEW t \in Thread, Exit(t) PROVE KnownInv'
  <2>1. /\ beside = FALSE /\ t \in Running /\ unseen' = (unseen /\ Alive # {t})
        /\ thread' = [thread EXCEPT ![t] = "none"]
    BY <1>9 DEF Exit, Running
  <2>2. Alive = {t}
    <3>1. CASE unseen = FALSE
      BY <1>0, <1>p, <2>1, <3>1
    <3>2. CASE unseen # FALSE
      BY <2>1, <3>2 DEF TypeOK
    <3> QED BY <3>1, <3>2
  <2>3. Alive' = {}
    BY <2>1, <2>2 DEF TypeOK, Alive
  <2> QED BY <1>e, <2>3
<1>10. CASE UNCHANGED vars
  <2>1. UNCHANGED <<init, lc_thread, app, asked, unseen, beside, thread>>
    BY <1>10 DEF vars
  <2> QED BY <1>0, <1>s, <2>1 DEF KnownInv
<1> QED BY <1>1, <1>2, <1>3, <1>4, <1>5, <1>6, <1>7, <1>8, <1>9, <1>10 DEF Next, ThreadStep

LEMMA ControlInvariant == Spec => []ControlInv
<1>1. ControlInv /\ [Next]_vars => ControlInv'
  BY ControlTypes, ControlLocks, ControlKnown DEF ControlInv
<1> QED BY <1>1, ControlInit, PTL DEF Spec

\* Every caller and thread is somewhere in its code, whatever calls overlap.
THEOREM LinkScanTypeOK == Spec => []TypeOK
<1>1. ControlInv => TypeOK
  BY DEF ControlInv
<1> QED BY <1>1, ControlInvariant, PTL

\* There is at most one scan thread, but for the calls that found none before it ran
\* or overlapped an init or the end of a detach.
THEOREM LinkScanOneThread == Spec => []OneThread
<1>1. ControlInv => OneThread
  <2> SUFFICES ASSUME ControlInv, ~unseen, ~beside PROVE Cardinality(Alive) <= 1
    BY DEF OneThread
  <2>1. Alive = Created \cup Running
    BY AliveParts DEF ControlInv
  <2>2. \A t, u \in Alive : t = u
    BY <2>1 DEF ControlInv, KnownInv
  <2>3. CASE Alive = {}
    BY <2>3, FS_EmptySet
  <2>4. CASE Alive # {}
    <3>1. PICK t \in Alive : Alive = {t}
      BY <2>2, <2>4
    <3>2. Cardinality(Alive) = 1
      BY <3>1, FS_Singleton
    <3> QED BY <3>2
  <2> QED BY <2>3, <2>4
<1> QED BY <1>1, ControlInvariant, PTL

\* A call that stopped the scan and succeeded has left no scan thread, with the same
\* exceptions: also a stop made by a detach, or by an init.
THEOREM LinkScanStops == Spec => []StoppedMeansStopped
<1>1. ControlInv => StoppedMeansStopped
  BY DEF ControlInv, KnownInv, StoppedMeansStopped
<1> QED BY <1>1, ControlInvariant, PTL

\* A thread that scans or sleeps has its semaphore, with the same exceptions.
THEOREM LinkScanSemaphore == Spec => []SemaphoreExists
<1>1. ControlInv => SemaphoreExists
  BY DEF ControlInv, KnownInv, SemaphoreExists, Alive
<1> QED BY <1>1, ControlInvariant, PTL

-----------------------------------------------------------------------------
(* What a scan does (LinkScan): the walk of the handlers' list.              *)

(* Each live entry has a handler of its own, which knows the ports that no    *)
(* failure has lost, but for the one a walk is reporting.                     *)
Told ==
    /\ \A e \in live : heap[e].lh_f \in Handler
    /\ \A e, f \in live : heap[e].lh_f = heap[f].lh_f => e = f
    /\ scan.pc = "notify" => scan.new = lc_pbm_link[scan.port]
    /\ scan.pc # "crashed" =>
          \A e \in live : \A p \in Port \ unsure :
              \/ scan.pc = "notify" /\ p = scan.port
              \/ told[heap[e].lh_f][p] = lc_pbm_link[p]

(* The time an entry was put into the list; the end of the list is older than *)
(* every entry.                                                               *)
Stamp(born, e) == IF e = NONE THEN 0 ELSE born[e]

(* Between an entry and the one it points to, and in front of the head, there *)
(* is no live entry: older entries are behind newer ones.  This also holds of *)
(* freed memory.  A live entry newer than the one the walk goes on with has   *)
(* been told of the port.                                                     *)
Ordered(born, top) ==
    /\ \A e \in Entry : born[e] < top
    /\ \A x \in live : born[x] > 0
    /\ \A e \in Entry : \A x \in live : born[x] = born[e] => x = e
    /\ \A e \in Entry : \A x \in live :
          born[x] < born[e] => born[x] <= Stamp(born, heap[e].lh_next)
    /\ \A x \in live : born[x] <= Stamp(born, lc_handler)
    /\ scan.pc = "notify" =>
          \A x \in live : born[x] > Stamp(born, scan.next) =>
              told[heap[x].lh_f][scan.port] = lc_pbm_link[scan.port]

InOrder == \E born \in [Entry -> Nat], top \in Nat : Ordered(born, top)

LinkInv == ScanTypeOK /\ Told /\ StpMatchesLinks /\ InOrder

LEMMA NextPortIs ==
  ASSUME NEW p \in Port
  PROVE  /\ NextPort(p) \in [pc : {"sleep", "read"}, port : Port, new : BOOLEAN,
                             next : Entry \cup {NONE}]
         /\ NextPort(p).pc \in {"sleep", "read"}
BY PortAssumption DEF NextPort, ScanAt, Port

LEMMA LinkInit == ASSUME ScanInit PROVE LinkInv
<1>1. 1 \in Port
  BY PortAssumption DEF Port
<1>2. scan = [pc |-> "sleep", port |-> 1, new |-> FALSE, next |-> NONE]
  BY DEF ScanInit, ScanAt
<1>3. ScanTypeOK
  <2>1. heap \in [Entry -> [lh_f : Handler \cup {NONE}, lh_next : Entry \cup {NONE}]]
    BY DEF ScanInit
  <2>2. scan \in [pc : {"sleep", "read", "update", "notify", "crashed"}, port : Port,
                  new : BOOLEAN, next : Entry \cup {NONE}]
    BY <1>1, <1>2
  <2>3. told \in [Handler -> [Port -> BOOLEAN]] /\ lc_pbm_link \in [Port -> BOOLEAN]
    BY DEF ScanInit
  <2> QED BY <2>1, <2>2, <2>3 DEF ScanInit, ScanTypeOK
<1>4. Told /\ StpMatchesLinks
  <2>1. live = {} /\ scan.pc = "sleep" /\ unset = Port
    BY <1>2 DEF ScanInit
  <2> QED BY <2>1 DEF Told, StpMatchesLinks
<1>5. Ordered([e \in Entry |-> 0], 1)
  BY <1>2 DEF ScanInit, Ordered, Stamp
<1>6. InOrder
  <2>1. [e \in Entry |-> 0] \in [Entry -> Nat] /\ 1 \in Nat
    OBVIOUS
  <2> QED BY <1>5, <2>1 DEF InOrder
<1> QED BY <1>3, <1>4, <1>6 DEF LinkInv

(* A step that leaves the list alone, and that neither reports nor loses      *)
(* anything, keeps what the handlers know and the order.                      *)
LEMMA QuietKeeps ==
  ASSUME LinkInv, UNCHANGED <<list, told, lc_pbm_link>>, unsure \subseteq unsure',
         scan'.pc # "notify", scan.pc \notin {"notify", "crashed"}
  PROVE  Told' /\ InOrder'
<1>1. Told'
  BY DEF LinkInv, Told, list
<1>2. PICK born \in [Entry -> Nat], top \in Nat : Ordered(born, top)
  BY DEF LinkInv, InOrder
<1>3. Ordered(born, top)'
  BY <1>2 DEF Ordered, Stamp, list
<1> QED BY <1>1, <1>2, <1>3 DEF InOrder

LEMMA RegisterKeeps ==
  ASSUME LinkInv, NEW h \in Handler, Register(h) PROVE LinkInv'
<1> USE DEF LinkInv
<1>1. PICK e \in Entry \ live :
        /\ heap' = [heap EXCEPT ![e] = [lh_f |-> h, lh_next |-> lc_handler]]
        /\ lc_handler' = e
        /\ live' = live \cup {e}
  BY DEF Register
<1>2. /\ UNCHANGED <<phys, lc_pbm_link, stp, scan, unsure, unset>>
      /\ told' = [told EXCEPT ![h] = lc_pbm_link]
      /\ \A f \in live : heap[f].lh_f # h
  BY DEF Register, EntryOf
<1>3. /\ heap'[e] = [lh_f |-> h, lh_next |-> lc_handler]
      /\ heap'[e].lh_f = h /\ heap'[e].lh_next = lc_handler
      /\ \A f \in Entry \ {e} : heap'[f] = heap[f]
  BY <1>1 DEF ScanTypeOK
<1>4. ScanTypeOK'
  <2>1. heap' \in [Entry -> [lh_f : Handler \cup {NONE}, lh_next : Entry \cup {NONE}]]
    BY <1>1 DEF ScanTypeOK
  <2> QED BY <1>1, <1>2, <2>1 DEF ScanTypeOK
<1>5. /\ told'[h] = lc_pbm_link
      /\ \A g \in Handler \ {h} : told'[g] = told[g]
  BY <1>2 DEF ScanTypeOK
<1>6. Told'
  BY <1>1, <1>2, <1>3, <1>5 DEF Told, ScanTypeOK
<1>7. InOrder'
  <2>1. PICK born \in [Entry -> Nat], top \in Nat : Ordered(born, top)
    BY DEF InOrder
  <2>2. PICK new \in [Entry -> Nat] :
            new[e] = top /\ \A f \in Entry \ {e} : new[f] = born[f]
    <3>1. [born EXCEPT ![e] = top] \in [Entry -> Nat]
      OBVIOUS
    <3> QED BY <3>1
  <2>3. top + 1 \in Nat /\ \A f \in Entry : new[f] < top + 1
    BY <2>1, <2>2 DEF Ordered
  <2>4. \A x \in live' : new[x] > 0
    BY <1>1, <2>1, <2>2 DEF Ordered, ScanTypeOK
  <2>5. \A f \in Entry : \A x \in live' : new[x] = new[f] => x = f
    <3> SUFFICES ASSUME NEW f \in Entry, NEW x \in live', new[x] = new[f]
                 PROVE  x = f
      OBVIOUS
    <3>1. born[f] < top /\ born[x] < top
      BY <1>1, <2>1 DEF Ordered, ScanTypeOK
    <3>2. x \in Entry
      BY <1>1 DEF ScanTypeOK
    <3>3. CASE f = e \/ x = e
      BY <2>2, <3>1, <3>2, <3>3
    <3>4. CASE f # e /\ x # e
      BY <1>1, <2>1, <2>2, <3>2, <3>4 DEF Ordered
    <3> QED BY <3>3, <3>4
  <2>6. ASSUME NEW f \in Entry \cup {NONE}, NEW n \in Nat
        PROVE  /\ n <= Stamp(born, f) => n <= Stamp(new, f)
               /\ n > Stamp(new, f) => n > Stamp(born, f)
    <3>1. CASE f = NONE
      BY <3>1 DEF Stamp
    <3>2. CASE f # NONE
      <4>1. born[f] \in Nat /\ new[f] \in Nat /\ born[f] <= new[f]
        BY <2>1, <2>2, <3>2 DEF Ordered
      <4> QED BY <3>2, <4>1 DEF Stamp
    <3> QED BY <3>1, <3>2
  <2>8. \A f \in Entry : \A x \in live' :
          new[x] < new[f] => new[x] <= Stamp(new, heap'[f].lh_next)
    <3> SUFFICES ASSUME NEW f \in Entry, NEW x \in live', new[x] < new[f]
                 PROVE  new[x] <= Stamp(new, heap'[f].lh_next)
      OBVIOUS
    <3>1. x \in Entry /\ x # e /\ x \in live /\ new[x] = born[x] /\ born[x] \in Nat
      <4>1. x \in Entry /\ born[f] < top
        BY <1>1, <2>1 DEF Ordered, ScanTypeOK
      <4>2. x # e
        BY <2>2, <4>1
      <4> QED BY <1>1, <2>2, <4>1, <4>2
    <3>2. CASE f = e
      <4>1. born[x] <= Stamp(born, lc_handler) /\ lc_handler \in Entry \cup {NONE}
        BY <2>1, <3>1 DEF Ordered, ScanTypeOK
      <4> QED BY <1>3, <2>6, <3>1, <3>2, <4>1
    <3>3. CASE f # e
      <4>1. heap'[f] = heap[f] /\ heap[f].lh_next \in Entry \cup {NONE}
        BY <1>3, <3>3 DEF ScanTypeOK
      <4>2. born[x] < born[f]
        BY <2>2, <3>1, <3>3
      <4>3. born[x] <= Stamp(born, heap[f].lh_next)
        BY <2>1, <3>1, <4>2 DEF Ordered
      <4> QED BY <2>6, <3>1, <4>1, <4>3
    <3> QED BY <3>2, <3>3
  <2>9. \A x \in live' : new[x] <= Stamp(new, lc_handler')
    <3>1. Stamp(new, lc_handler') = top
      BY <1>1, <2>2, HandlerAssumption DEF Stamp
    <3> QED BY <1>1, <2>1, <2>2, <3>1 DEF Ordered, ScanTypeOK
  <2>10. ASSUME scan'.pc = "notify", NEW x \in live', new[x] > Stamp(new, scan'.next)
         PROVE  told'[heap'[x].lh_f][scan'.port] = lc_pbm_link'[scan'.port]
    <3>1. CASE x = e
      BY <1>2, <1>3, <1>5, <3>1
    <3>2. CASE x # e
      <4>1. x \in live /\ x \in Entry /\ new[x] = born[x] /\ heap'[x] = heap[x]
        BY <1>1, <1>3, <2>2, <3>2 DEF ScanTypeOK
      <4>2. scan = scan' /\ scan.next \in Entry \cup {NONE}
        BY <1>2 DEF ScanTypeOK
      <4>3. born[x] > Stamp(born, scan.next)
        BY <2>6, <2>10, <4>1, <4>2
      <4>4. told[heap[x].lh_f][scan.port] = lc_pbm_link[scan.port]
        BY <2>1, <2>10, <4>1, <4>2, <4>3 DEF Ordered
      <4>5. heap[x].lh_f \in Handler \ {h}
        BY <1>2, <4>1 DEF Told
      <4> QED BY <1>2, <1>5, <4>1, <4>4, <4>5
    <3> QED BY <3>1, <3>2
  <2>11. Ordered(new, top + 1)'
    BY <2>3, <2>4, <2>5, <2>8, <2>9, <2>10 DEF Ordered, Stamp
  <2> QED BY <2>3, <2>11 DEF InOrder
<1>8. StpMatchesLinks'
  BY <1>2 DEF StpMatchesLinks
<1> QED BY <1>4, <1>6, <1>7, <1>8

LEMMA UnregisterKeeps ==
  ASSUME LinkInv, NEW h \in Handler, Unregister(h) PROVE LinkInv'
<1> USE DEF LinkInv
<1>1. PICK e \in live : Unlink(e) /\ live' = live \ {e}
  BY DEF Unregister, EntryOf
<1>2. UNCHANGED <<phys, lc_pbm_link, stp, scan, told, unsure, unset>>
  BY DEF Unregister
<1>3. e \in Entry /\ heap[e].lh_next \in Entry \cup {NONE}
  BY <1>1 DEF ScanTypeOK
<1>4. ScanTypeOK'
  <2>1. heap' \in [Entry -> [lh_f : Handler \cup {NONE}, lh_next : Entry \cup {NONE}]]
    BY <1>1, <1>3 DEF ScanTypeOK, Unlink
  <2>2. lc_handler' \in Entry \cup {NONE}
    BY <1>1, <1>3 DEF ScanTypeOK, Unlink
  <2> QED BY <1>1, <1>2, <2>1, <2>2 DEF ScanTypeOK
<1>5. \A x \in Entry :
        /\ heap'[x].lh_f = heap[x].lh_f
        /\ \/ heap'[x].lh_next = heap[x].lh_next
           \/ heap[x].lh_next = e /\ heap'[x].lh_next = heap[e].lh_next
  BY <1>1 DEF ScanTypeOK, Unlink
<1>6. Told'
  BY <1>1, <1>2, <1>5 DEF Told, ScanTypeOK
<1>7. InOrder'
  <2>1. PICK born \in [Entry -> Nat], top \in Nat : Ordered(born, top)
    BY DEF InOrder
  <2>2. live' \subseteq live /\ e \notin live' /\ live \subseteq Entry
    BY <1>1 DEF ScanTypeOK
  <2>3. \A f \in Entry : \A x \in live' :
          born[x] < born[f] => born[x] <= Stamp(born, heap'[f].lh_next)
    <3> SUFFICES ASSUME NEW f \in Entry, NEW x \in live', born[x] < born[f]
                 PROVE  born[x] <= Stamp(born, heap'[f].lh_next)
      OBVIOUS
    <3>1. born[x] <= Stamp(born, heap[f].lh_next)
      BY <2>1, <2>2 DEF Ordered
    <3>2. CASE heap'[f].lh_next = heap[f].lh_next
      BY <3>1, <3>2
    <3>3. CASE heap[f].lh_next = e /\ heap'[f].lh_next = heap[e].lh_next
      <4>1. born[x] <= born[e]
        BY <1>3, <3>1, <3>3, HandlerAssumption DEF Stamp
      <4>2. born[x] # born[e]
        BY <1>3, <2>1, <2>2 DEF Ordered
      <4>3. born[x] < born[e]
        BY <1>3, <2>2, <4>1, <4>2
      <4> QED BY <1>3, <2>1, <2>2, <3>3, <4>3 DEF Ordered
    <3> QED BY <1>5, <3>2, <3>3
  <2>4. \A x \in live' : born[x] <= Stamp(born, lc_handler')
    <3> SUFFICES ASSUME NEW x \in live' PROVE born[x] <= Stamp(born, lc_handler')
      OBVIOUS
    <3>1. born[x] <= Stamp(born, lc_handler)
      BY <2>1, <2>2 DEF Ordered
    <3>2. CASE lc_handler # e
      BY <1>1, <3>1, <3>2 DEF Unlink
    <3>3. CASE lc_handler = e
      <4>1. born[x] <= born[e] /\ born[x] # born[e]
        BY <1>3, <2>1, <2>2, <3>1, <3>3, HandlerAssumption DEF Stamp, Ordered
      <4>2. born[x] < born[e]
        BY <1>3, <2>2, <4>1
      <4>3. lc_handler' = heap[e].lh_next
        BY <1>1, <3>3 DEF Unlink
      <4> QED BY <1>3, <2>1, <2>2, <4>2, <4>3 DEF Ordered
    <3> QED BY <3>2, <3>3
  <2>5. ASSUME scan'.pc = "notify", NEW x \in live', born[x] > Stamp(born, scan'.next)
        PROVE  told'[heap'[x].lh_f][scan'.port] = lc_pbm_link'[scan'.port]
    BY <1>2, <1>5, <2>1, <2>2, <2>5 DEF Ordered
  <2>6. Ordered(born, top)'
    BY <2>1, <2>2, <2>3, <2>4, <2>5 DEF Ordered, Stamp
  <2> QED BY <2>6 DEF InOrder
<1>8. StpMatchesLinks'
  BY <1>2 DEF StpMatchesLinks
<1> QED BY <1>4, <1>6, <1>7, <1>8

(* What a call of an entry's handler, or the end of the walk, does.           *)
LEMMA CallIs ==
  ASSUME ScanTypeOK, Told, NEW e \in Entry \cup {NONE}, NEW p \in Port, p = scan.port,
         scan.pc \in {"update", "notify"}, CallHandler(e, p)
  PROVE  /\ scan' \in [pc : {"sleep", "read", "update", "notify", "crashed"}, port : Port,
                       new : BOOLEAN, next : Entry \cup {NONE}]
         /\ told' \in [Handler -> [Port -> BOOLEAN]]
         /\ unsure' \subseteq Port
         /\ e = NONE => /\ scan'.pc \in {"sleep", "read"} /\ told' = told
                        /\ unsure' = unsure \ {p}
         /\ e # NONE => /\ scan'.pc = "notify" /\ scan'.port = p
                        /\ scan'.new = scan.new /\ scan'.next = heap[e].lh_next
                        /\ unsure' = unsure
         /\ \A h \in Handler : \A q \in Port :
               told'[h][q] = IF e # NONE /\ q = p /\ h = heap[e].lh_f
                             THEN scan.new ELSE told[h][q]
<1>1. CASE e = NONE
  BY <1>1, NextPortIs DEF CallHandler, ScanTypeOK
<1>2. CASE e # NONE
  <2>1. e \in Entry
    BY <1>2
  <2>2. /\ heap[e].lh_next \in Entry \cup {NONE} /\ scan.new \in BOOLEAN
        /\ told \in [Handler -> [Port -> BOOLEAN]]
    BY <2>1 DEF ScanTypeOK
  <2>3. /\ scan' = [scan EXCEPT !.pc = "notify", !.next = heap[e].lh_next]
        /\ told' = [told EXCEPT ![heap[e].lh_f] = [@ EXCEPT ![p] = scan.new]]
        /\ unsure' = unsure
    BY <1>2 DEF CallHandler
  <2>4. /\ scan' \in [pc : {"sleep", "read", "update", "notify", "crashed"}, port : Port,
                      new : BOOLEAN, next : Entry \cup {NONE}]
        /\ scan'.pc = "notify" /\ scan'.port = p
        /\ scan'.new = scan.new /\ scan'.next = heap[e].lh_next
    BY <2>2, <2>3 DEF ScanTypeOK
  <2>5. told' \in [Handler -> [Port -> BOOLEAN]]
    BY <2>2, <2>3
  <2>6. \A h \in Handler : \A q \in Port :
           told'[h][q] = IF e # NONE /\ q = p /\ h = heap[e].lh_f
                         THEN scan.new ELSE told[h][q]
    BY <1>2, <2>2, <2>3
  <2> QED BY <1>2, <2>3, <2>4, <2>5, <2>6 DEF ScanTypeOK
<1> QED BY <1>1, <1>2

(* A call keeps what the handlers know and the order.  Before the first call   *)
(* of a walk the bitmap gets the new status, and nobody knows it yet.          *)
LEMMA CallKeeps ==
  ASSUME LinkInv, NEW e \in Entry \cup {NONE}, NEW p \in Port, p = scan.port,
         CallHandler(e, p), UNCHANGED list,
         \/ scan.pc = "update" /\ e = lc_handler
         \/ scan.pc = "notify" /\ e = scan.next,
         lc_pbm_link'[p] = scan.new,
         \A q \in Port \ {p} : lc_pbm_link'[q] = lc_pbm_link[q]
  PROVE  Told' /\ InOrder'
<1> USE DEF LinkInv
<1>1. /\ e = NONE => /\ scan'.pc \in {"sleep", "read"} /\ told' = told
                     /\ unsure' = unsure \ {p}
      /\ e # NONE => /\ scan'.pc = "notify" /\ scan'.port = p
                     /\ scan'.new = scan.new /\ scan'.next = heap[e].lh_next
                     /\ unsure' = unsure
      /\ \A h \in Handler : \A q \in Port :
            told'[h][q] = IF e # NONE /\ q = p /\ h = heap[e].lh_f
                          THEN scan.new ELSE told[h][q]
  BY CallIs
<1>2. /\ heap' = heap /\ live' = live /\ lc_handler' = lc_handler
      /\ live \subseteq Entry
      /\ \A x \in Entry : heap[x].lh_next \in Entry \cup {NONE}
  BY DEF list, ScanTypeOK
<1>3. PICK born \in [Entry -> Nat], top \in Nat : Ordered(born, top)
  BY DEF InOrder
\* Who is newer than the entry that is called, or is anybody at the end, knows.
<1>4. ASSUME NEW x \in live, born[x] > Stamp(born, e)
      PROVE  told[heap[x].lh_f][p] = lc_pbm_link'[p] /\ scan.pc = "notify"
  <2>1. CASE scan.pc = "update"
    <3>1. born[x] <= Stamp(born, lc_handler)
      BY <1>3 DEF Ordered
    <3> QED BY <1>2, <1>4, <2>1, <3>1, HandlerAssumption DEF Stamp
  <2>2. CASE scan.pc = "notify"
    <3>1. lc_pbm_link'[p] = lc_pbm_link[p]
      BY <2>2 DEF Told
    <3> QED BY <1>3, <1>4, <2>2, <3>1 DEF Ordered
  <2> QED BY <2>1, <2>2
<1>5. ASSUME NEW x \in live,
             e = NONE \/ born[x] > Stamp(born, heap[e].lh_next)
      PROVE  told'[heap[x].lh_f][p] = lc_pbm_link'[p]
  <2>1. heap[x].lh_f \in Handler /\ x \in Entry /\ born[x] \in Nat
    BY <1>2 DEF Told
  <2>2. CASE e = NONE
    <3>1. born[x] > Stamp(born, e)
      BY <1>3, <2>2 DEF Ordered, Stamp
    <3> QED BY <1>1, <1>4, <2>1, <2>2, <3>1
  <2>3. CASE e # NONE
    <3>1. e \in Entry /\ born[e] \in Nat /\ Stamp(born, e) = born[e]
      BY <2>3 DEF Stamp
    <3>2. Stamp(born, heap[e].lh_next) \in Nat
      BY <1>2, <3>1 DEF Stamp
    <3>3. born[x] >= born[e]
      BY <1>3, <1>5, <2>1, <2>3, <3>1, <3>2 DEF Ordered
    <3>4. CASE born[x] = born[e]
      <4>1. x = e
        BY <1>3, <3>1, <3>4 DEF Ordered
      <4> QED BY <1>1, <2>1, <2>3, <4>1
    <3>5. CASE born[x] > born[e]
      BY <1>1, <1>4, <2>1, <3>1, <3>5
    <3> QED BY <2>1, <3>1, <3>3, <3>4, <3>5
  <2> QED BY <2>2, <2>3
<1>6. Told'
  <2>1. /\ \A x \in live' : heap'[x].lh_f \in Handler
        /\ \A x, y \in live' : heap'[x].lh_f = heap'[y].lh_f => x = y
    BY <1>2 DEF Told
  <2>2. scan'.pc = "notify" => scan'.new = lc_pbm_link'[scan'.port]
    BY <1>1
  <2>3. ASSUME NEW x \in live', NEW q \in Port \ unsure'
        PROVE  \/ scan'.pc = "notify" /\ q = scan'.port
               \/ told'[heap'[x].lh_f][q] = lc_pbm_link'[q]
    <3>1. heap[x].lh_f \in Handler /\ x \in live /\ heap'[x] = heap[x]
      BY <1>2 DEF Told
    <3>2. CASE q = p
      BY <1>1, <1>5, <3>1, <3>2
    <3>3. CASE q # p
      <4>1. q \notin unsure
        BY <1>1, <3>3
      <4>2. told[heap[x].lh_f][q] = lc_pbm_link[q]
        BY <3>1, <3>3, <4>1 DEF Told
      <4> QED BY <1>1, <3>1, <3>3, <4>2
    <3> QED BY <3>2, <3>3
  <2> QED BY <2>1, <2>2, <2>3 DEF Told
<1>7. Ordered(born, top)'
  <2>1. ASSUME scan'.pc = "notify", NEW x \in live', born[x] > Stamp(born, scan'.next)
        PROVE  told'[heap'[x].lh_f][scan'.port] = lc_pbm_link'[scan'.port]
    BY <1>1, <1>2, <1>5, <2>1
  <2> QED BY <1>2, <1>3, <2>1 DEF Ordered, Stamp
<1> QED BY <1>3, <1>6, <1>7 DEF InOrder

LEMMA UpdatePortKeeps ==
  ASSUME LinkInv, UpdatePort PROVE LinkInv'
<1> USE DEF LinkInv
<1> DEFINE p == scan.port
<1>1. /\ scan.pc = "update" /\ p \in Port /\ scan.new \in BOOLEAN
      /\ lc_handler \in Entry \cup {NONE}
      /\ lc_pbm_link' = [lc_pbm_link EXCEPT ![p] = scan.new]
      /\ stp' = [stp EXCEPT ![Target(p)] = StpState(p)]
      /\ unset' = unset \ {p}
      /\ CallHandler(lc_handler, p)
      /\ UNCHANGED <<phys, list>>
  BY DEF UpdatePort, UpdateBitmap, ScanTypeOK
<1>2. /\ lc_pbm_link' \in [Port -> BOOLEAN] /\ lc_pbm_link'[p] = scan.new
      /\ \A q \in Port \ {p} : lc_pbm_link'[q] = lc_pbm_link[q]
  BY <1>1 DEF ScanTypeOK
<1>3. Told' /\ InOrder'
  BY <1>1, <1>2, CallKeeps
<1>4. /\ Target(p) \in Targets /\ StpState(p) \in {"Forward", "Discard"}
      /\ stp' \in [Targets -> {"Forward", "Discard"}]
  <2>1. Target(p) \in Targets
    BY <1>1 DEF Targets
  <2>2. p \in LagMember => stp[LAG] \in {"Forward", "Discard"}
    BY <2>1 DEF Target, ScanTypeOK
  <2>3. StpState(p) \in {"Forward", "Discard"}
    BY <2>2 DEF StpState
  <2> QED BY <1>1, <2>1, <2>3 DEF ScanTypeOK
<1>5. ScanTypeOK'
  <2>1. /\ scan' \in [pc : {"sleep", "read", "update", "notify", "crashed"}, port : Port,
                      new : BOOLEAN, next : Entry \cup {NONE}]
        /\ told' \in [Handler -> [Port -> BOOLEAN]] /\ unsure' \subseteq Port
    BY <1>1, CallIs
  <2> QED BY <1>1, <1>2, <1>4, <2>1 DEF ScanTypeOK, list
<1>6. StpMatchesLinks'
  <2> SUFFICES ASSUME NEW q \in Port, q \notin unset', q \notin LagMember
               PROVE  (stp'[q] = "Forward") = lc_pbm_link'[q]
    BY DEF StpMatchesLinks
  <2>1. q \in Targets
    BY DEF Targets, Target
  <2>2. CASE q = p
    <3>1. Target(p) = p /\ StpState(p) = IF scan.new THEN "Forward" ELSE "Discard"
      BY <2>2 DEF Target, StpState
    <3>2. stp'[p] = IF scan.new THEN "Forward" ELSE "Discard"
      BY <1>1, <2>1, <2>2, <3>1 DEF ScanTypeOK
    <3> QED BY <1>1, <1>2, <2>2, <3>2
  <2>3. CASE q # p
    <3>1. Target(p) # q
      BY <2>3, PortAssumption DEF Target
    <3>2. stp'[q] = stp[q] /\ q \notin unset
      BY <1>1, <2>1, <2>3, <3>1 DEF ScanTypeOK
    <3> QED BY <1>2, <2>3, <3>2 DEF StpMatchesLinks
  <2> QED BY <2>2, <2>3
<1> QED BY <1>3, <1>5, <1>6

LEMMA HandlerReturnsKeeps ==
  ASSUME LinkInv, HandlerReturns PROVE LinkInv'
<1> USE DEF LinkInv
<1>1. /\ scan.pc = "notify" /\ scan.port \in Port /\ scan.next \in Entry \cup {NONE}
      /\ CallHandler(scan.next, scan.port)
      /\ UNCHANGED <<phys, lc_pbm_link, stp, list, unset>>
      /\ scan.new = lc_pbm_link[scan.port]
  BY DEF HandlerReturns, ScanTypeOK, Told
<1>2. Told' /\ InOrder'
  BY <1>1, CallKeeps
<1>3. /\ scan' \in [pc : {"sleep", "read", "update", "notify", "crashed"}, port : Port,
                    new : BOOLEAN, next : Entry \cup {NONE}]
      /\ told' \in [Handler -> [Port -> BOOLEAN]] /\ unsure' \subseteq Port
  BY <1>1, CallIs
<1> QED BY <1>1, <1>2, <1>3 DEF ScanTypeOK, StpMatchesLinks, list

LEMMA UpdateFailsKeeps ==
  ASSUME LinkInv, UpdateFails PROVE LinkInv'
<1> USE DEF LinkInv
<1> DEFINE p == scan.port
<1>1. /\ scan.pc = "update" /\ p \in Port /\ scan.new \in BOOLEAN
      /\ lc_pbm_link' = [lc_pbm_link EXCEPT ![p] = scan.new]
      /\ scan' = NextPort(p)
      /\ unsure' = unsure \cup {p} /\ unset' = unset \cup {p}
      /\ UNCHANGED <<phys, stp, list, told>>
  BY DEF UpdateFails, UpdateBitmap, ScanTypeOK
<1>2. /\ lc_pbm_link' \in [Port -> BOOLEAN]
      /\ \A q \in Port \ {p} : lc_pbm_link'[q] = lc_pbm_link[q]
  BY <1>1 DEF ScanTypeOK
<1>3. /\ scan' \in [pc : {"sleep", "read"}, port : Port, new : BOOLEAN,
                    next : Entry \cup {NONE}]
      /\ scan'.pc \in {"sleep", "read"}
  BY <1>1, NextPortIs
<1>4. ScanTypeOK'
  BY <1>1, <1>2, <1>3 DEF ScanTypeOK, list
<1>5. Told'
  BY <1>1, <1>2, <1>3 DEF Told, list
<1>6. StpMatchesLinks'
  BY <1>1, <1>2 DEF StpMatchesLinks
<1>7. InOrder'
  <2>1. PICK born \in [Entry -> Nat], top \in Nat : Ordered(born, top)
    BY DEF InOrder
  <2>2. Ordered(born, top)'
    BY <1>1, <1>3, <2>1 DEF Ordered, Stamp, list
  <2> QED BY <2>2 DEF InOrder
<1> QED BY <1>4, <1>5, <1>6, <1>7

LEMMA LinkNext == LinkInv /\ [ScanNext]_scanVars => LinkInv'
<1> SUFFICES ASSUME LinkInv, [ScanNext]_scanVars PROVE LinkInv'
  OBVIOUS
<1>1. CASE UNCHANGED scanVars
  <2>1. ScanTypeOK' /\ Told' /\ StpMatchesLinks'
    BY <1>1 DEF LinkInv, scanVars, list, ScanTypeOK, Told, StpMatchesLinks
  <2>2. InOrder'
    BY <1>1 DEF LinkInv, scanVars, list, InOrder, Ordered, Stamp
  <2> QED BY <2>1, <2>2 DEF LinkInv
<1>2. ASSUME NEW p \in Port, LinkChange(p) PROVE LinkInv'
  <2>1. phys' \in [Port -> BOOLEAN]
    BY <1>2 DEF LinkInv, LinkChange, ScanTypeOK
  <2>2. ScanTypeOK' /\ Told' /\ StpMatchesLinks'
    BY <1>2, <2>1 DEF LinkInv, LinkChange, list, ScanTypeOK, Told, StpMatchesLinks
  <2>3. InOrder'
    BY <1>2 DEF LinkInv, LinkChange, list, InOrder, Ordered, Stamp
  <2> QED BY <2>2, <2>3 DEF LinkInv
<1>3. ASSUME NEW h \in Handler, Register(h) PROVE LinkInv'
  BY <1>3, RegisterKeeps
<1>4. ASSUME NEW h \in Handler, Unregister(h) PROVE LinkInv'
  BY <1>4, UnregisterKeeps
<1>5. CASE WakeUp
  <2>1. scan' = ScanAt("read", 1) /\ 1 \in Port
    BY <1>5, PortAssumption DEF WakeUp, Port
  <2>2. scan'.pc = "read" /\ scan.pc = "sleep"
    BY <1>5, <2>1 DEF WakeUp, ScanAt
  <2>3. ScanTypeOK' /\ StpMatchesLinks'
    BY <1>5, <2>1 DEF LinkInv, WakeUp, ScanAt, ScanTypeOK, StpMatchesLinks, list
  <2>4. Told' /\ InOrder'
    BY <1>5, <2>2, QuietKeeps DEF WakeUp
  <2> QED BY <2>3, <2>4 DEF LinkInv
<1>6. CASE ReadLink
  <2>1. scan.pc = "read" /\ scan.port \in Port /\ phys[scan.port] \in BOOLEAN
    BY <1>6 DEF LinkInv, ReadLink, ScanTypeOK
  <2>2. /\ scan' \in [pc : {"sleep", "read", "update", "notify", "crashed"}, port : Port,
                      new : BOOLEAN, next : Entry \cup {NONE}]
        /\ scan'.pc \in {"sleep", "read", "update"}
    <3>1. CASE phys[scan.port] # lc_pbm_link[scan.port]
      BY <1>6, <2>1, <3>1 DEF LinkInv, ReadLink, ScanTypeOK
    <3>2. CASE phys[scan.port] = lc_pbm_link[scan.port]
      BY <1>6, <2>1, <3>2, NextPortIs DEF ReadLink
    <3> QED BY <3>1, <3>2
  <2>3. ScanTypeOK' /\ StpMatchesLinks'
    BY <1>6, <2>2 DEF LinkInv, ReadLink, ScanTypeOK, StpMatchesLinks, list
  <2>4. Told' /\ InOrder'
    BY <1>6, <2>1, <2>2, QuietKeeps DEF ReadLink
  <2> QED BY <2>3, <2>4 DEF LinkInv
<1>7. CASE ReadFails
  <2>1. scan.pc = "read" /\ scan.port \in Port /\ scan' = NextPort(scan.port)
    BY <1>7 DEF LinkInv, ReadFails, ScanTypeOK
  <2>2. /\ scan' \in [pc : {"sleep", "read"}, port : Port, new : BOOLEAN,
                      next : Entry \cup {NONE}]
        /\ scan'.pc \in {"sleep", "read"}
    BY <2>1, NextPortIs
  <2>3. ScanTypeOK' /\ StpMatchesLinks'
    BY <1>7, <2>2 DEF LinkInv, ReadFails, ScanTypeOK, StpMatchesLinks, list
  <2>4. Told' /\ InOrder'
    BY <1>7, <2>1, <2>2, QuietKeeps DEF ReadFails
  <2> QED BY <2>3, <2>4 DEF LinkInv
<1>8. CASE Crash
  <2>1. /\ scan' \in [pc : {"sleep", "read", "update", "notify", "crashed"}, port : Port,
                      new : BOOLEAN, next : Entry \cup {NONE}]
        /\ scan'.pc = "crashed"
    BY <1>8 DEF LinkInv, Crash, ScanTypeOK
  <2>2. ScanTypeOK' /\ StpMatchesLinks' /\ Told'
    BY <1>8, <2>1 DEF LinkInv, Crash, ScanTypeOK, StpMatchesLinks, Told, list
  <2>3. InOrder'
    <3>1. PICK born \in [Entry -> Nat], top \in Nat : Ordered(born, top)
      BY DEF LinkInv, InOrder
    <3>2. Ordered(born, top)'
      BY <1>8, <2>1, <3>1 DEF Crash, Ordered, Stamp, list
    <3> QED BY <3>2 DEF InOrder
  <2> QED BY <2>2, <2>3 DEF LinkInv
<1>9. CASE Restart
  <2>1. /\ scan' = ScanAt("read", 1) /\ 1 \in Port /\ scan'.pc = "read"
        /\ lc_pbm_link' \in [Port -> BOOLEAN]
        /\ unsure' = Port /\ unset' = Port
        /\ UNCHANGED <<phys, stp, list, told>>
    BY <1>9, PortAssumption DEF Restart, Port, ScanAt
  <2>2. ScanTypeOK'
    BY <2>1 DEF LinkInv, ScanAt, ScanTypeOK, list
  <2>3. StpMatchesLinks' /\ Told'
    BY <2>1 DEF LinkInv, StpMatchesLinks, Told, list
  <2>4. InOrder'
    <3>1. PICK born \in [Entry -> Nat], top \in Nat : Ordered(born, top)
      BY DEF LinkInv, InOrder
    <3>2. Ordered(born, top)'
      BY <2>1, <3>1 DEF Ordered, Stamp, list
    <3> QED BY <3>2 DEF InOrder
  <2> QED BY <2>2, <2>3, <2>4 DEF LinkInv
<1> QED BY <1>1, <1>2, <1>3, <1>4, <1>5, <1>6, <1>7, <1>8, <1>9, UpdatePortKeeps,
           UpdateFailsKeeps, HandlerReturnsKeeps DEF ScanNext, ScanThread

LEMMA LinkInvariant == ScanSpec => []LinkInv
<1>1. ScanInit => LinkInv
  BY LinkInit
<1> QED BY <1>1, LinkNext, PTL DEF ScanSpec

(* The bitmaps, the states, the memory of the list and the thread's locals     *)
(* keep their types.                                                          *)
THEOREM LinkTypeOK == ScanSpec => []ScanTypeOK
<1>1. LinkInv => ScanTypeOK
  BY DEF LinkInv
<1> QED BY <1>1, LinkInvariant, PTL

(* A walk that comes to its end has told every handler of the change, although *)
(* others register and unregister under it and free what it goes on with: for  *)
(* any number of ports, handlers and entries.                                 *)
THEOREM LinkHandlersKnow == ScanSpec => []HandlersKnowLinks
<1>1. LinkInv => HandlersKnowLinks
  BY DEF LinkInv, Told, HandlersKnowLinks
<1> QED BY <1>1, LinkInvariant, PTL

(* The state of a port that is in no group is that of its link in the bitmap,  *)
(* from the first scan that sets it, whatever state the initialization left.   *)
THEOREM LinkStpMatches == ScanSpec => []StpMatchesLinks
<1>1. LinkInv => StpMatchesLinks
  BY DEF LinkInv
<1> QED BY <1>1, LinkInvariant, PTL

-----------------------------------------------------------------------------
(* The counter thread (Counters).                                            *)

Pc    == {"idle", "prev", "read", "add", "store", "hw", "write", "give", "sleep", "synced",
          "fault", "restart", "stop", "restartSleep", "stopSleep", "fresh", "launch", "pid",
          "boot", "loop", "take", "awake", "grant", "exit", "exited"}
Local == [pc : Pc, prev : Value, new : Value, sum : Nat, at : Nat]

CntTypes ==
    /\ reg \in Value /\ counter_hw_val \in Value /\ counter_sw_val \in Nat
    /\ total \in Nat /\ seen \in Nat /\ expected \in Nat
    /\ {counter_interval, counter_pid, counter_sync_req, sync_gnt, overlap} \subseteq BOOLEAN
    /\ proc \in [Proc -> Local]
    /\ request \in [User -> [at : Nat, shared : BOOLEAN]]
    /\ seen <= total
    /\ \A p \in Proc : proc[p].at <= total
    /\ \A u \in User : request[u].at <= total

\* A thread that has not ended has its id stored, but while it is created.
PidInv ==
    /\ proc["thread"].pc # "idle" => counter_pid \/ proc["control"].pc = "pid"
    /\ proc["control"].pc \in {"fresh", "prev", "read", "hw", "launch"} => ~counter_pid
    /\ proc["control"].pc = "pid" => proc["thread"].pc = "boot"
    /\ proc["control"].pc \in {"idle", "fresh", "prev", "read", "hw", "launch", "pid",
                               "restart", "stop", "restartSleep", "stopSleep"}

\* A sync that is under way alone: it has been served when the request is gone, and a
\* grant is of a collection that reads, or has read, the register behind the request.
Granting(u) ==
    \/ proc["thread"].pc \in {"prev", "read"}
    \/ proc["thread"].pc \in {"add", "store", "hw"} /\ proc["thread"].at >= request[u].at
    \/ proc["thread"].pc = "grant" /\ seen >= request[u].at

Served(u)  == counter_sync_req \/ seen >= request[u].at
Covered(u) == sync_gnt => Granting(u)

SyncOf(u) ==
    ~request[u].shared =>
      /\ proc[u].pc \in {"give", "sleep"} =>
           /\ \A v \in User \ {u} : proc[v].pc \notin {"give", "sleep"}
           /\ Served(u) /\ Covered(u)
      /\ proc[u].pc = "synced" => seen >= request[u].at

SyncInv == \A u \in User : SyncOf(u)

\* The accounts.  One party at most is in the middle of an update.  Until it has added,
\* they balance with the previous reading; from its own reading on, with the new one.
Busy(p) == proc[p].pc \in {"read", "add", "store", "hw", "write"}

Balanced ==
    /\ counter_sw_val + Difference(reg, counter_hw_val) = expected
    /\ total - seen = Difference(reg, counter_hw_val)

Update(p) ==
    /\ proc[p].pc = "read" => proc[p].prev = counter_hw_val /\ Balanced
    /\ proc[p].pc = "add" =>
         /\ proc[p].prev = counter_hw_val /\ Balanced
         /\ proc[p].at - seen = Difference(proc[p].new, proc[p].prev)
         /\ total - proc[p].at = Difference(reg, proc[p].new)
    /\ proc[p].pc = "store" =>
         /\ seen <= proc[p].at
         /\ total - proc[p].at = Difference(reg, proc[p].new)
         /\ proc[p].sum + Difference(reg, proc[p].new) = expected
    /\ proc[p].pc = "hw" =>
         /\ seen <= proc[p].at
         /\ total - proc[p].at = Difference(reg, proc[p].new)
         /\ counter_sw_val + Difference(reg, proc[p].new) = expected
    /\ proc[p].pc = "write" => counter_sw_val = 0 /\ counter_hw_val = 0

AccountInv ==
    ~overlap =>
      /\ \A p, q \in Proc : Busy(p) /\ Busy(q) => p = q
      /\ (\A p \in Proc : ~Busy(p)) => Balanced
      /\ \A p \in Proc : Update(p)

LEMMA DifferenceFacts ==
  ASSUME NEW a \in Value, NEW b \in Value
  PROVE  /\ Difference(a, b) \in 0 .. MODULUS - 1
         /\ Difference(a, a) = 0
         /\ (a + 1) % MODULUS \in Value
         /\ Difference(a, b) < MODULUS - 1
              => Difference((a + 1) % MODULUS, b) = Difference(a, b) + 1
<1>1. (a + 1) % MODULUS = IF a = MODULUS - 1 THEN 0 ELSE a + 1
  BY ModulusAssumption DEF Value
<1> QED
  BY <1>1, ModulusAssumption DEF Value, Difference

LEMMA MaxFacts ==
  ASSUME NEW a \in Nat, NEW b \in Nat
  PROVE  Max({a, b}) = IF a >= b THEN a ELSE b
<1> DEFINE m == IF a >= b THEN a ELSE b
<1>1. m \in {a, b} /\ \A y \in {a, b} : m >= y
  OBVIOUS
<1>2. \A x \in {a, b} : (\A y \in {a, b} : x >= y) => x = m
  OBVIOUS
<1> QED
  BY <1>1, <1>2 DEF Max

LEMMA Parties ==
  /\ "thread" \in Proc /\ "control" \in Proc /\ 0 \in Value
         /\ \A u \in User : u \in Proc /\ u # "thread" /\ u # "control"
BY ModulusAssumption, UserAssumption DEF Proc, Value

LEMMA CntInit ==
  ASSUME CountersInit PROVE CntTypes /\ PidInv /\ SyncInv /\ AccountInv
<1>1. MODULUS - 2 \in Nat /\ MODULUS - 2 \in Value /\ 0 \in Value
  BY ModulusAssumption DEF Value
<1>2. /\ proc = [p \in Proc |-> Idle] /\ Idle \in Local
      /\ Idle.pc = "idle" /\ Idle.at = 0
  BY <1>1 DEF CountersInit, Idle, Local, Pc
<1>3. CntTypes
  <2>1. /\ request = [u \in User |-> [at |-> 0, shared |-> FALSE]]
        /\ reg = MODULUS - 2 /\ counter_hw_val = 0 /\ counter_sw_val = 0 /\ total = reg
        /\ seen = 0 /\ expected = reg
        /\ {counter_interval, counter_pid, counter_sync_req, sync_gnt, overlap}
              \subseteq BOOLEAN
    BY DEF CountersInit
  <2>2. request \in [User -> [at : Nat, shared : BOOLEAN]] /\ \A u \in User : request[u].at = 0
    BY <2>1
  <2> QED
    BY <1>1, <1>2, <2>1, <2>2 DEF CntTypes
<1>4. \A p \in Proc : proc[p].pc = "idle"
  BY <1>2
<1>5. PidInv /\ SyncInv
  BY <1>4, Parties DEF PidInv, SyncInv, SyncOf
<1>6. Balanced
  BY <1>1 DEF Balanced, CountersInit, Difference
<1> QED
  BY <1>3, <1>4, <1>5, <1>6 DEF AccountInv, Busy, Update

\* What each step of a party does to its own record.
Moves(p) ==
    /\ p \in Proc /\ proc'[p] \in Local
    /\ proc' \in [Proc -> Local]
    /\ \A q \in Proc \ {p} : proc'[q] = proc[q]

LEMMA ToMoves ==
  ASSUME proc \in [Proc -> Local], NEW p \in Proc, NEW s \in Pc, To(p, s)
  PROVE  /\ Moves(p) /\ proc'[p].pc = s /\ proc'[p].at = proc[p].at
         /\ proc'[p].prev = proc[p].prev /\ proc'[p].new = proc[p].new
         /\ proc'[p].sum = proc[p].sum
<1>1. proc' = [proc EXCEPT ![p] = [proc[p] EXCEPT !.pc = s]]
  BY DEF To
<1>2. [proc[p] EXCEPT !.pc = s] \in Local
  BY DEF Local
<1>3. proc'[p] = [proc[p] EXCEPT !.pc = s]
  BY <1>1
<1> QED
  BY <1>1, <1>2, <1>3 DEF Moves, Local

LEMMA EndMoves ==
  ASSUME proc \in [Proc -> Local], NEW p \in Proc, End(p)
  PROVE  Moves(p) /\ proc'[p].pc = "idle" /\ proc'[p].at = 0
<1>1. Idle \in Local /\ Idle.pc = "idle" /\ Idle.at = 0
  BY Parties DEF Idle, Local, Pc
<1> QED
  BY <1>1 DEF Moves, End

\* The collection's five steps, of any party.
LEMMA CollectMoves ==
  ASSUME CntTypes, NEW p \in Proc
  PROVE  /\ CollectPrev(p) =>
               /\ Moves(p) /\ proc'[p].pc = "read" /\ proc'[p].prev = counter_hw_val
               /\ proc'[p].at = proc[p].at
         /\ CollectRead(p) =>
               /\ Moves(p) /\ proc'[p].pc = (IF p = "control" THEN "hw" ELSE "add")
               /\ proc'[p].prev = proc[p].prev /\ proc'[p].new = reg /\ proc'[p].at = total
         /\ CollectAdd(p) =>
               /\ Moves(p) /\ proc'[p].pc = "store"
               /\ proc'[p].sum = counter_sw_val + Difference(proc[p].new, proc[p].prev)
               /\ proc'[p].new = proc[p].new /\ proc'[p].at = proc[p].at
         /\ CollectStore(p) =>
               /\ Moves(p) /\ proc'[p].pc = "hw"
               /\ proc'[p].new = proc[p].new /\ proc'[p].at = proc[p].at
         /\ CollectHw(p) =>
               /\ Moves(p) /\ proc'[p].at = 0
               /\ proc'[p].pc = (IF p = "thread" THEN "grant"
                                 ELSE IF p = "control" THEN "launch" ELSE "idle")
<1>0. /\ proc \in [Proc -> Local] /\ proc[p] \in Local /\ counter_hw_val \in Value
      /\ reg \in Value /\ total \in Nat
  BY DEF CntTypes
<1>1. ASSUME CollectPrev(p)
      PROVE  /\ Moves(p) /\ proc'[p].pc = "read" /\ proc'[p].prev = counter_hw_val
             /\ proc'[p].at = proc[p].at
  <2> DEFINE r == [proc[p] EXCEPT !.prev = counter_hw_val, !.pc = "read"]
  <2>1. proc' = [proc EXCEPT ![p] = r]
    BY <1>1 DEF CollectPrev
  <2>2. r \in Local /\ r.pc = "read" /\ r.prev = counter_hw_val /\ r.at = proc[p].at
    BY <1>0 DEF Local, Pc
  <2> HIDE DEF r
  <2> QED
    BY <1>0, <2>1, <2>2 DEF Moves
<1>2. ASSUME CollectRead(p)
      PROVE  /\ Moves(p) /\ proc'[p].pc = (IF p = "control" THEN "hw" ELSE "add")
             /\ proc'[p].prev = proc[p].prev /\ proc'[p].new = reg /\ proc'[p].at = total
  <2> DEFINE s == IF p = "control" THEN "hw" ELSE "add"
             r == [proc[p] EXCEPT !.new = reg, !.at = total, !.pc = s]
  <2>1. proc' = [proc EXCEPT ![p] = r]
    BY <1>2 DEF CollectRead
  <2>2. /\ r \in Local /\ r.pc = s /\ r.prev = proc[p].prev /\ r.new = reg /\ r.at = total
    BY <1>0 DEF Local, Pc
  <2> HIDE DEF r
  <2> QED
    BY <1>0, <2>1, <2>2 DEF Moves
<1>3. ASSUME CollectAdd(p)
      PROVE  /\ Moves(p) /\ proc'[p].pc = "store"
             /\ proc'[p].sum = counter_sw_val + Difference(proc[p].new, proc[p].prev)
             /\ proc'[p].new = proc[p].new /\ proc'[p].at = proc[p].at
  <2> DEFINE d == Difference(proc[p].new, proc[p].prev)
             r == [proc[p] EXCEPT !.sum = counter_sw_val + d, !.pc = "store"]
  <2>1. d \in 0 .. MODULUS - 1
    BY <1>0, DifferenceFacts DEF Local
  <2>2. counter_sw_val + d \in Nat
    BY <2>1 DEF CntTypes
  <2>3. proc' = [proc EXCEPT ![p] = r]
    BY <1>3 DEF CollectAdd
  <2>4. /\ r \in Local /\ r.pc = "store" /\ r.sum = counter_sw_val + d
        /\ r.new = proc[p].new /\ r.at = proc[p].at
    BY <1>0, <2>2 DEF Local, Pc
  <2> HIDE DEF r, d
  <2>5. Moves(p) /\ proc'[p] = r
    BY <1>0, <2>3, <2>4 DEF Moves
  <2> QED
    BY <2>4, <2>5 DEF d
<1>5. ASSUME CollectStore(p)
      PROVE  /\ Moves(p) /\ proc'[p].pc = "hw"
             /\ proc'[p].new = proc[p].new /\ proc'[p].at = proc[p].at
  <2>1. To(p, "hw") /\ "hw" \in Pc
    BY <1>5 DEF CollectStore, Pc
  <2> QED
    BY <1>0, <2>1, ToMoves
<1>4. ASSUME CollectHw(p)
      PROVE  /\ Moves(p) /\ proc'[p].at = 0
             /\ proc'[p].pc = (IF p = "thread" THEN "grant"
                               ELSE IF p = "control" THEN "launch" ELSE "idle")
  <2> DEFINE s == IF p = "thread" THEN "grant"
                  ELSE IF p = "control" THEN "launch" ELSE "idle"
             r == [Idle EXCEPT !.pc = s]
  <2>1. proc' = [proc EXCEPT ![p] = r]
    BY <1>4 DEF CollectHw
  <2>2. r \in Local /\ r.pc = s /\ r.at = 0
    BY Parties DEF Local, Pc, Idle
  <2> HIDE DEF r
  <2> QED
    BY <1>0, <2>1, <2>2 DEF Moves
<1> QED
  BY <1>1, <1>2, <1>3, <1>4, <1>5

\* A launch takes the controller and the thread further at once.
LEMMA LaunchMoves ==
  ASSUME CntTypes, Launch
  PROVE  /\ proc' \in [Proc -> Local] /\ \A p \in Proc : proc'[p].at = proc[p].at
         /\ proc'["control"].pc = "pid" /\ proc'["thread"].pc = "boot"
         /\ \A p \in Proc : p \notin {"thread", "control"} => proc'[p] = proc[p]
<1> DEFINE c == [proc["control"] EXCEPT !.pc = "pid"]
           t == [proc["thread"] EXCEPT !.pc = "boot"]
<1>1. proc' = [[proc EXCEPT !["control"] = c] EXCEPT !["thread"] = t]
  BY DEF Launch, CntTypes
<1>2. proc \in [Proc -> Local] /\ proc["control"] \in Local /\ proc["thread"] \in Local
  BY Parties DEF CntTypes
<1>3. /\ c \in Local /\ c.pc = "pid" /\ c.at = proc["control"].at
      /\ t \in Local /\ t.pc = "boot" /\ t.at = proc["thread"].at
  BY <1>2 DEF Local, Pc
<1> HIDE DEF c, t
<1> QED
  BY <1>1, <1>2, <1>3, Parties

\* A step of p outside an update.
Still(p) ==
    /\ Moves(p) /\ proc'[p].at <= total
    /\ ~Busy(p) /\ proc'[p].pc \notin {"read", "add", "store", "hw", "write"}
    /\ UNCHANGED <<reg, counter_hw_val, counter_sw_val, total, seen, expected, overlap>>

LEMMA ThreadStill ==
  ASSUME CntTypes,
         Boot \/ Loop \/ Take \/ Awake \/ Grant \/ ThreadExit
  PROVE  Still("thread")
<1>0. "thread" \in Proc /\ proc \in [Proc -> Local] /\ proc["thread"].at <= total
      /\ total \in Nat
  BY Parties DEF CntTypes
<1>1. /\ UNCHANGED <<reg, counter_hw_val, counter_sw_val, total, seen, expected, overlap>>
      /\ ~Busy("thread")
      /\ \/ \E s \in {"loop", "take", "exit", "awake", "prev", "exited"} : To("thread", s)
         \/ End("thread")
  BY DEF Boot, Loop, Take, Awake, Grant, ThreadExit, Busy, At,
         shadow, history, control
<1>2. ASSUME NEW s \in {"loop", "take", "exit", "awake", "prev", "exited"}, To("thread", s)
      PROVE  Still("thread")
  <2>1. s \in Pc /\ s \notin {"read", "add", "store", "hw", "write"}
    BY DEF Pc
  <2> QED
    BY <1>0, <1>1, <1>2, <2>1, ToMoves DEF Still
<1>3. CASE End("thread")
  BY <1>0, <1>1, <1>3, EndMoves DEF Still
<1> QED
  BY <1>1, <1>2, <1>3

LEMMA ControlStill ==
  ASSUME CntTypes,
         \/ StopGive \/ StopCheck \/ Fresh \/ StorePid
         \/ CounterStart \/ CounterStop
  PROVE  Still("control")
<1>0. "control" \in Proc /\ proc \in [Proc -> Local] /\ proc["control"].at <= total
      /\ total \in Nat
  BY Parties DEF CntTypes
<1> DEFINE S == {"restart", "fresh", "stop", "stopSleep", "restartSleep", "idle", "prev"}
<1>1. /\ UNCHANGED <<reg, counter_hw_val, counter_sw_val, total, seen, expected, overlap>>
      /\ ~Busy("control")
      /\ (\E s \in S : To("control", s)) \/ End("control")
  BY DEF StopGive, StopCheck, Fresh, StorePid, CounterStart, CounterStop, Busy,
         At, Call, shadow, history, control
<1>2. ASSUME NEW s \in S, To("control", s)
      PROVE  Still("control")
  <2>1. s \in Pc /\ s \notin {"read", "add", "store", "hw", "write"}
    BY DEF Pc
  <2> QED
    BY <1>0, <1>1, <1>2, <2>1, ToMoves DEF Still
<1>3. CASE End("control")
  BY <1>0, <1>1, <1>3, EndMoves DEF Still
<1> QED
  BY <1>1, <1>2, <1>3

LEMMA UserStill ==
  ASSUME CntTypes, NEW u \in User,
         \/ Get(u) \/ Sync(u) \/ SyncGive(u) \/ SyncReturn(u)
         \/ Synced(u)
  PROVE  Still(u)
<1>0. u \in Proc /\ proc \in [Proc -> Local] /\ proc[u].at <= total /\ total \in Nat
  BY Parties DEF CntTypes
<1> DEFINE S == {"prev", "give", "sleep", "idle", "synced", "fault"}
<1>1. /\ UNCHANGED <<reg, counter_hw_val, counter_sw_val, total, seen, expected, overlap>>
      /\ ~Busy(u)
      /\ (\E s \in S : To(u, s)) \/ End(u)
  BY DEF Get, Sync, SyncGive, SyncReturn, Synced, Busy,
         At, Call, shadow, history, control
<1>2. ASSUME NEW s \in S, To(u, s)
      PROVE  Still(u)
  <2>1. s \in Pc /\ s \notin {"read", "add", "store", "hw", "write"}
    BY DEF Pc
  <2> QED
    BY <1>0, <1>1, <1>2, <2>1, ToMoves DEF Still
<1>3. CASE End(u)
  BY <1>0, <1>1, <1>3, EndMoves DEF Still
<1> QED
  BY <1>1, <1>2, <1>3

\* What a sync records.
LEMMA SyncRequests ==
  ASSUME CntTypes, NEW u \in User, Sync(u)
  PROVE  /\ request' \in [User -> [at : Nat, shared : BOOLEAN]]
         /\ request'[u].at = total
         /\ request'[u].shared <=> Others(u) # {} \/ sync_gnt
         /\ \A v \in User : v # u =>
              /\ request'[v].at = request[v].at
              /\ request'[v].shared <=> request[v].shared \/ SyncUnderWay(v)
         /\ \A v \in User : request'[v].at <= total
<1>0. /\ request \in [User -> [at : Nat, shared : BOOLEAN]] /\ total \in Nat
      /\ sync_gnt \in BOOLEAN /\ \A v \in User : request[v].at <= total
  BY DEF CntTypes
<1> DEFINE mine == Others(u) # {} \/ sync_gnt
           more(v) == request[v].shared \/ SyncUnderWay(v)
           his(v) == [request[v] EXCEPT !.shared = more(v)]
           r(v) == IF v = u THEN [at |-> total, shared |-> mine] ELSE his(v)
<1>1. request' = [v \in User |-> r(v)]
  BY DEF Sync
<1>2. mine \in BOOLEAN /\ \A v \in User : more(v) \in BOOLEAN
  <2>1. mine \in BOOLEAN
    OBVIOUS
  <2>2. \A v \in User : more(v) \in BOOLEAN
    OBVIOUS
  <2> QED
    BY <2>1, <2>2
<1> HIDE DEF mine, more
<1>3. ASSUME NEW v \in User
      PROVE  /\ his(v) \in [at : Nat, shared : BOOLEAN] /\ his(v).at = request[v].at
             /\ his(v).shared = more(v)
  BY <1>0, <1>2
<1>4. ASSUME NEW v \in User
      PROVE  /\ r(v) \in [at : Nat, shared : BOOLEAN]
             /\ v = u => r(v).at = total /\ r(v).shared = mine
             /\ v # u => r(v).at = request[v].at /\ r(v).shared = more(v)
  BY <1>0, <1>2, <1>3
<1> HIDE DEF r
<1>5. /\ request' \in [User -> [at : Nat, shared : BOOLEAN]]
      /\ request'[u].at = total /\ request'[u].shared = mine
      /\ \A v \in User : v # u => request'[v].at = request[v].at /\ request'[v].shared = more(v)
  <2>1. \A v \in User : request'[v] = r(v)
    BY <1>1
  <2>2. request' \in [User -> [at : Nat, shared : BOOLEAN]]
    BY <1>1, <1>4
  <2>3. request'[u].at = total /\ request'[u].shared = mine
    BY <1>4, <2>1
  <2>4. \A v \in User : v # u => request'[v].at = request[v].at /\ request'[v].shared = more(v)
    BY <1>4, <2>1
  <2> HIDE DEF his
  <2> QED
    BY <2>2, <2>3, <2>4
<1>6. \A v \in User : request'[v].at <= total
  BY <1>0, <1>5
<1>7. /\ request'[u].shared <=> mine
      /\ \A v \in User : v # u => (request'[v].shared <=> more(v))
  BY <1>2, <1>5
<1>8. request'[u].shared <=> Others(u) # {} \/ sync_gnt
  BY <1>7 DEF mine
<1>9. \A v \in User : v # u => (request'[v].shared <=> request[v].shared \/ SyncUnderWay(v))
  BY <1>7 DEF more
<1>10. \A v \in User : v # u => request'[v].at = request[v].at
  BY <1>5
<1> QED
  BY <1>5, <1>6, <1>8, <1>9, <1>10

LEMMA CntTypesNext ==
  ASSUME CntTypes, [CountersNext]_(counterVars)
  PROVE  CntTypes'
<1> USE DEF shadow, history, control
<1>0. /\ proc \in [Proc -> Local] /\ \A p \in Proc : proc[p].at <= total
      /\ total \in Nat /\ seen \in Nat /\ seen <= total /\ expected \in Nat
      /\ reg \in Value /\ counter_hw_val \in Value /\ counter_sw_val \in Nat
      /\ \A p \in Proc : /\ proc[p].at \in Nat /\ proc[p].new \in Value
                             /\ proc[p].prev \in Value /\ proc[p].sum \in Nat
      /\ request \in [User -> [at : Nat, shared : BOOLEAN]]
      /\ \A u \in User : request[u].at <= total
      /\ counter_interval \in BOOLEAN /\ counter_pid \in BOOLEAN /\ overlap \in BOOLEAN
      /\ counter_sync_req \in BOOLEAN /\ sync_gnt \in BOOLEAN
  BY DEF CntTypes, Local
<1>m. ASSUME NEW p \in Proc, Moves(p), proc'[p].at <= total
      PROVE  proc' \in [Proc -> Local] /\ \A q \in Proc : proc'[q].at <= total
  BY <1>0, <1>m DEF Moves
<1>s. ASSUME NEW p \in Proc, Still(p), request' = request,
             {counter_interval', counter_pid', counter_sync_req', sync_gnt'} \subseteq BOOLEAN
      PROVE  CntTypes'
  BY <1>0, <1>m, <1>s DEF Still, CntTypes
<1>1. CASE Count
  BY <1>0, <1>1, DifferenceFacts DEF Count, CntTypes
<1>2. CASE Boot \/ Loop \/ Take \/ Awake \/ Grant \/ ThreadExit
  <2>1. /\ request' = request
        /\ {counter_interval', counter_pid', counter_sync_req', sync_gnt'} \subseteq BOOLEAN
    BY <1>0, <1>2 DEF Boot, Loop, Take, Awake, Grant, ThreadExit
  <2> QED
    BY <1>2, <1>s, <2>1, ThreadStill, Parties
<1>3. CASE \/ StopGive \/ StopCheck \/ Fresh \/ StorePid
           \/ CounterStart \/ CounterStop
  <2>1. /\ request' = request
        /\ {counter_interval', counter_pid', counter_sync_req', sync_gnt'} \subseteq BOOLEAN
    BY <1>0, <1>3 DEF StopGive, StopCheck, Fresh, StorePid, CounterStart, CounterStop
  <2> QED
    BY <1>3, <1>s, <2>1, ControlStill, Parties
<1>4. CASE Launch
  BY <1>0, <1>4, LaunchMoves DEF Launch, CntTypes
<1>5. ASSUME NEW p \in Proc, Collect(p) PROVE CntTypes'
  <2> DEFINE same == UNCHANGED <<reg, total, counter_interval, counter_pid, counter_sync_req,
                                 sync_gnt, request>>
  <2>1. CASE CollectPrev(p)
    <3>1. overlap' \in BOOLEAN /\ UNCHANGED <<counter_hw_val, counter_sw_val, seen, expected>> /\ same
      BY <1>0, <2>1 DEF CollectPrev, Overlaps
    <3> QED
      BY <1>0, <1>m, <2>1, <3>1, CollectMoves DEF CntTypes
  <2>2. CASE CollectRead(p)
    <3>1. expected' \in Nat /\ UNCHANGED <<counter_hw_val, counter_sw_val, seen, overlap>> /\ same
      BY <1>0, <2>2 DEF CollectRead
    <3> QED
      BY <1>0, <1>m, <2>2, <3>1, CollectMoves DEF CntTypes
  <2>3. CASE CollectAdd(p)
    <3>1. UNCHANGED <<counter_hw_val, counter_sw_val, seen, expected, overlap>> /\ same
      BY <2>3 DEF CollectAdd
    <3> QED
      BY <1>0, <1>m, <2>3, <3>1, CollectMoves DEF CntTypes
  <2>5. CASE CollectStore(p)
    <3>1. counter_sw_val' \in Nat /\ UNCHANGED <<counter_hw_val, seen, expected, overlap>> /\ same
      BY <1>0, <2>5 DEF CollectStore
    <3> QED
      BY <1>0, <1>m, <2>5, <3>1, CollectMoves DEF CntTypes
  <2>4. CASE CollectHw(p)
    <3>1. /\ counter_hw_val' = proc[p].new /\ seen' = Max({seen, proc[p].at})
          /\ UNCHANGED <<counter_sw_val, expected, overlap>> /\ same
      BY <2>4 DEF CollectHw
    <3>2. seen' \in Nat /\ seen' <= total
      BY <1>0, <3>1, MaxFacts
    <3> QED
      BY <1>0, <1>m, <2>4, <3>1, <3>2, CollectMoves DEF CntTypes
  <2> QED
    BY <1>5, <2>1, <2>2, <2>3, <2>4, <2>5 DEF Collect
<1>6. ASSUME NEW u \in User,
             Get(u) \/ SyncGive(u) \/ SyncReturn(u) \/ Synced(u)
      PROVE  CntTypes'
  <2>1. /\ request' = request
        /\ {counter_interval', counter_pid', counter_sync_req', sync_gnt'} \subseteq BOOLEAN
    BY <1>0, <1>6 DEF Get, SyncGive, SyncReturn, Synced
  <2> QED
    BY <1>6, <1>s, <2>1, UserStill, Parties
<1>7. ASSUME NEW u \in User, Sync(u) PROVE CntTypes'
  <2>1. /\ request' \in [User -> [at : Nat, shared : BOOLEAN]]
        /\ \A v \in User : request'[v].at <= total
    BY <1>0, <1>7, SyncRequests
  <2>2. counter_sync_req' = TRUE /\ UNCHANGED <<counter_interval, counter_pid, sync_gnt>>
    BY <1>7 DEF Sync
  <2>3. Still(u) /\ u \in Proc
    BY <1>7, UserStill, Parties
  <2> QED
    BY <1>0, <1>m, <2>1, <2>2, <2>3 DEF Still, CntTypes
<1>8. ASSUME NEW u \in User, Set(u) PROVE CntTypes'
  <2>1. /\ To(u, "write") /\ "write" \in Pc /\ u \in Proc /\ 0 \in Value
        /\ counter_sw_val' = 0 /\ counter_hw_val' = 0 /\ overlap' \in BOOLEAN
        /\ UNCHANGED <<reg, total, seen, expected, counter_interval, counter_pid,
                       counter_sync_req, sync_gnt, request>>
    BY <1>0, <1>8, Parties DEF Set, Pc, Overlaps
  <2> QED
    BY <1>0, <1>m, <2>1, ToMoves DEF CntTypes
<1>9. ASSUME NEW u \in User, SetRegister(u) PROVE CntTypes'
  <2>1. /\ End(u) /\ u \in Proc /\ 0 \in Value
        /\ reg' = 0 /\ expected' = 0 /\ seen' = total
        /\ UNCHANGED <<counter_hw_val, counter_sw_val, total, overlap, counter_interval,
                       counter_pid, counter_sync_req, sync_gnt, request>>
    BY <1>9, Parties DEF SetRegister
  <2> QED
    BY <1>0, <1>m, <2>1, EndMoves DEF CntTypes
<1>10. CASE UNCHANGED counterVars
  BY <1>10 DEF counterVars, CntTypes
<1> QED
  BY <1>1, <1>2, <1>3, <1>4, <1>5, <1>6, <1>7, <1>8, <1>9, <1>10, Parties
     DEF CountersNext, CounterThread, ControlStep, UserStep

LEMMA PidNext ==
  ASSUME CntTypes, PidInv, [CountersNext]_(counterVars)
  PROVE  PidInv'
<1> USE DEF PidInv, control
<1>0. /\ "thread" \in Proc /\ "control" \in Proc /\ counter_pid \in BOOLEAN
      /\ proc \in [Proc -> Local]
  BY Parties DEF CntTypes
\* A step of somebody else.
<1>u. ASSUME NEW u \in User, Moves(u), UNCHANGED counter_pid PROVE PidInv'
  <2>1. proc'["thread"] = proc["thread"] /\ proc'["control"] = proc["control"]
    BY <1>0, <1>u, Parties DEF Moves
  <2> QED
    BY <1>u, <2>1
<1>t. ASSUME Moves("thread"), UNCHANGED counter_pid, proc["thread"].pc \notin {"idle", "boot"}
      PROVE  PidInv'
  <2>1. proc'["control"] = proc["control"] /\ proc["control"].pc # "pid"
    BY <1>0, <1>t DEF Moves
  <2> QED
    BY <1>t, <2>1
<1>c. ASSUME Moves("control"), UNCHANGED counter_pid, proc["control"].pc # "pid",
             proc'["control"].pc \in {"idle", "fresh", "prev", "read", "hw", "launch",
                                      "restart", "stop", "restartSleep", "stopSleep"},
             proc'["control"].pc \in {"fresh", "prev", "read", "hw", "launch"} => ~counter_pid
      PROVE  PidInv'
  <2>1. proc'["thread"] = proc["thread"]
    BY <1>0, <1>c DEF Moves
  <2> QED
    BY <1>c, <2>1
<1>1. CASE Count \/ UNCHANGED counterVars
  BY <1>1 DEF Count, counterVars
<1>2. CASE Boot
  <2>1. /\ To("thread", "loop") /\ "loop" \in Pc /\ UNCHANGED counter_pid
        /\ proc["thread"].pc = "boot" /\ proc["control"].pc # "pid"
    BY <1>2 DEF Boot, At, Pc
  <2>2. proc'["control"] = proc["control"]
    BY <1>0, <2>1, ToMoves DEF Moves
  <2> QED
    BY <2>1, <2>2
<1>3. CASE Loop \/ Take \/ Awake \/ Grant
  <2>1. Moves("thread")
    BY <1>3, ThreadStill DEF Still
  <2>2. UNCHANGED counter_pid /\ proc["thread"].pc \notin {"idle", "boot"}
    BY <1>3 DEF Loop, Take, Awake, Grant, At
  <2> QED
    BY <1>t, <2>1, <2>2
<1>4. CASE ThreadExit
  <2>1. proc["thread"].pc \in {"exit", "exited"}
    BY <1>4 DEF ThreadExit, At
  <2>2. CASE proc["thread"].pc = "exit"
    <3>1. Moves("thread") /\ UNCHANGED counter_pid
      BY <1>4, <2>2, ThreadStill DEF ThreadExit, At, Still
    <3> QED
      BY <1>t, <2>2, <3>1
  <2>3. CASE proc["thread"].pc = "exited"
    <3>1. End("thread") /\ counter_pid' = FALSE
      BY <1>4, <2>3 DEF ThreadExit, At
    <3>2. Moves("thread") /\ proc'["thread"].pc = "idle"
      BY <1>0, <3>1, EndMoves
    <3>3. proc'["control"] = proc["control"]
      BY <1>0, <3>2 DEF Moves
    <3> QED
      BY <2>3, <3>1, <3>2, <3>3
  <2> QED
    BY <2>1, <2>2, <2>3
<1>5. CASE StopGive \/ StopCheck \/ Fresh \/ CounterStart \/ CounterStop
  <2>1. Moves("control") /\ UNCHANGED counter_pid
    BY <1>5, ControlStill DEF Still, StopGive, StopCheck, Fresh, CounterStart, CounterStop
  <2>2. /\ proc["control"].pc # "pid"
        /\ \E s \in {"restart", "fresh", "stop", "stopSleep", "restartSleep", "idle", "prev"} :
             /\ To("control", s)
             /\ s \in {"fresh", "prev"} => ~counter_pid
    BY <1>0, <1>5 DEF StopGive, StopCheck, Fresh, CounterStart, CounterStop, At, Call
  <2>3. ASSUME NEW s \in {"restart", "fresh", "stop", "stopSleep", "restartSleep", "idle", "prev"},
               To("control", s)
        PROVE  proc'["control"].pc = s
    <3>1. s \in Pc
      BY DEF Pc
    <3> QED
      BY <1>0, <2>3, <3>1, ToMoves
  <2> QED
    BY <1>c, <2>1, <2>2, <2>3
<1>6. CASE Launch
  BY <1>6, LaunchMoves DEF Launch
<1>7. CASE StorePid
  <2>1. End("control") /\ counter_pid' = TRUE
    BY <1>7 DEF StorePid
  <2>2. Moves("control") /\ proc'["control"].pc = "idle"
    BY <1>0, <2>1, EndMoves
  <2> QED
    BY <2>1, <2>2
<1>8. ASSUME NEW p \in Proc, Collect(p) PROVE PidInv'
  <2>1. Moves(p) /\ UNCHANGED counter_pid
    BY <1>8, CollectMoves
       DEF Collect, CollectPrev, CollectRead, CollectAdd, CollectStore, CollectHw
  <2>2. CASE p \in User
    BY <1>u, <2>1, <2>2
  <2>3. CASE p = "thread"
    <3>1. proc["thread"].pc \notin {"idle", "boot"}
      BY <1>8, <2>3
         DEF Collect, CollectPrev, CollectRead, CollectAdd, CollectStore, CollectHw, At
    <3> QED
      BY <1>t, <2>1, <2>3, <3>1
  <2>4. CASE p = "control"
    <3>1. /\ proc["control"].pc \in {"prev", "read", "hw"}
          /\ proc'["control"].pc \in {"read", "hw", "launch"}
      BY <1>8, <2>4, CollectMoves
         DEF Collect, CollectPrev, CollectRead, CollectAdd, CollectStore, CollectHw, At
    <3> QED
      BY <1>c, <2>1, <2>4, <3>1
  <2> QED
    BY <2>2, <2>3, <2>4 DEF Proc
<1>9. ASSUME NEW u \in User,
             \/ Get(u) \/ Sync(u) \/ SyncGive(u) \/ SyncReturn(u)
             \/ Synced(u) \/ Set(u) \/ SetRegister(u)
      PROVE  PidInv'
  <2>1. Moves(u)
    <3>1. CASE Set(u)
      BY <1>0, <3>1, Parties, ToMoves DEF Set, Pc
    <3>2. CASE SetRegister(u)
      BY <1>0, <3>2, Parties, EndMoves DEF SetRegister
    <3>3. CASE ~(Set(u) \/ SetRegister(u))
      BY <1>9, <3>3, UserStill DEF Still
    <3> QED
      BY <3>1, <3>2, <3>3
  <2>2. UNCHANGED counter_pid
    BY <1>9 DEF Get, Sync, SyncGive, SyncReturn, Synced, Set, SetRegister
  <2> QED
    BY <1>u, <2>1, <2>2
<1> QED
  BY <1>0, <1>1, <1>2, <1>3, <1>4, <1>5, <1>6, <1>7, <1>8, <1>9, Parties
     DEF CountersNext, CounterThread, ControlStep, UserStep

\* Nobody, or nobody but p, is in the middle of an update.
Sole(p) == \A q \in Proc \ {p} : ~Busy(q)

LEMMA AccountMove ==
  ASSUME CntTypes, NEW p \in Proc, Sole(p), Moves(p), Update(p)',
         ~Busy(p)' => Balanced'
  PROVE  AccountInv'
<1>1. ASSUME NEW q \in Proc, q # p PROVE ~Busy(q)' /\ Update(q)'
  <2>1. proc'[q] = proc[q] /\ ~Busy(q)
    BY <1>1 DEF Moves, Sole
  <2> QED
    BY <2>1 DEF Busy, Update
<1> QED
  BY <1>1 DEF AccountInv

LEMMA AccountStill ==
  ASSUME CntTypes, AccountInv, UNCHANGED <<reg, counter_hw_val, counter_sw_val, total, seen,
                                           expected, overlap>>,
         \A p \in Proc : proc'[p] = proc[p] \/ (~Busy(p) /\ ~Busy(p)')
  PROVE  AccountInv'
<1>1. Balanced' <=> Balanced
  BY DEF Balanced
<1>2. ASSUME NEW p \in Proc
      PROVE  /\ Busy(p)' <=> Busy(p)
             /\ Update(p) => Update(p)'
  <2>1. CASE proc'[p] = proc[p]
    BY <1>1, <2>1 DEF Busy, Update
  <2>2. CASE ~Busy(p) /\ ~Busy(p)'
    BY <2>2 DEF Busy, Update
  <2> QED
    BY <2>1, <2>2
<1> QED
  BY <1>1, <1>2 DEF AccountInv

LEMMA AccountCount ==
  ASSUME CntTypes, AccountInv, Count
  PROVE  AccountInv'
<1> SUFFICES ASSUME ~overlap PROVE AccountInv'
  BY DEF AccountInv, Count
<1>0. /\ reg \in Value /\ counter_hw_val \in Value /\ counter_sw_val \in Nat
      /\ total \in Nat /\ seen \in Nat /\ expected \in Nat
      /\ \A p \in Proc : proc[p].new \in Value /\ proc[p].at \in Nat
                             /\ proc[p].prev \in Value /\ proc[p].sum \in Nat
      /\ MODULUS \in Nat
  BY ModulusAssumption DEF CntTypes, Local
<1>1. /\ reg' = (reg + 1) % MODULUS /\ total - seen < MODULUS - 1
      /\ total' = total + 1 /\ expected' = expected + 1
      /\ UNCHANGED <<counter_hw_val, counter_sw_val, seen, proc>>
  BY DEF Count, shadow
<1> DEFINE D(b) == Difference(reg, b)
           E(b) == Difference((reg + 1) % MODULUS, b)
<1>2. ASSUME NEW b \in Value, D(b) < MODULUS - 1 PROVE E(b) = D(b) + 1
  BY <1>0, <1>2, DifferenceFacts
<1>3. ASSUME NEW b \in Value PROVE D(b) \in Nat
  <2>1. D(b) \in 0 .. MODULUS - 1
    BY <1>0, <1>3, DifferenceFacts
  <2> QED
    BY <1>0, <2>1
<1>4. Balanced => Balanced'
  <2> SUFFICES ASSUME Balanced PROVE Balanced'
    OBVIOUS
  <2>1. counter_sw_val + D(counter_hw_val) = expected /\ total - seen = D(counter_hw_val)
    BY DEF Balanced
  <2>2. E(counter_hw_val) = D(counter_hw_val) + 1
    BY <1>0, <1>1, <1>2, <2>1
  <2>3. counter_sw_val + E(counter_hw_val) = expected + 1 /\ (total + 1) - seen = E(counter_hw_val)
    <3> DEFINE d == D(counter_hw_val)
               e == E(counter_hw_val)
    <3>1. d \in Nat /\ counter_sw_val + d = expected /\ total - seen = d /\ e = d + 1
      BY <1>0, <1>3, <2>1, <2>2
    <3> HIDE DEF d, e
    <3>2. counter_sw_val + e = expected + 1 /\ (total + 1) - seen = e
      BY <1>0, <3>1
    <3> QED
      BY <3>2 DEF e
  <2> QED
    BY <1>1, <2>3 DEF Balanced
<1>5. ASSUME NEW p \in Proc, Update(p) PROVE Update(p)'
  <2> DEFINE new == proc[p].new
             at == proc[p].at
  <2>0. new \in Value /\ at \in Nat /\ Difference(new, proc[p].prev) \in Nat
    <3>1. Difference(new, proc[p].prev) \in 0 .. MODULUS - 1
      BY <1>0, DifferenceFacts
    <3> QED
      BY <1>0, <3>1
  <2>1. ASSUME seen <= at, total - at = D(new)
        PROVE  E(new) = D(new) + 1 /\ (total + 1) - at = E(new)
    <3>1. D(new) < MODULUS - 1
      BY <1>0, <1>1, <2>0, <2>1
    <3>2. E(new) = D(new) + 1
      BY <1>2, <2>0, <3>1
    <3> QED
      BY <1>0, <1>3, <2>0, <2>1, <3>2
  <2>2. CASE proc[p].pc = "read"
    BY <1>1, <1>4, <1>5, <2>2 DEF Update
  <2>3. CASE proc[p].pc = "add"
    <3>1. /\ proc[p].prev = counter_hw_val /\ Balanced
          /\ at - seen = Difference(new, proc[p].prev) /\ total - at = D(new)
      BY <1>5, <2>3 DEF Update
    <3>2. seen <= at
      BY <1>0, <2>0, <3>1
    <3>3. (total + 1) - at = E(new)
      BY <2>1, <3>1, <3>2
    <3> QED
      BY <1>1, <1>4, <2>3, <3>1, <3>3 DEF Update
  <2>4. CASE proc[p].pc = "hw"
    <3>1. /\ seen <= at /\ total - at = D(new) /\ counter_sw_val + D(new) = expected
      BY <1>5, <2>4 DEF Update
    <3>2. E(new) = D(new) + 1 /\ (total + 1) - at = E(new)
      BY <2>1, <3>1
    <3>3. counter_sw_val + E(new) = expected + 1
      BY <1>0, <1>3, <2>0, <3>1, <3>2
    <3> QED
      BY <1>1, <2>4, <3>1, <3>2, <3>3 DEF Update
  <2>7. CASE proc[p].pc = "store"
    <3>1. /\ seen <= at /\ total - at = D(new) /\ proc[p].sum + D(new) = expected
      BY <1>5, <2>7 DEF Update
    <3>2. E(new) = D(new) + 1 /\ (total + 1) - at = E(new)
      BY <2>1, <3>1
    <3>3. proc[p].sum + E(new) = expected + 1
      BY <1>0, <1>3, <2>0, <3>1, <3>2
    <3> QED
      BY <1>1, <2>7, <3>1, <3>2, <3>3 DEF Update
  <2>5. CASE proc[p].pc = "write"
    BY <1>1, <1>5, <2>5 DEF Update
  <2>6. CASE proc[p].pc \notin {"read", "add", "store", "hw", "write"}
    BY <1>1, <2>6 DEF Update
  <2> QED
    BY <2>2, <2>3, <2>4, <2>5, <2>6, <2>7
<1> QED
  BY <1>1, <1>4, <1>5 DEF AccountInv, Busy

LEMMA AccountCollect ==
  ASSUME CntTypes, PidInv, AccountInv, NEW p \in Proc, Collect(p)
  PROVE  AccountInv'
<1>0. /\ reg \in Value /\ counter_hw_val \in Value /\ counter_sw_val \in Nat
      /\ total \in Nat /\ seen \in Nat /\ expected \in Nat
      /\ proc[p].new \in Value /\ proc[p].at \in Nat /\ proc[p].prev \in Value
      /\ overlap \in BOOLEAN
  BY DEF CntTypes, Local
<1>d. ASSUME NEW a \in Value, NEW b \in Value PROVE Difference(a, b) \in Nat
  <2>1. Difference(a, b) \in 0 .. MODULUS - 1
    BY <1>d, DifferenceFacts
  <2> QED
    BY <2>1
<1> SUFFICES ASSUME ~overlap' PROVE AccountInv'
  BY DEF AccountInv
<1>1. ~overlap /\ Update(p) /\ Sole(p)
  <2>1. CASE CollectPrev(p)
    <3>1. overlap' = (overlap \/ Updating \ {p} # {})
      BY <2>1 DEF CollectPrev, Overlaps
    <3>2. ~overlap /\ Updating \ {p} = {}
      BY <1>0, <3>1
    <3> QED
      BY <3>2 DEF AccountInv, Sole, Busy, Updating
  <2>2. CASE CollectRead(p) \/ CollectAdd(p) \/ CollectStore(p) \/ CollectHw(p)
    <3>1. overlap' = overlap /\ Busy(p)
      BY <2>2 DEF CollectRead, CollectAdd, CollectStore, CollectHw, At, Busy, history
    <3> QED
      BY <1>0, <3>1 DEF AccountInv, Sole
  <2> QED
    BY <2>1, <2>2 DEF Collect
<1>2. CASE CollectPrev(p)
  <2>1. /\ Moves(p) /\ proc'[p].pc = "read" /\ proc'[p].prev = counter_hw_val /\ ~Busy(p)
        /\ UNCHANGED <<reg, counter_hw_val, counter_sw_val, total, seen, expected>>
    BY <1>2, CollectMoves DEF CollectPrev, At, Busy, shadow
  <2>2. Balanced
    BY <1>1, <2>1 DEF AccountInv, Sole
  <2>3. Balanced'
    BY <2>1, <2>2 DEF Balanced
  <2> QED
    BY <1>1, <2>1, <2>3, AccountMove DEF Update
<1>3. CASE CollectRead(p)
  <2>1. /\ Moves(p) /\ proc'[p].pc = (IF p = "control" THEN "hw" ELSE "add")
        /\ proc'[p].prev = proc[p].prev /\ proc'[p].new = reg /\ proc'[p].at = total
        /\ proc[p].pc = "read"
        /\ expected' = (IF p = "control" THEN counter_sw_val ELSE expected)
        /\ UNCHANGED <<reg, counter_hw_val, counter_sw_val, total, seen>>
    BY <1>3, CollectMoves DEF CollectRead, At, shadow
  <2>2. proc[p].prev = counter_hw_val /\ Balanced
    BY <1>1, <2>1 DEF Update
  <2>3. Difference(reg, reg) = 0 /\ seen <= total /\ total - total = 0
    BY <1>0, DifferenceFacts DEF CntTypes
  <2>4. CASE p = "control"
    <3>1. counter_sw_val + Difference(reg, reg) = expected'
      BY <1>0, <2>1, <2>3, <2>4
    <3> QED
      BY <1>1, <2>1, <2>3, <2>4, <3>1, AccountMove DEF Update, Busy
  <2>5. CASE p # "control"
    <3>1. Balanced' /\ total - seen = Difference(reg, counter_hw_val)
      BY <2>1, <2>2, <2>5 DEF Balanced
    <3>2. Update(p)'
      BY <2>1, <2>2, <2>3, <2>5, <3>1 DEF Update
    <3> QED
      BY <1>1, <2>1, <2>5, <3>1, <3>2, AccountMove
  <2> QED
    BY <2>4, <2>5
<1>4. CASE CollectAdd(p)
  <2> DEFINE new == proc[p].new
             d == Difference(new, proc[p].prev)
  <2>1. /\ Moves(p) /\ proc'[p].pc = "store" /\ proc'[p].new = new
        /\ proc'[p].at = proc[p].at /\ proc'[p].sum = counter_sw_val + d
        /\ proc[p].pc = "add"
        /\ UNCHANGED <<reg, counter_hw_val, counter_sw_val, total, seen, expected>>
    BY <1>4, CollectMoves DEF CollectAdd, At, shadow, history
  <2>2. /\ proc[p].prev = counter_hw_val /\ proc[p].at - seen = d
        /\ total - proc[p].at = Difference(reg, new)
        /\ counter_sw_val + Difference(reg, counter_hw_val) = expected
        /\ total - seen = Difference(reg, counter_hw_val)
    BY <1>1, <2>1 DEF Update, Balanced
  <2>3. d \in Nat /\ Difference(reg, new) \in Nat /\ Difference(reg, counter_hw_val) \in Nat
    BY <1>0, <1>d
  <2>4. seen <= proc[p].at /\ (counter_sw_val + d) + Difference(reg, new) = expected
    BY <1>0, <2>2, <2>3
  <2> HIDE DEF d
  <2>5. Update(p)' /\ Busy(p)'
    BY <2>1, <2>2, <2>4 DEF Update, Busy
  <2> QED
    BY <1>1, <2>1, <2>5, AccountMove
<1>5. CASE CollectHw(p)
  <2> DEFINE new == proc[p].new
  <2>1. /\ Moves(p) /\ proc'[p].pc \in {"grant", "launch", "idle"}
        /\ proc[p].pc = "hw" /\ counter_hw_val' = new
        /\ seen' = Max({seen, proc[p].at})
        /\ UNCHANGED <<reg, counter_sw_val, total, expected>>
    BY <1>5, CollectMoves DEF CollectHw, At
  <2>2. /\ seen <= proc[p].at /\ total - proc[p].at = Difference(reg, new)
        /\ counter_sw_val + Difference(reg, new) = expected
    BY <1>1, <2>1 DEF Update
  <2>3. seen' = proc[p].at
    BY <1>0, <2>1, <2>2, MaxFacts
  <2>4. Balanced' /\ Update(p)'
    BY <2>1, <2>2, <2>3 DEF Balanced, Update
  <2> QED
    BY <1>1, <2>1, <2>4, AccountMove
<1>6. CASE CollectStore(p)
  <2>1. /\ Moves(p) /\ proc'[p].pc = "hw" /\ proc'[p].new = proc[p].new
        /\ proc'[p].at = proc[p].at
        /\ proc[p].pc = "store" /\ counter_sw_val' = proc[p].sum
        /\ UNCHANGED <<reg, counter_hw_val, total, seen, expected>>
    BY <1>6, CollectMoves DEF CollectStore, At, history
  <2>2. Update(p)' /\ Busy(p)'
    BY <1>1, <2>1 DEF Update, Busy
  <2> QED
    BY <1>1, <2>1, <2>2, AccountMove
<1> QED
  BY <1>2, <1>3, <1>4, <1>5, <1>6 DEF Collect

LEMMA AccountNext ==
  ASSUME CntTypes, PidInv, AccountInv, [CountersNext]_(counterVars)
  PROVE  AccountInv'
<1>0. 0 \in Value /\ proc \in [Proc -> Local] /\ overlap \in BOOLEAN /\ total \in Nat
  BY Parties DEF CntTypes
<1>s. ASSUME NEW p \in Proc, Still(p) PROVE AccountInv'
  <2>1. \A q \in Proc : proc'[q] = proc[q] \/ (~Busy(q) /\ ~Busy(q)')
    BY <1>s DEF Still, Moves, Busy
  <2> QED
    BY <1>s, <2>1, AccountStill DEF Still
<1>1. CASE Count
  BY <1>1, AccountCount
<1>2. CASE Boot \/ Loop \/ Take \/ Awake \/ Grant \/ ThreadExit
  BY <1>2, <1>s, ThreadStill, Parties
<1>3. CASE \/ StopGive \/ StopCheck \/ Fresh \/ StorePid
           \/ CounterStart \/ CounterStop
  BY <1>3, <1>s, ControlStill, Parties
<1>4. CASE Launch
  <2>1. /\ UNCHANGED <<reg, counter_hw_val, counter_sw_val, total, seen, expected, overlap>>
        /\ proc["control"].pc = "launch"
    BY <1>4 DEF Launch, At, shadow, history
  <2>2. proc["thread"].pc = "idle"
    BY <2>1 DEF PidInv
  <2>3. \A q \in Proc : proc'[q] = proc[q] \/ (~Busy(q) /\ ~Busy(q)')
    BY <1>4, <2>1, <2>2, LaunchMoves DEF Busy
  <2> QED
    BY <2>1, <2>3, AccountStill
<1>5. ASSUME NEW p \in Proc, Collect(p) PROVE AccountInv'
  BY <1>5, AccountCollect
<1>6. ASSUME NEW u \in User,
             \/ Get(u) \/ Sync(u) \/ SyncGive(u) \/ SyncReturn(u)
             \/ Synced(u)
      PROVE  AccountInv'
  BY <1>6, <1>s, UserStill, Parties
<1>7. ASSUME NEW u \in User, Set(u) PROVE AccountInv'
  <2> SUFFICES ASSUME ~overlap' PROVE AccountInv'
    BY DEF AccountInv
  <2>1. /\ To(u, "write") /\ "write" \in Pc /\ u \in Proc
        /\ counter_sw_val' = 0 /\ counter_hw_val' = 0
        /\ overlap' = (overlap \/ Updating \ {u} # {})
    BY <1>7, Parties DEF Set, Pc, Overlaps
  <2>2. Moves(u) /\ proc'[u].pc = "write"
    BY <1>0, <2>1, ToMoves
  <2>3. Sole(u)
    <3>1. Updating \ {u} = {}
      BY <1>0, <2>1
    <3> QED
      BY <3>1 DEF Sole, Busy, Updating
  <2> QED
    BY <2>1, <2>2, <2>3, AccountMove DEF Update, Busy
<1>8. ASSUME NEW u \in User, SetRegister(u) PROVE AccountInv'
  <2> SUFFICES ASSUME ~overlap PROVE AccountInv'
    BY <1>8 DEF AccountInv, SetRegister
  <2>1. /\ End(u) /\ u \in Proc /\ proc[u].pc = "write"
        /\ reg' = 0 /\ expected' = 0 /\ seen' = total
        /\ UNCHANGED <<counter_hw_val, counter_sw_val, total>>
    BY <1>8, Parties DEF SetRegister, At, shadow
  <2>2. Moves(u) /\ proc'[u].pc = "idle"
    BY <1>0, <2>1, EndMoves
  <2>3. Busy(u) /\ Sole(u) /\ Update(u)
    BY <2>1 DEF AccountInv, Sole, Busy
  <2>4. counter_sw_val = 0 /\ counter_hw_val = 0
    BY <2>1, <2>3 DEF Update
  <2>5. Difference(0, 0) = 0
    BY <1>0, DifferenceFacts
  <2>6. Balanced'
    BY <1>0, <2>1, <2>4, <2>5 DEF Balanced
  <2> QED
    BY <2>1, <2>2, <2>3, <2>6, AccountMove DEF Update
<1>9. CASE UNCHANGED counterVars
  BY <1>9, AccountStill DEF counterVars, shadow, history
<1> QED
  BY <1>1, <1>2, <1>3, <1>4, <1>5, <1>6, <1>7, <1>8, <1>9, Parties
     DEF CountersNext, CounterThread, ControlStep, UserStep

\* A step with no call and no return of a sync.
NoSync(v) ==
    /\ proc'[v].pc \in {"give", "sleep"} => proc[v].pc \in {"give", "sleep"}
    /\ proc'[v].pc = "synced" => proc[v].pc = "synced"

LEMMA SyncKeep ==
  ASSUME CntTypes, SyncInv, request' = request, seen' >= seen, seen' \in Nat,
         \A v \in User : NoSync(v),
         \A u \in User : Served(u) /\ Covered(u) => Served(u)' /\ Covered(u)'
  PROVE  SyncInv'
<1> SUFFICES ASSUME NEW u \in User, ~request[u].shared PROVE SyncOf(u)'
  BY DEF SyncInv, SyncOf
<1>1. SyncOf(u) /\ seen \in Nat /\ request[u].at \in Nat
  BY DEF SyncInv, CntTypes
<1>2. CASE proc'[u].pc \in {"give", "sleep"}
  <2>1. /\ \A v \in User \ {u} : proc[v].pc \notin {"give", "sleep"}
        /\ Served(u) /\ Covered(u)
    BY <1>1, <1>2 DEF SyncOf, NoSync
  <2>2. \A v \in User \ {u} : proc'[v].pc \notin {"give", "sleep"}
    BY <2>1 DEF NoSync
  <2> QED
    BY <1>2, <2>1, <2>2 DEF SyncOf
<1>3. CASE proc'[u].pc = "synced"
  <2>1. seen >= request[u].at
    BY <1>1, <1>3 DEF SyncOf, NoSync
  <2>2. seen' >= request'[u].at
    BY <1>1, <2>1
  <2> QED
    BY <1>3, <2>2 DEF SyncOf
<1>4. CASE proc'[u].pc \notin {"give", "sleep", "synced"}
  BY <1>4 DEF SyncOf
<1> QED
  BY <1>2, <1>3, <1>4

\* ... by which the thread gets no further.
LEMMA SyncKeepThread ==
  ASSUME CntTypes, SyncInv, UNCHANGED <<request, counter_sync_req, sync_gnt>>,
         seen' >= seen, seen' \in Nat, proc'["thread"] = proc["thread"],
         \A v \in User : NoSync(v)
  PROVE  SyncInv'
<1>1. ASSUME NEW u \in User PROVE Served(u) /\ Covered(u) => Served(u)' /\ Covered(u)'
  <2>1. request[u].at \in Nat /\ seen \in Nat
    BY DEF CntTypes
  <2>2. seen >= request[u].at => seen' >= request[u].at
    BY <2>1
  <2> QED
    BY <2>2 DEF Served, Covered, Granting
<1> QED
  BY <1>1, SyncKeep

LEMMA SyncThread ==
  ASSUME CntTypes, SyncInv, CounterThread
  PROVE  SyncInv'
<1> USE DEF history, control
<1>0. /\ "thread" \in Proc /\ proc \in [Proc -> Local]
      /\ proc["thread"].at \in Nat /\ seen \in Nat /\ total \in Nat
      /\ \A u \in User : /\ request[u].at \in Nat /\ request[u].at <= total
                         /\ u \in Proc /\ u # "thread"
      /\ sync_gnt \in BOOLEAN /\ counter_sync_req \in BOOLEAN
  BY Parties DEF CntTypes, Local
<1>k. ASSUME Moves("thread"), request' = request, seen' >= seen, seen' \in Nat,
             \A u \in User : Served(u) /\ Covered(u) => Served(u)' /\ Covered(u)'
      PROVE  SyncInv'
  <2>1. \A v \in User : proc'[v] = proc[v]
    BY <1>0, <1>k DEF Moves
  <2>2. \A v \in User : NoSync(v)
    BY <2>1 DEF NoSync
  <2> QED
    BY <1>k, <2>2, SyncKeep
<1>1. CASE Boot \/ Loop \/ Take \/ ThreadExit
  <2>1. Moves("thread") /\ UNCHANGED <<request, counter_sync_req, sync_gnt, seen>>
    BY <1>1, ThreadStill DEF Still, Boot, Loop, Take, ThreadExit
  <2>2. proc["thread"].pc \notin {"prev", "read", "add", "store", "hw", "grant"}
    BY <1>1 DEF Boot, Loop, Take, ThreadExit, At
  <2>3. \A u \in User : Served(u) /\ Covered(u) => Served(u)' /\ Covered(u)'
    BY <2>1, <2>2 DEF Served, Covered, Granting
  <2> QED
    BY <1>0, <1>k, <2>1, <2>3
<1>2. CASE Awake
  <2>1. Moves("thread") /\ UNCHANGED <<request, counter_sync_req, seen>>
    BY <1>2, ThreadStill DEF Still, Awake
  <2>2. sync_gnt' => proc'["thread"].pc = "prev"
    <3>1. counter_interval => To("thread", "prev") /\ "prev" \in Pc
      BY <1>2 DEF Awake, Pc
    <3>2. counter_interval => proc'["thread"].pc = "prev"
      BY <1>0, <3>1, ToMoves
    <3>3. sync_gnt' => counter_interval
      BY <1>2 DEF Awake
    <3> QED
      BY <3>2, <3>3
  <2>3. \A u \in User : Served(u) /\ Covered(u) => Served(u)' /\ Covered(u)'
    BY <2>1, <2>2 DEF Served, Covered, Granting
  <2> QED
    BY <1>0, <1>k, <2>1, <2>3
<1>3. CASE Grant
  <2>1. Moves("thread") /\ UNCHANGED <<request, seen>> /\ ~sync_gnt' /\ proc["thread"].pc = "grant"
    BY <1>3, ThreadStill DEF Still, Grant, At
  <2>2. counter_sync_req' = (counter_sync_req /\ ~sync_gnt)
    BY <1>3 DEF Grant
  <2>3. ASSUME NEW u \in User, Served(u), Covered(u) PROVE Served(u)' /\ Covered(u)'
    <3>1. sync_gnt => seen >= request[u].at
      BY <2>1, <2>3 DEF Covered, Granting
    <3>2. seen >= request[u].at \/ (counter_sync_req /\ ~sync_gnt)
      BY <2>3, <3>1 DEF Served
    <3>3. seen' >= request'[u].at \/ counter_sync_req'
      BY <2>1, <2>2, <3>2
    <3> QED
      BY <2>1, <3>3 DEF Served, Covered
  <2> QED
    BY <1>0, <1>k, <2>1, <2>3
<1>4. CASE CollectPrev("thread")
  <2>1. /\ Moves("thread") /\ UNCHANGED <<request, counter_sync_req, sync_gnt, seen>>
        /\ proc'["thread"].pc = "read"
    BY <1>0, <1>4, CollectMoves DEF CollectPrev
  <2>2. \A u \in User : Served(u) /\ Covered(u) => Served(u)' /\ Covered(u)'
    BY <2>1 DEF Served, Covered, Granting
  <2> QED
    BY <1>0, <1>k, <2>1, <2>2
<1>5. CASE CollectRead("thread")
  <2>1. /\ Moves("thread") /\ UNCHANGED <<request, counter_sync_req, sync_gnt, seen>>
        /\ proc'["thread"].pc = "add" /\ proc'["thread"].at = total
    <3>1. /\ Moves("thread") /\ proc'["thread"].pc = "add" /\ proc'["thread"].at = total
      BY <1>0, <1>5, CollectMoves
    <3> QED
      BY <1>5, <3>1 DEF CollectRead
  <2>2. \A u \in User : Served(u) /\ Covered(u) => Served(u)' /\ Covered(u)'
    BY <1>0, <2>1 DEF Served, Covered, Granting
  <2> QED
    BY <1>0, <1>k, <2>1, <2>2
<1>6. CASE CollectAdd("thread") \/ CollectStore("thread")
  <2>1. /\ Moves("thread") /\ UNCHANGED <<request, counter_sync_req, sync_gnt, seen>>
        /\ proc'["thread"].pc \in {"store", "hw"} /\ proc'["thread"].at = proc["thread"].at
        /\ proc["thread"].pc \in {"add", "store"}
    BY <1>0, <1>6, CollectMoves DEF CollectAdd, CollectStore, At
  <2>2. \A u \in User : Served(u) /\ Covered(u) => Served(u)' /\ Covered(u)'
    BY <2>1 DEF Served, Covered, Granting
  <2> QED
    BY <1>0, <1>k, <2>1, <2>2
<1>7. CASE CollectHw("thread")
  <2>1. /\ Moves("thread") /\ UNCHANGED <<request, counter_sync_req, sync_gnt>>
        /\ proc'["thread"].pc = "grant" /\ proc["thread"].pc = "hw"
        /\ seen' = Max({seen, proc["thread"].at})
    <3>1. Moves("thread") /\ proc'["thread"].pc = "grant"
      BY <1>0, <1>7, CollectMoves
    <3> QED
      BY <1>7, <3>1 DEF CollectHw, At
  <2>2. seen' \in Nat /\ seen' >= seen /\ seen' >= proc["thread"].at
    BY <1>0, <2>1, MaxFacts
  <2>3. ASSUME NEW u \in User, Served(u), Covered(u) PROVE Served(u)' /\ Covered(u)'
    <3>1. sync_gnt => proc["thread"].at >= request[u].at
      BY <2>1, <2>3 DEF Covered, Granting
    <3>2. sync_gnt => seen' >= request[u].at
      BY <1>0, <2>2, <3>1
    <3>3. counter_sync_req \/ seen' >= request[u].at
      BY <1>0, <2>2, <2>3 DEF Served
    <3> QED
      BY <2>1, <3>2, <3>3 DEF Served, Covered, Granting
  <2> QED
    BY <1>k, <2>1, <2>2, <2>3
<1> QED
  BY <1>1, <1>2, <1>3, <1>4, <1>5, <1>6, <1>7 DEF CounterThread, Collect

LEMMA SyncCalled ==
  ASSUME CntTypes, SyncInv, NEW u \in User, Sync(u)
  PROVE  SyncInv'
<1>0. /\ u \in Proc /\ proc \in [Proc -> Local] /\ \A v \in User : v \in Proc
      /\ "give" \in Pc
  BY Parties DEF CntTypes, Pc
<1>1. /\ Moves(u) /\ proc'[u].pc = "give" /\ UNCHANGED <<seen, sync_gnt>> /\ counter_sync_req'
  BY <1>0, ToMoves DEF Sync, history
<1> SUFFICES ASSUME NEW v \in User PROVE SyncOf(v)'
  BY DEF SyncInv
<1>2. CASE v = u
  <2> SUFFICES ASSUME ~request'[u].shared PROVE SyncOf(u)'
    BY <1>2 DEF SyncOf
  <2>1. Others(u) = {} /\ ~sync_gnt
    BY SyncRequests
  <2>2. \A w \in User \ {u} : proc[w].pc \notin {"give", "sleep"} /\ proc'[w] = proc[w]
    BY <1>0, <1>1, <2>1 DEF Others, SyncUnderWay, Moves
  <2> QED
    BY <1>1, <2>1, <2>2 DEF SyncOf, Served, Covered
<1>3. CASE v # u
  <2> SUFFICES ASSUME ~request'[v].shared PROVE SyncOf(v)'
    BY DEF SyncOf
  <2>1. /\ request'[v].at = request[v].at /\ ~request[v].shared
        /\ proc[v].pc \notin {"give", "sleep"}
    BY <1>3, SyncRequests DEF SyncUnderWay
  <2>2. proc'[v] = proc[v]
    BY <1>0, <1>1, <1>3 DEF Moves
  <2> QED
    BY <1>1, <2>1, <2>2 DEF SyncInv, SyncOf
<1> QED
  BY <1>2, <1>3

LEMMA SyncReturned ==
  ASSUME CntTypes, SyncInv, NEW u \in User, SyncReturn(u)
  PROVE  SyncInv'
<1>0. /\ u \in Proc /\ proc \in [Proc -> Local] /\ \A v \in User : v \in Proc
      /\ "idle" \in Pc /\ "synced" \in Pc /\ counter_sync_req \in BOOLEAN
  BY Parties DEF CntTypes, Pc
<1>1. /\ proc[u].pc = "sleep" /\ UNCHANGED <<request, seen, sync_gnt>>
      /\ \/ To(u, "idle")
         \/ ~counter_sync_req /\ To(u, "synced")
  BY <1>0 DEF SyncReturn, At, history
<1>2. Moves(u) /\ (proc'[u].pc = "idle" \/ (~counter_sync_req /\ proc'[u].pc = "synced"))
  <2>1. CASE To(u, "idle")
    BY <1>0, <2>1, ToMoves
  <2>2. CASE ~counter_sync_req /\ To(u, "synced")
    BY <1>0, <2>2, ToMoves
  <2> QED
    BY <1>1, <2>1, <2>2
<1> SUFFICES ASSUME NEW v \in User, ~request[v].shared PROVE SyncOf(v)'
  BY <1>1 DEF SyncInv, SyncOf
<1>3. CASE v = u
  <2>1. Served(u)
    BY <1>1, <1>3 DEF SyncInv, SyncOf
  <2> QED
    BY <1>1, <1>2, <1>3, <2>1 DEF SyncOf, Served
<1>4. CASE v # u
  <2>1. proc'[v] = proc[v] /\ proc[v].pc \notin {"give", "sleep"}
    BY <1>0, <1>1, <1>2, <1>4 DEF Moves, SyncInv, SyncOf
  <2> QED
    BY <1>1, <2>1 DEF SyncInv, SyncOf
<1> QED
  BY <1>3, <1>4

LEMMA SyncNext ==
  ASSUME CntTypes, SyncInv, PidInv, [CountersNext]_(counterVars)
  PROVE  SyncInv'
<1> USE DEF history, control
<1>0. /\ "thread" \in Proc /\ "control" \in Proc /\ proc \in [Proc -> Local]
      /\ \A u \in User : u \in Proc /\ u # "thread" /\ u # "control"
      /\ seen \in Nat /\ total \in Nat /\ seen <= total
      /\ \A p \in Proc : proc[p].at \in Nat
  BY Parties DEF CntTypes, Local
<1>m. ASSUME NEW p \in Proc, p # "thread", Moves(p), seen' >= seen, seen' \in Nat,
             UNCHANGED <<request, counter_sync_req, sync_gnt>>,
             proc'[p].pc \notin {"give", "sleep", "synced"}
      PROVE  SyncInv'
  <2>1. \A v \in User : proc'[v] = proc[v] \/ proc'[v].pc \notin {"give", "sleep", "synced"}
    BY <1>0, <1>m DEF Moves
  <2>2. proc'["thread"] = proc["thread"]
    BY <1>0, <1>m DEF Moves
  <2>3. \A v \in User : NoSync(v)
    BY <2>1 DEF NoSync
  <2> QED
    BY <1>m, <2>2, <2>3, SyncKeepThread
<1>1. CASE Count \/ UNCHANGED counterVars
  BY <1>0, <1>1, SyncKeepThread DEF Count, counterVars, NoSync
<1>2. CASE CounterThread
  BY <1>2, SyncThread
<1>3. CASE \/ StopGive \/ StopCheck \/ Fresh \/ StorePid
           \/ CounterStart \/ CounterStop
  <2>1. /\ Still("control") /\ UNCHANGED <<request, counter_sync_req, sync_gnt, seen>>
    BY <1>3, ControlStill
       DEF StopGive, StopCheck, Fresh, StorePid, CounterStart, CounterStop
  <2>2. \A v \in User : proc'[v] = proc[v]
    BY <1>0, <2>1 DEF Still, Moves
  <2>3. proc'["thread"] = proc["thread"]
    BY <1>0, <2>1 DEF Still, Moves
  <2> QED
    BY <1>0, <2>1, <2>2, <2>3, SyncKeepThread DEF NoSync
<1>4. CASE Launch
  <2>1. UNCHANGED <<request, counter_sync_req, seen>> /\ ~sync_gnt'
    BY <1>4 DEF Launch
  <2>2. \A v \in User : proc'[v] = proc[v]
    BY <1>0, <1>4, LaunchMoves
  <2>3. \A u \in User : Served(u) /\ Covered(u) => Served(u)' /\ Covered(u)'
    BY <2>1 DEF Served, Covered
  <2> QED
    BY <1>0, <2>1, <2>2, <2>3, SyncKeep DEF NoSync
<1>5. ASSUME NEW p \in Proc, p # "thread", Collect(p) PROVE SyncInv'
  <2>1. /\ Moves(p) /\ proc'[p].pc \notin {"give", "sleep", "synced"}
        /\ UNCHANGED <<request, counter_sync_req, sync_gnt>>
    BY <1>5, CollectMoves
       DEF Collect, CollectPrev, CollectRead, CollectAdd, CollectStore, CollectHw
  <2>2. seen' = seen \/ seen' = Max({seen, proc[p].at})
    BY <1>5 DEF Collect, CollectPrev, CollectRead, CollectAdd, CollectStore, CollectHw
  <2>3. seen' \in Nat /\ seen' >= seen
    BY <1>0, <2>2, MaxFacts
  <2> QED
    BY <1>5, <1>m, <2>1, <2>3
<1>6. ASSUME NEW u \in User, Get(u) \/ SyncGive(u) \/ Synced(u)
      PROVE  SyncInv'
  <2>1. Moves(u) /\ UNCHANGED <<request, counter_sync_req, sync_gnt, seen>>
    BY <1>6, UserStill DEF Still, Get, SyncGive, Synced
  <2>2. /\ proc'[u].pc \in {"give", "sleep"} => proc[u].pc \in {"give", "sleep"}
        /\ proc'[u].pc = "synced" => proc[u].pc = "synced"
    <3>1. CASE Get(u)
      <4>1. To(u, "prev") /\ "prev" \in Pc
        BY <3>1 DEF Get, Pc
      <4>2. proc'[u].pc = "prev"
        BY <1>0, <4>1, ToMoves
      <4> QED
        BY <4>2
    <3>2. CASE SyncGive(u)
      <4>1. /\ (To(u, "fault") \/ To(u, "sleep")) /\ "fault" \in Pc /\ "sleep" \in Pc
            /\ proc[u].pc = "give"
        BY <3>2 DEF SyncGive, Pc, At
      <4>2. proc'[u].pc \in {"fault", "sleep"}
        BY <1>0, <4>1, ToMoves
      <4> QED
        BY <4>1, <4>2
    <3>3. CASE Synced(u)
      <4>1. proc'[u].pc = "idle"
        BY <1>0, <3>3, EndMoves DEF Synced
      <4> QED
        BY <4>1
    <3> QED
      BY <1>6, <3>1, <3>2, <3>3
  <2>3. \A v \in User : NoSync(v)
    BY <1>0, <2>1, <2>2 DEF Moves, NoSync
  <2>4. proc'["thread"] = proc["thread"]
    BY <1>0, <2>1 DEF Moves
  <2> QED
    BY <1>0, <2>1, <2>3, <2>4, SyncKeepThread
<1>7. ASSUME NEW u \in User, Set(u) PROVE SyncInv'
  <2>1. /\ To(u, "write") /\ "write" \in Pc
        /\ UNCHANGED <<request, counter_sync_req, sync_gnt, seen>>
    BY <1>7 DEF Set, Pc
  <2>2. Moves(u) /\ proc'[u].pc = "write"
    BY <1>0, <2>1, ToMoves
  <2> QED
    BY <1>0, <1>m, <2>1, <2>2
<1>8. ASSUME NEW u \in User, SetRegister(u) PROVE SyncInv'
  <2>1. /\ End(u) /\ seen' = total /\ UNCHANGED <<request, counter_sync_req, sync_gnt>>
    BY <1>8 DEF SetRegister
  <2>2. Moves(u) /\ proc'[u].pc = "idle"
    BY <1>0, <2>1, EndMoves
  <2> QED
    BY <1>0, <1>m, <2>1, <2>2
<1> QED
  BY <1>0, <1>1, <1>2, <1>3, <1>4, <1>5, <1>6, <1>7, <1>8, SyncCalled, SyncReturned
     DEF CountersNext, ControlStep, UserStep

LEMMA CntInvariant ==
  CountersSpec => [](CntTypes /\ PidInv /\ SyncInv /\ AccountInv)
<1> DEFINE Inv == CntTypes /\ PidInv /\ SyncInv /\ AccountInv
<1>1. CountersInit => Inv
  BY CntInit
<1>2. Inv /\ [CountersNext]_(counterVars) => Inv'
  BY CntTypesNext, PidNext, SyncNext, AccountNext
<1> QED
  BY <1>1, <1>2, PTL DEF CountersSpec

(* What CntTypes leaves out: the semaphore's value and the last call of control.  *)
ControllerTypes == counter_notify \in {"NULL", "0", "1"} /\ started \in BOOLEAN

LEMMA ControllerTypesNext ==
  ASSUME ControllerTypes, [CountersNext]_(counterVars) PROVE ControllerTypes'
<1> USE DEF ControllerTypes
<1>1. CASE StopGive \/ Fresh \/ Launch \/ StorePid \/ CounterStart \/ CounterStop
  BY <1>1 DEF StopGive, Fresh, Launch, StorePid, CounterStart, CounterStop
<1>2. ASSUME NEW u \in User, SyncGive(u) PROVE ControllerTypes'
  BY <1>2 DEF SyncGive
<1>3. CASE Boot \/ Take \/ ThreadExit
  BY <1>3 DEF Boot, Take, ThreadExit
<1>4. ASSUME NEW p \in Proc, Collect(p) PROVE UNCHANGED <<counter_notify, started>>
  BY <1>4 DEF Collect, CollectPrev, CollectRead, CollectAdd, CollectStore, CollectHw, control
<1>5. CASE Count \/ Loop \/ Awake \/ Grant \/ StopCheck
  BY <1>5 DEF Count, Loop, Awake, Grant, StopCheck, control
<1>6. ASSUME NEW u \in User, SetRegister(u) \/ SyncReturn(u) \/ Synced(u) \/ Get(u) \/ Set(u) \/ Sync(u)
      PROVE  ControllerTypes'
  BY <1>6 DEF SetRegister, SyncReturn, Synced, Get, Set, Sync, control
<1>7. CASE UNCHANGED counterVars
  BY <1>7 DEF counterVars, control
<1>8. "control" \in Proc /\ "thread" \in Proc /\ User \subseteq Proc
  BY DEF Proc
<1> QED
  BY <1>1, <1>2, <1>3, <1>4, <1>5, <1>6, <1>7, <1>8
     DEF CountersNext, CounterThread, ControlStep, UserStep

\* The register, the software counter and the threads' locals keep their types.
THEOREM CounterTypeOK == CountersSpec => []CountersTypeOK
<1>1. CountersInit => ControllerTypes
  BY DEF CountersInit, ControllerTypes
<1>2. CntTypes /\ ControllerTypes => CountersTypeOK
  BY DEF CntTypes, ControllerTypes, CountersTypeOK, Local
<1> QED
  BY <1>1, <1>2, CntInvariant, ControllerTypesNext, PTL DEF CountersSpec

\* As long as no two parties were in the middle of an update at once, the software counter
\* and what the register has counted since make up the hardware's counts: none is lost at a
\* wrap, by a clear or by a start (soc_robo_counter_collect, soc_robo_counter_set).
THEOREM CounterAccounted == CountersSpec => []Accounted
<1>1. AccountInv => Accounted
  <2> SUFFICES ASSUME AccountInv, ~overlap, Updating = {}
               PROVE  counter_sw_val + Difference(reg, counter_hw_val) = expected
    BY DEF Accounted
  <2>1. \A p \in Proc : ~Busy(p)
    BY DEF Updating, Busy
  <2> QED
    BY <2>1 DEF AccountInv, Balanced
<1> QED
  BY <1>1, CntInvariant, PTL

\* A start launches no thread beside one that has not ended (soc_robo_counter_start).
THEOREM CounterOneThread == CountersSpec => []OneCounterThread
<1>1. PidInv => OneCounterThread
  BY DEF PidInv, OneCounterThread, At
<1> QED
  BY <1>1, CntInvariant, PTL

\* A sync that succeeds with no other one beside it, and no grant left from an earlier one,
\* reflects everything counted before the call (soc_robo_counter_sync).
THEOREM CounterSyncAlone == CountersSpec => []SyncAlone
<1>1. SyncInv => SyncAlone
  BY DEF SyncInv, SyncOf, SyncAlone, SyncReflects, At
<1> QED
  BY <1>1, CntInvariant, PTL
==============================================================================
