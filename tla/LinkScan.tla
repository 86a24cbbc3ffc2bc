------------------------------- MODULE LinkScan -------------------------------
(***************************************************************************)
(* What the link scan thread does (src/drivers/fsal/link.c): it reads the  *)
(* link status of each port in turn, and on a change updates its bitmap,    *)
(* sets the spanning tree state of the port or of its link aggregation      *)
(* group, and calls the registered handlers.  Links change at any time, and  *)
(* handlers are registered and unregistered at any time, by any thread: the  *)
(* walk of their list takes no lock, so that it may come to freed memory.   *)
(***************************************************************************)
EXTENDS Naturals

CONSTANTS
    NPorts,      \* the ports are scanned in the order 1 .. NPorts
    LagMember,   \* the ports in the link aggregation group
    LAG,         \* the group
    Handler,     \* the callbacks in use
    Entry,       \* the memory the entries of the list are allocated from
    NONE         \* the null pointer

Port == 1 .. NPorts

ASSUME PortAssumption ==
    NPorts \in Nat \ {0} /\ LagMember \subseteq Port /\ LAG \notin Port
ASSUME HandlerAssumption == NONE \notin Handler /\ NONE \notin Entry

VARIABLES
    phys,         \* the status a read of the PHY returns
    lc_pbm_link,  \* the status of the last scan
    stp,          \* the spanning tree state of each port or group
    lc_handler,   \* the head of the list of handlers
    heap,         \* lh_f and lh_next of each entry; freed memory keeps them for now
    live,         \* the entries that are allocated
    scan,         \* the thread: where, port, status read, the entry it goes on with
    told,         \* history: the status each handler knows of each port
    unsure,       \* history: the ports whose report a failure or a restart has lost
    unset         \* history: the ports whose state no scan has set, since the start
                  \* or a failure

list     == <<lc_handler, heap, live>>
scanVars == <<phys, lc_pbm_link, stp, list, scan, told, unsure, unset>>

\* The spanning tree state of a member is its group's.
Target(p) == IF p \in LagMember THEN LAG ELSE p
Targets   == {Target(p) : p \in Port}

ScanAt(pc, p) == [pc |-> pc, port |-> p, new |-> FALSE, next |-> NONE]

\* The start finds all links down in the bitmap.  The spanning tree states are those
\* of the links at the time they were initialized, not of now.
ScanInit ==
    /\ phys \in [Port -> BOOLEAN]
    /\ lc_pbm_link = [p \in Port |-> FALSE]
    /\ stp \in [Targets -> {"Forward", "Discard"}]
    /\ lc_handler = NONE
    /\ heap = [e \in Entry |-> [lh_f |-> NONE, lh_next |-> NONE]]
    /\ live = {}
    /\ scan = ScanAt("sleep", 1)
    /\ told = [h \in Handler |-> [p \in Port |-> FALSE]]
    /\ unsure = {} /\ unset = Port

\* A link comes up or goes down.
LinkChange(p) ==
    /\ phys' = [phys EXCEPT ![p] = ~@]
    /\ UNCHANGED <<lc_pbm_link, stp, list, scan, told, unsure, unset>>

-----------------------------------------------------------------------------
(* The list of handlers.                                                    *)

\* The entry of a registered handler.
EntryOf(h) == {e \in live : heap[e].lh_f = h}

\* cbx_link_scan_register: nothing to do for a handler that is in the list.  A
\* new one goes in front, and knows the status of the bitmap.
Register(h) ==
    /\ EntryOf(h) = {}
    /\ \E e \in Entry \ live :
          /\ heap' = [heap EXCEPT ![e] = [lh_f |-> h, lh_next |-> lc_handler]]
          /\ lc_handler' = e
          /\ live' = live \cup {e}
    /\ told' = [told EXCEPT ![h] = lc_pbm_link]
    /\ UNCHANGED <<phys, lc_pbm_link, stp, scan, unsure, unset>>

\* Mutation: the head is moved also when the entry is not the first.
Unlink_MovesHead(e) ==
    /\ lc_handler' = heap[e].lh_next
    /\ UNCHANGED heap

\* The head, or the entry in front of e, is linked to the one behind e.
Unlink(e) ==
    /\ lc_handler' = IF lc_handler = e THEN heap[e].lh_next ELSE lc_handler
    /\ heap' = [x \in Entry |->
                  IF x \in live /\ heap[x].lh_next = e
                  THEN [heap[x] EXCEPT !.lh_next = heap[e].lh_next] ELSE heap[x]]

\* cbx_link_scan_unregister, by the handler that is being called or by any thread:
\* the scan holds no lock that would keep others out.
Unregister(h) ==
    /\ \E e \in EntryOf(h) : Unlink(e) /\ live' = live \ {e}
    /\ UNCHANGED <<phys, lc_pbm_link, stp, scan, told, unsure, unset>>

-----------------------------------------------------------------------------
(* The scan of one port, cbxi_robo2_link_scan_update_port.                  *)

NextPort(p) == IF p = NPorts THEN ScanAt("sleep", 1) ELSE ScanAt("read", p + 1)

\* The interval is over, or the semaphore has been given.
WakeUp ==
    /\ scan.pc = "sleep"
    /\ scan' = ScanAt("read", 1)
    /\ UNCHANGED <<phys, lc_pbm_link, stp, list, told, unsure, unset>>

\* The status is read; without a change the next port is up.
ReadLink ==
    /\ scan.pc = "read"
    /\ scan' = IF phys[scan.port] # lc_pbm_link[scan.port]
               THEN [scan EXCEPT !.pc = "update", !.new = phys[scan.port]]
               ELSE NextPort(scan.port)
    /\ UNCHANGED <<phys, lc_pbm_link, stp, list, told, unsure, unset>>

\* The lookup, the read, the matching of the speeds or the port information fails.
ReadFails ==
    /\ scan.pc = "read"
    /\ scan' = NextPort(scan.port)
    /\ UNCHANGED <<phys, lc_pbm_link, stp, list, told, unsure, unset>>

\* The handler of entry e is called with the status of port p, or none is left to
\* call.  The next entry is fetched before the call.
CallHandler(e, p) ==
    IF e = NONE
    THEN /\ scan' = NextPort(p)
         /\ unsure' = unsure \ {p}
         /\ UNCHANGED told
    ELSE /\ scan' = [scan EXCEPT !.pc = "notify", !.next = heap[e].lh_next]
         /\ told' = [told EXCEPT ![heap[e].lh_f][p] = scan.new]
         /\ UNCHANGED unsure

\* Mutation: the bitmap is not updated when the link is down.
UpdateBitmap_UpOnly(p) ==
    lc_pbm_link' = [lc_pbm_link EXCEPT ![p] = @ \/ scan.new]

UpdateBitmap(p) == lc_pbm_link' = [lc_pbm_link EXCEPT ![p] = scan.new]

\* Mutation: a link that goes down leaves the state alone.
StpState_KeepForward(p) ==
    IF scan.new THEN "Forward" ELSE stp[Target(p)]

\* The state the change asks for: a group keeps its own as long as the PHY of any
\* member has a link.
StpState(p) ==
    IF scan.new THEN "Forward"
    ELSE IF p \in LagMember /\ \E m \in LagMember : phys[m] THEN stp[LAG]
    ELSE "Discard"

\* The bitmap is updated first, then the spanning tree state, and the handlers are
\* called from the head of the list.
UpdatePort ==
    LET p == scan.port IN
    /\ scan.pc = "update"
    /\ UpdateBitmap(p)
    /\ stp' = [stp EXCEPT ![Target(p)] = StpState(p)]
    /\ unset' = unset \ {p}
    /\ CallHandler(lc_handler, p)
    /\ UNCHANGED <<phys, list>>

\* The bitmap is updated, the state cannot be set, and no handler is called.
UpdateFails ==
    LET p == scan.port IN
    /\ scan.pc = "update"
    /\ UpdateBitmap(p)
    /\ scan' = NextPort(p)
    /\ unsure' = unsure \cup {p} /\ unset' = unset \cup {p}
    /\ UNCHANGED <<phys, stp, list, told>>

\* A handler returns; the walk goes on with the entry that was next when it was
\* called.  If that has been freed, its memory may be as it was or another entry ...
HandlerReturns ==
    /\ scan.pc = "notify"
    /\ CallHandler(scan.next, scan.port)
    /\ UNCHANGED <<phys, lc_pbm_link, stp, list, unset>>

\* ... or anything, and the thread calls what is no function.
Crash ==
    /\ scan.pc = "notify" /\ scan.next \notin live \cup {NONE}
    /\ scan' = [scan EXCEPT !.pc = "crashed"]
    /\ UNCHANGED <<phys, lc_pbm_link, stp, list, told, unsure, unset>>

\* The thread has been stopped and a new one starts, with all links down in the
\* bitmap.
Restart ==
    /\ scan.pc = "sleep"
    /\ lc_pbm_link' = [p \in Port |-> FALSE]
    /\ scan' = ScanAt("read", 1)
    /\ unsure' = Port /\ unset' = Port
    /\ UNCHANGED <<phys, stp, list, told>>

ScanThread ==
    WakeUp \/ ReadLink \/ ReadFails \/ UpdatePort \/ UpdateFails \/ HandlerReturns

ScanNext ==
    \/ \E p \in Port : LinkChange(p)
    \/ \E h \in Handler : Register(h) \/ Unregister(h)
    \/ ScanThread \/ Crash \/ Restart

\* The thread keeps scanning; links need not change.
ScanSpec == ScanInit /\ [][ScanNext]_scanVars /\ WF_scanVars(ScanThread)

-----------------------------------------------------------------------------
(* Properties.                                                              *)

\* The bitmaps, the states, the memory and the thread's locals have their types.
ScanTypeOK ==
    /\ phys \in [Port -> BOOLEAN] /\ lc_pbm_link \in [Port -> BOOLEAN]
    /\ stp \in [Targets -> {"Forward", "Discard"}]
    /\ lc_handler \in Entry \cup {NONE}
    /\ heap \in [Entry -> [lh_f : Handler \cup {NONE}, lh_next : Entry \cup {NONE}]]
    /\ live \subseteq Entry
    /\ scan \in [pc : {"sleep", "read", "update", "notify", "crashed"}, port : Port,
                 new : BOOLEAN, next : Entry \cup {NONE}]
    /\ told \in [Handler -> [Port -> BOOLEAN]]
    /\ unsure \subseteq Port /\ unset \subseteq Port

\* The entry the walk goes on with has not been freed.  The code does not keep this:
\* only the handler that is being called may go without harm.
NoFreedHandler == scan.pc = "notify" => scan.next \in live \cup {NONE}

\* Whenever the handlers are not being called, each knows the status of every
\* port, but for those a failure or a restart has left behind: a change of the
\* bitmap is reported to all of them, also by a walk that has been through freed
\* memory and has come to its end.
HandlersKnowLinks ==
    scan.pc \notin {"notify", "crashed"} =>
        \A e \in live : \A p \in Port \ unsure :
            told[heap[e].lh_f][p] = lc_pbm_link[p]

\* A port that is in no group forwards if and only if it has a link, as far as the
\* bitmap knows, once a scan has set its state.
StpMatchesLinks ==
    \A p \in Port \ (unset \cup LagMember) :
        (stp[p] = "Forward") = lc_pbm_link[p]

\* The same from the start, and after a restart.  The code does not keep this: a
\* state set by the initialization stays until the scan sees the link change.
StpMatchesFromStart ==
    \A p \in Port \ LagMember : stp[p] = "Forward" => lc_pbm_link[p] \/ phys[p]

\* The handlers know the status of every port, whatever fails.
ChangesNotLost ==
    scan.pc # "notify" => \A e \in live : told[heap[e].lh_f] = lc_pbm_link

\* Once nothing fails any more and the scan is not restarted, and as long as the walk
\* is never at freed memory ...
Undisturbed ==
    /\ <>[][~ReadFails /\ ~UpdateFails /\ ~Restart]_scanVars
    /\ []NoFreedHandler

\* ... a link status that stays is in the end the one that the bitmap has.
ChangesReported ==
    Undisturbed =>
        \A p \in Port : \A up \in BOOLEAN :
            <>[](phys[p] = up) => <>[](lc_pbm_link[p] = up)
===============================================================================
