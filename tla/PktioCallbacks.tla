---------------------------- MODULE PktioCallbacks ----------------------------
(***************************************************************************)
(* Packet I/O: its start and stop, and the receive callbacks                *)
(* (src/drivers/fsal/pktio.c, rx.c).                                        *)
(*                                                                         *)
(* Clients register a handler for a set of filters; the driver keeps one    *)
(* doubly linked list of handlers per filter.  The RX task walks the lists  *)
(* of a packet's filters until a handler takes the packet.  The lists are   *)
(* protected by a RECURSIVE mutex, which the task holds while it walks one:  *)
(* a client in another thread waits, but a handler may itself register and   *)
(* unregister while the walk is at its list entry.                           *)
(* cbx_pktio_init starts the RX task, cbx_pktio_detach stops it, waits for it  *)
(* and destroys the mutex and the lists.                                     *)
(***************************************************************************)
EXTENDS Naturals, Sequences, FiniteSets

CONSTANTS
    Client,   \* the callers of cbx_pktio_register, with one handle each
    Node,     \* the list entries sal_alloc can return
    Priority, \* the priorities in use
    FlagSets, \* the values of cb_info.flags in use
    Packet,   \* the kinds of packets received
    NULL

\* The lists in the order of their internal ids, which is the order in which
\* cbxi_callback_to_idx looks for the flags.
Filters == <<"ECP", "LLC", "LLDP", "UDP", "TCP", "IP", "ALL", "TRAP">>
Filter  == {Filters[i] : i \in DOMAIN Filters}
Kind    == {"ecp", "lldp", "udp", "tcp", "ip", "other"}

ASSUME PriorityAssumption == Priority \subseteq Nat
ASSUME NodeAssumption     == IsFiniteSet(Node) /\ NULL \notin Node
ASSUME FlagAssumption     == FlagSets \subseteq (SUBSET Filter) \ {{}}
ASSUME PacketAssumption   ==
    Packet \subseteq [trap : BOOLEAN, llc : BOOLEAN, kind : Kind]

VARIABLES
    cb,             \* the entries' memory: list, client, priority and links
    allocated,      \* the entries that are not free
    callback_handlers,  \* the heads of the lists
    num_callbacks,
    handle,         \* the handle each client holds
    reg,            \* the calls of cbx_pktio_register in progress
    rx,             \* the walk of the RX task; its pc is "none" when there is no task
    init,           \* cbx_pktio_cb.init
    callback_mutex, \* the mutex exists
    rx_task_status,
    detaching       \* cbx_pktio_detach waits for the RX task to end

lists == <<cb, allocated, callback_handlers, num_callbacks, handle, reg>>
life  == <<init, callback_mutex, rx_task_status, detaching>>
vars  == <<lists, rx, life>>

Free == [idx |-> "ALL", priority |-> 0, next |-> NULL, prev |-> NULL]
Idle == [flags |-> {}, priority |-> 0, by |-> "app"]

\* rx.asked and rx.stayed are history: the entries called in the present walk,
\* and those that have been in its list from its start.
NoWalk == [lists |-> <<>>, cbptr |-> NULL, gone |-> FALSE,
           asked |-> {}, stayed |-> {}, pc |-> "idle"]
NoTask == [NoWalk EXCEPT !.pc = "none"]

Init ==
    /\ cb = [n \in Node |-> Free]
    /\ allocated = {}
    /\ callback_handlers = [f \in Filter |-> NULL]
    /\ num_callbacks = 0
    /\ handle = [c \in Client |-> NULL]
    /\ reg = [c \in Client |-> Idle]
    /\ rx = NoTask
    /\ init = FALSE /\ callback_mutex = FALSE
    /\ rx_task_status = "DONE" /\ detaching = FALSE

\* The RX task is in a handler; the mutex is its own until the walk ends.
InHandler == rx.pc = "handler"

\* Who can be in the code of the registration functions now.
Context == IF InHandler THEN "handler" ELSE "app"

-----------------------------------------------------------------------------
(* Start and stop.  Nobody registers while cbx_pktio_detach waits, nor does it *)
(* begin while somebody registers: the code does not see to that (see README). *)

\* cbx_pktio_init: the mutex, then the RX path and its task, then the tables.  A
\* failure on the way leaves what is there.  It is not called over a running task,
\* which it would not notice.
PktioInit ==
    /\ ~init /\ ~detaching /\ rx.pc = "none"
    /\ callback_mutex' = TRUE
    /\ \E end \in {"rx_failed", "table_failed", "done"} :
          /\ rx' = IF end = "rx_failed" THEN rx ELSE [NoWalk EXCEPT !.pc = "created"]
          /\ init' = (end = "done")
    /\ UNCHANGED <<lists, rx_task_status, detaching>>

\* The RX task's thread begins to run.
TaskStart ==
    /\ rx.pc = "created"
    /\ rx' = NoWalk /\ rx_task_status' = "RUNNING"
    /\ UNCHANGED <<lists, init, callback_mutex, detaching>>

\* cbx_pktio_detach up to the loop in cbxi_rx_uninit, from a thread of the application:
\* refused while handlers are registered.  The task has run by then (its priority is
\* above the application's), or it would overwrite the status.
Detach ==
    /\ ~detaching /\ rx.pc \notin {"none", "created"}
    /\ \A c \in Client : reg[c].flags = {}
    /\ num_callbacks = 0
    /\ rx_task_status' = "STOP" /\ detaching' = TRUE
    /\ UNCHANGED <<lists, rx, init, callback_mutex>>

\* Between two packets the task finds that it is to stop.
TaskStop ==
    /\ rx.pc = "idle" /\ rx_task_status = "STOP"
    /\ rx' = NoTask /\ rx_task_status' = "DONE"
    /\ UNCHANGED <<lists, init, callback_mutex, detaching>>

\* The mutex is destroyed and cbx_pktio_cb is cleared.
Cleared ==
    /\ detaching' = FALSE /\ callback_mutex' = FALSE /\ init' = FALSE
    /\ callback_handlers' = [f \in Filter |-> NULL] /\ num_callbacks' = 0
    /\ UNCHANGED <<cb, allocated, handle, reg, rx, rx_task_status>>

\* Mutation: the task is not waited for.
DetachEnds_NoWait == detaching /\ Cleared

\* The rest of cbx_pktio_detach.
DetachEnds == detaching /\ rx_task_status = "DONE" /\ Cleared

-----------------------------------------------------------------------------
(* Registering.                                                             *)

\* cbx_pktio_register is called: its loop over the flags begins.
Register(c) ==
    /\ init /\ ~detaching
    /\ reg[c].flags = {}
    /\ handle[c] = NULL
    /\ \E flags \in FlagSets, p \in Priority :
          reg' = [reg EXCEPT ![c] = [flags |-> flags, priority |-> p, by |-> Context]]
    /\ UNCHANGED <<cb, allocated, callback_handlers, num_callbacks, handle, rx, life>>

\* The first filter of the flags.
CallbackToIdx(flags) ==
    Filters[CHOOSE i \in DOMAIN Filters :
                /\ Filters[i] \in flags
                /\ \A j \in 1 .. i - 1 : Filters[j] \notin flags]

\* Where the search of cbxi_add_callback_handler stops, from entry n.
Seek(p) ==
    LET f[n \in Node] == IF cb[n].priority <= p /\ cb[n].next # NULL
                         THEN f[cb[n].next] ELSE n
    IN  f

\* Mutation: the entry behind the new one keeps its old predecessor.
LinkAfter_NoBackLink(m, n, p, f) ==
    cb' = [cb EXCEPT
        ![n] = [idx |-> f, priority |-> p, next |-> cb[m].next, prev |-> m],
        ![m].next = n]

\* Mutation: the entries behind entry m are cut off.
LinkAfter_CutTail(m, n, p, f) ==
    cb' = [cb EXCEPT
        ![n] = [idx |-> f, priority |-> p, next |-> NULL, prev |-> m],
        ![m].next = n]

\* Entry n goes in behind entry m.
LinkAfter(m, n, p, f) ==
    cb' = [x \in Node |->
        IF x = n THEN [idx |-> f, priority |-> p, next |-> cb[m].next, prev |-> m]
        ELSE IF x = m THEN [cb[x] EXCEPT !.next = n]
        ELSE IF x = cb[m].next THEN [cb[x] EXCEPT !.prev = n]
        ELSE cb[x]]

\* Entry n goes in before entry m.
LinkBefore(m, n, p, f) ==
    cb' = [x \in Node |->
        IF x = n THEN [idx |-> f, priority |-> p, next |-> m, prev |-> cb[m].prev]
        ELSE IF x = m THEN [cb[x] EXCEPT !.prev = n]
        ELSE IF x = cb[m].prev THEN [cb[x] EXCEPT !.next = n]
        ELSE cb[x]]

\* cbxi_add_callback_handler's placing of entry n in list f.
Insert(n, p, f) ==
    LET h == callback_handlers[f]
        m == Seek(p)[h]
    IN  IF h = NULL
        THEN /\ cb' = [cb EXCEPT ![n] = [idx |-> f, priority |-> p, next |-> NULL, prev |-> NULL]]
             /\ callback_handlers' = [callback_handlers EXCEPT ![f] = n]
        ELSE IF cb[m].priority < p
        THEN /\ LinkBefore(m, n, p, f)
             /\ callback_handlers' =
                  [callback_handlers EXCEPT ![f] = IF h = m THEN n ELSE h]
        ELSE /\ LinkAfter(m, n, p, f)
             /\ UNCHANGED callback_handlers

\* One turn of the loop over the flags, under the mutex.  The handle is the last
\* turn's, and so is the result.
AddCallbackHandler(c) ==
    /\ reg[c].flags # {} /\ reg[c].by = Context
    /\ LET f == CallbackToIdx(reg[c].flags) IN
       /\ reg' = [reg EXCEPT ![c] = IF @.flags = {f} THEN Idle
                                    ELSE [@ EXCEPT !.flags = reg[c].flags \ {f}]]
       /\ \/ \E n \in Node \ allocated :
               /\ allocated' = allocated \cup {n}
               /\ Insert(n, reg[c].priority, f)
               /\ num_callbacks' = num_callbacks + 1
               /\ handle' = [handle EXCEPT ![c] = n]
          \/ /\ allocated = Node
             /\ handle' = [handle EXCEPT ![c] = NULL]
             /\ UNCHANGED <<cb, allocated, callback_handlers, num_callbacks>>
    /\ UNCHANGED <<rx, life>>

-----------------------------------------------------------------------------
(* Unregistering.                                                           *)

\* The links around entry n are closed; its memory is given back.
Unlink(n) ==
    cb' = [x \in Node |->
        IF x = n THEN Free
        ELSE IF x = cb[n].next THEN [cb[x] EXCEPT !.prev = cb[n].prev]
        ELSE IF x = cb[n].prev THEN [cb[x] EXCEPT !.next = cb[n].next]
        ELSE cb[x]]

\* Mutation: the head of the list is not moved to the next entry.
Unregister_KeepHead(c) ==
    LET n == handle[c] IN
    /\ reg[c].flags = {}
    /\ n # NULL
    /\ num_callbacks' = num_callbacks - 1
    /\ Unlink(n)
    /\ allocated' = allocated \ {n}
    /\ handle' = [handle EXCEPT ![c] = NULL]
    /\ rx' = [rx EXCEPT !.gone = @ \/ (InHandler /\ rx.cbptr = n),
                        !.asked = @ \ {n}, !.stayed = @ \ {n}]
    /\ UNCHANGED <<callback_handlers, reg, life>>

\* cbx_pktio_unregister with the client's handle, from a thread of the client
\* when the mutex is free, or from the handler that is being called.
Unregister(c) ==
    LET n == handle[c] IN
    /\ reg[c].flags = {}
    /\ n # NULL
    /\ num_callbacks' = num_callbacks - 1
    /\ Unlink(n)
    /\ callback_handlers' = [callback_handlers EXCEPT
            ![cb[n].idx] = IF @ = n THEN cb[n].next ELSE @]
    /\ allocated' = allocated \ {n}
    /\ handle' = [handle EXCEPT ![c] = NULL]
    /\ rx' = [rx EXCEPT !.gone = @ \/ (InHandler /\ rx.cbptr = n),
                        !.asked = @ \ {n}, !.stayed = @ \ {n}]
    /\ UNCHANGED <<reg, life>>

-----------------------------------------------------------------------------
(* The RX task.                                                             *)

\* The lists a packet is presented to, in order.  A trapped packet is not looked
\* at any further; ECP and LLDP packets are not looked at as IP.
Lists(pkt) ==
    IF pkt.trap THEN <<"TRAP", "ALL">>
    ELSE (IF pkt.llc THEN <<"LLC">> ELSE <<>>) \o
         CASE pkt.kind = "ecp"   -> <<"ECP", "ALL">>
           [] pkt.kind = "lldp"  -> <<"LLDP", "ALL">>
           [] pkt.kind = "udp"   -> <<"UDP", "IP", "ALL">>
           [] pkt.kind = "tcp"   -> <<"TCP", "IP", "ALL">>
           [] pkt.kind = "ip"    -> <<"IP", "ALL">>
           [] pkt.kind = "other" -> <<"ALL">>

\* The task is at entry n: it calls its handler, or leaves the list at its end.
At(n, walk) ==
    [walk EXCEPT !.cbptr = n, !.gone = FALSE,
                 !.asked = IF n = NULL THEN @ ELSE @ \cup {n},
                 !.pc = IF n = NULL THEN "end" ELSE "handler"]

Receive ==
    /\ rx.pc = "idle" /\ rx_task_status # "STOP"
    /\ \E pkt \in Packet :
          rx' = [NoWalk EXCEPT !.lists = Lists(pkt), !.pc = "list"]
    /\ UNCHANGED <<lists, life>>

\* cbxi_callback takes the mutex and begins to walk the next list.
WalkList ==
    /\ rx.pc = "list" /\ rx.lists # <<>>
    /\ LET f == Head(rx.lists) IN
       rx' = At(callback_handlers[f],
                [rx EXCEPT !.asked = {},
                           !.stayed = {n \in allocated : cb[n].idx = f}])
    /\ UNCHANGED <<lists, life>>

\* The handler returns; unless it has taken the packet, the walk goes to the next
\* entry of the list as it is now.  A handler that has unregistered itself has
\* freed the entry the walk is at, and must take the packet (see README).
HandlerReturns ==
    /\ InHandler
    /\ \A c \in Client : reg[c].flags # {} => reg[c].by = "app"
    /\ \/ rx' = NoWalk
       \/ /\ ~rx.gone
          /\ rx' = At(cb[rx.cbptr].next, rx)
    /\ UNCHANGED <<lists, life>>

\* All handlers of the list have left the packet, and the mutex is given: the
\* packet goes to the next list, or is freed after the last.
WalkEnds ==
    /\ rx.pc = "end"
    /\ rx' = IF Len(rx.lists) = 1 THEN NoWalk
             ELSE [NoWalk EXCEPT !.lists = Tail(rx.lists), !.pc = "list"]
    /\ UNCHANGED <<lists, life>>

Next ==
    \/ \E c \in Client : Register(c) \/ AddCallbackHandler(c) \/ Unregister(c)
    \/ PktioInit \/ TaskStart \/ Detach \/ TaskStop \/ DetachEnds
    \/ Receive \/ WalkList \/ HandlerReturns \/ WalkEnds

Spec == Init /\ [][Next]_vars

-----------------------------------------------------------------------------
(* Properties.                                                              *)

\* Every entry, head, handle and position is an entry or the null pointer.
TypeOK ==
    /\ cb \in [Node -> [idx : Filter, priority : Nat,
                        next : Node \cup {NULL}, prev : Node \cup {NULL}]]
    /\ allocated \subseteq Node
    /\ callback_handlers \in [Filter -> Node \cup {NULL}]
    /\ num_callbacks \in Nat
    /\ handle \in [Client -> Node \cup {NULL}]
    /\ \A c \in Client : reg[c].flags \subseteq Filter
    /\ rx.cbptr \in Node \cup {NULL}
    /\ rx_task_status \in {"STOP", "RUNNING", "DONE"}
    /\ {init, callback_mutex, detaching} \subseteq BOOLEAN

\* The entries reached from the head of list f.
Reached(f) ==
    LET within[k \in 0 .. Cardinality(Node)] ==
            IF k = 0 THEN {callback_handlers[f]} \ {NULL}
            ELSE within[k - 1] \cup ({cb[n].next : n \in within[k - 1]} \ {NULL})
    IN  within[Cardinality(Node)]

\* The lists hold exactly the allocated entries, each in the list of its filter,
\* and each is between its neighbours in both directions: the heads, links and
\* the count that cbx_pktio_detach relies on survive any order of the calls.
ListsWellFormed ==
    /\ num_callbacks = Cardinality(allocated)
    /\ \A f \in Filter : Reached(f) = {n \in allocated : cb[n].idx = f}
    /\ \A n \in allocated :
          /\ cb[n].prev = NULL <=> callback_handlers[cb[n].idx] = n
          /\ cb[n].next # NULL => cb[cb[n].next].prev = n
          /\ cb[n].prev # NULL => cb[cb[n].prev].next = n

\* The walk is never at freed memory, whatever the handlers unregister, but for
\* the entry of the very handler that is being called.
NoUseAfterFree == InHandler /\ ~rx.gone => rx.cbptr \in allocated

\* A packet that is left by all handlers of a list has been presented to every
\* handler that was registered there all the time, whatever came and went.
EveryoneAsked == rx.pc = "end" => rx.stayed \subseteq rx.asked

\* The mutex exists whenever somebody may take or give it: the RX task while it has a
\* packet, whoever registers, whoever has a handle to give back.  It is destroyed
\* behind the task, and not while a handler is registered.
MutexExists ==
    (\/ rx.pc \in {"list", "handler", "end"}
     \/ \E c \in Client : reg[c].flags # {} \/ handle[c] # NULL) => callback_mutex

\* The wait of cbx_pktio_detach can end: the task has been told to stop and has not
\* taken that back, or has ended; and the state it leaves has no task.
DetachCanEnd ==
    /\ detaching => \/ rx_task_status = "STOP" /\ rx.pc # "none"
                    \/ rx_task_status = "DONE" /\ rx.pc = "none"
    /\ ~callback_mutex => rx.pc = "none" /\ allocated = {}

\* A detach ends, and takes nothing from under anybody.
DetachSafe == MutexExists /\ DetachCanEnd
===============================================================================
