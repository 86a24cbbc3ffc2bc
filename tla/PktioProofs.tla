------------------------------ MODULE PktioProofs ------------------------------
(***************************************************************************)
(* For any clients, entries, filters and packets:                           *)
(*                                                                         *)
(*   - a detach of packet I/O ends and takes the mutex and the lists from     *)
(*     under nobody.  It looks only at num_callbacks: the proof is that this   *)
(*     is the number of entries, that every handle is an entry of its own,    *)
(*     and so that a count of 0 means that nobody has anything to give back;  *)
(*   - the lists hold exactly the registered entries, linked both ways;       *)
(*   - the walk of the RX task is never at freed memory, and passes every     *)
(*     entry that is in its list from its start to its end.                   *)
(***************************************************************************)
EXTENDS PktioCallbacks, FiniteSetTheorems, SequenceTheorems, WellFoundedInduction, TLAPS

\* Entries, their number and the handles.
CountInv ==
    /\ allocated \subseteq Node /\ num_callbacks = Cardinality(allocated)
    /\ handle \in [Client -> allocated \cup {NULL}]
    /\ \A c, d \in Client : handle[c] = handle[d] => c = d \/ handle[c] = NULL

\* Nothing is left of a packet I/O without its mutex.
Nothing == /\ allocated = {} /\ \A c \in Client : reg[c].flags = {}
           /\ ~init /\ rx.pc = "none" /\ ~detaching

LifeInv ==
    /\ {init, callback_mutex, detaching} \subseteq BOOLEAN
    /\ callback_mutex \/ Nothing
    /\ detaching => /\ allocated = {} /\ \A c \in Client : reg[c].flags = {}
                    /\ \/ rx_task_status = "STOP" /\ rx.pc \notin {"none", "created"}
                       \/ rx_task_status = "DONE" /\ rx.pc = "none"
    /\ rx = [lists |-> rx.lists, cbptr |-> rx.cbptr, gone |-> rx.gone,
             asked |-> rx.asked, stayed |-> rx.stayed, pc |-> rx.pc]

DetachInv == CountInv /\ LifeInv

LEMMA FiniteEntries == ASSUME CountInv PROVE IsFiniteSet(allocated) /\ num_callbacks \in Nat
BY NodeAssumption, FS_Subset, FS_CardinalityType DEF CountInv

LEMMA DetachInit == Init => DetachInv
<1> SUFFICES ASSUME Init PROVE DetachInv
  OBVIOUS
<1>1. num_callbacks = Cardinality(allocated)
  BY FS_EmptySet DEF Init
<1>2. rx.pc = "none" /\ rx = [lists |-> rx.lists, cbptr |-> rx.cbptr, gone |-> rx.gone,
                              asked |-> rx.asked, stayed |-> rx.stayed, pc |-> rx.pc]
  BY DEF Init, NoTask, NoWalk
<1>3. \A c \in Client : reg[c].flags = {} /\ handle[c] = NULL
  BY DEF Init, Idle
<1> QED BY <1>1, <1>2, <1>3 DEF Init, DetachInv, CountInv, LifeInv, Nothing

\* A step of the walk: it leaves the registrations and the life cycle alone.
LEMMA DetachWalk ==
  ASSUME DetachInv, UNCHANGED <<lists, life>>, rx.pc \notin {"none", "created"},
         rx'.pc \notin {"none", "created"},
         rx' = [lists |-> rx'.lists, cbptr |-> rx'.cbptr, gone |-> rx'.gone,
                asked |-> rx'.asked, stayed |-> rx'.stayed, pc |-> rx'.pc]
  PROVE  DetachInv'
<1>1. CountInv'
  BY DEF DetachInv, CountInv, lists
<1>2. LifeInv'
  BY DEF DetachInv, LifeInv, Nothing, lists, life
<1> QED BY <1>1, <1>2 DEF DetachInv

LEMMA DetachAdd ==
  ASSUME DetachInv, NEW c \in Client, AddCallbackHandler(c)
  PROVE  DetachInv'
<1> DEFINE f == CallbackToIdx(reg[c].flags)
<1>1. reg[c].flags # {} /\ UNCHANGED <<rx, life>>
  BY DEF AddCallbackHandler
<1>2. callback_mutex /\ ~detaching
  BY <1>1 DEF DetachInv, LifeInv, Nothing
<1>3. LifeInv'
  BY <1>1, <1>2 DEF DetachInv, LifeInv, life
<1>4. ASSUME handle' = [handle EXCEPT ![c] = NULL], UNCHANGED <<allocated, num_callbacks>>
      PROVE  CountInv'
  BY <1>4 DEF DetachInv, CountInv
<1>5. ASSUME NEW n \in Node \ allocated, allocated' = allocated \cup {n},
             num_callbacks' = num_callbacks + 1, handle' = [handle EXCEPT ![c] = n]
      PROVE  CountInv'
  <2>1. num_callbacks' = Cardinality(allocated')
    BY <1>5, FiniteEntries, FS_AddElement DEF DetachInv, CountInv
  <2>2. \A d, e \in Client : handle'[d] = handle'[e] => d = e \/ handle'[d] = NULL
    BY <1>5, NodeAssumption DEF DetachInv, CountInv
  <2> QED BY <1>5, <2>1, <2>2 DEF DetachInv, CountInv
<1>6. CountInv'
  BY <1>4, <1>5 DEF AddCallbackHandler, DetachInv, CountInv
<1> QED BY <1>3, <1>6 DEF DetachInv

LEMMA DetachUnregister ==
  ASSUME DetachInv, NEW c \in Client, Unregister(c)
  PROVE  DetachInv'
<1> DEFINE n == handle[c]
<1>1. /\ n # NULL /\ num_callbacks' = num_callbacks - 1 /\ allocated' = allocated \ {n}
      /\ handle' = [handle EXCEPT ![c] = NULL] /\ UNCHANGED <<reg, life>>
      /\ rx' = [rx EXCEPT !.gone = @ \/ (InHandler /\ rx.cbptr = n),
                          !.asked = @ \ {n}, !.stayed = @ \ {n}]
  BY DEF Unregister
<1>2. n \in allocated
  BY <1>1 DEF DetachInv, CountInv
<1>3. CountInv'
  <2>1. num_callbacks' = Cardinality(allocated')
    BY <1>1, <1>2, FiniteEntries, FS_RemoveElement DEF DetachInv, CountInv
  <2>2. \A d \in Client : handle'[d] \in allocated' \cup {NULL}
    BY <1>1, <1>2 DEF DetachInv, CountInv
  <2> QED BY <1>1, <2>1, <2>2 DEF DetachInv, CountInv
<1>4. callback_mutex /\ ~detaching
  BY <1>2 DEF DetachInv, LifeInv, Nothing
<1>5. rx' = [lists |-> rx'.lists, cbptr |-> rx'.cbptr, gone |-> rx'.gone,
             asked |-> rx'.asked, stayed |-> rx'.stayed, pc |-> rx'.pc]
  BY <1>1 DEF DetachInv, LifeInv
<1>6. LifeInv'
  BY <1>1, <1>4, <1>5 DEF DetachInv, LifeInv, life
<1> QED BY <1>3, <1>6 DEF DetachInv

LEMMA DetachNext == ASSUME DetachInv, [Next]_vars PROVE DetachInv'
<1> USE DEF DetachInv
<1>1. ASSUME NEW c \in Client, Register(c) PROVE DetachInv'
  <2>1. /\ init /\ ~detaching
        /\ UNCHANGED <<allocated, num_callbacks, handle, rx, life>>
    BY <1>1 DEF Register
  <2>2. CountInv'
    BY <2>1 DEF CountInv
  <2>3. LifeInv'
    BY <2>1 DEF LifeInv, Nothing, life
  <2> QED BY <2>2, <2>3
<1>2. ASSUME NEW c \in Client, AddCallbackHandler(c) PROVE DetachInv'
  BY <1>2, DetachAdd
<1>3. ASSUME NEW c \in Client, Unregister(c) PROVE DetachInv'
  BY <1>3, DetachUnregister
<1>4. CASE PktioInit
  <2>1. CountInv'
    BY <1>4 DEF PktioInit, CountInv, lists
  <2>2. /\ callback_mutex' = TRUE /\ init' \in BOOLEAN /\ ~detaching /\ detaching' = detaching
        /\ rx' = rx \/ rx' = [NoWalk EXCEPT !.pc = "created"]
    BY <1>4 DEF PktioInit
  <2>3. rx' = [lists |-> rx'.lists, cbptr |-> rx'.cbptr, gone |-> rx'.gone,
               asked |-> rx'.asked, stayed |-> rx'.stayed, pc |-> rx'.pc]
    BY <2>2 DEF NoWalk, LifeInv
  <2>4. LifeInv'
    BY <2>2, <2>3 DEF LifeInv
  <2> QED BY <2>1, <2>4
<1>5. CASE TaskStart
  <2>1. CountInv'
    BY <1>5 DEF TaskStart, CountInv, lists
  <2>2. rx.pc = "created" /\ rx' = NoWalk /\ UNCHANGED <<lists, init, callback_mutex, detaching>>
    BY <1>5 DEF TaskStart
  <2>3. ~detaching /\ callback_mutex
    BY <2>2 DEF LifeInv, Nothing
  <2>4. LifeInv'
    BY <2>2, <2>3 DEF NoWalk, LifeInv
  <2> QED BY <2>1, <2>4
<1>6. CASE Detach
  <2>1. CountInv'
    BY <1>6 DEF Detach, CountInv, lists
  <2>2. /\ rx.pc \notin {"none", "created"} /\ \A c \in Client : reg[c].flags = {}
        /\ num_callbacks = 0 /\ rx_task_status' = "STOP" /\ detaching' = TRUE
        /\ UNCHANGED <<allocated, reg, rx, init, callback_mutex>>
    BY <1>6 DEF Detach, lists
  <2>3. allocated = {}
    BY <2>2, FiniteEntries, FS_EmptySet DEF CountInv
  <2>4. callback_mutex
    BY <2>2 DEF LifeInv, Nothing
  <2>5. LifeInv'
    BY <2>2, <2>3, <2>4 DEF LifeInv
  <2> QED BY <2>1, <2>5
<1>7. CASE TaskStop
  <2>1. CountInv'
    BY <1>7 DEF TaskStop, CountInv, lists
  <2>2. /\ rx.pc = "idle" /\ rx' = NoTask /\ rx_task_status' = "DONE"
        /\ UNCHANGED <<allocated, reg, init, callback_mutex, detaching>>
    BY <1>7 DEF TaskStop, lists
  <2>3. rx'.pc = "none" /\ rx' = [lists |-> rx'.lists, cbptr |-> rx'.cbptr, gone |-> rx'.gone,
                                  asked |-> rx'.asked, stayed |-> rx'.stayed, pc |-> rx'.pc]
    BY <2>2 DEF NoTask, NoWalk
  <2>4. LifeInv'
    BY <2>2, <2>3 DEF LifeInv, Nothing
  <2> QED BY <2>1, <2>4
<1>8. CASE DetachEnds
  <2>1. /\ detaching /\ rx_task_status = "DONE" /\ detaching' = FALSE
        /\ callback_mutex' = FALSE /\ init' = FALSE /\ num_callbacks' = 0
        /\ UNCHANGED <<allocated, handle, reg, rx>>
    BY <1>8 DEF DetachEnds, Cleared
  <2>2. /\ allocated = {} /\ rx.pc = "none" /\ \A c \in Client : reg[c].flags = {}
    BY <2>1 DEF LifeInv
  <2>3. CountInv'
    BY <2>1, <2>2, FS_EmptySet DEF CountInv
  <2>4. LifeInv'
    BY <2>1, <2>2 DEF LifeInv, Nothing
  <2> QED BY <2>3, <2>4
<1>9. CASE Receive
  <2>1. PICK pkt \in Packet : rx' = [NoWalk EXCEPT !.lists = Lists(pkt), !.pc = "list"]
    BY <1>9 DEF Receive
  <2> QED BY <1>9, <2>1, DetachWalk DEF Receive, NoWalk
<1>10. ASSUME NEW n, NEW w, At(n, w) = rx', rx.pc \in {"list", "handler"},
              UNCHANGED <<lists, life>>,
              w = [lists |-> w.lists, cbptr |-> w.cbptr, gone |-> w.gone,
                   asked |-> w.asked, stayed |-> w.stayed, pc |-> w.pc]
       PROVE  DetachInv'
  <2>1. /\ rx'.pc \in {"end", "handler"}
        /\ rx' = [lists |-> rx'.lists, cbptr |-> rx'.cbptr, gone |-> rx'.gone,
                  asked |-> rx'.asked, stayed |-> rx'.stayed, pc |-> rx'.pc]
    BY <1>10 DEF At
  <2> QED BY <1>10, <2>1, DetachWalk
<1>11. CASE WalkList
  <2> DEFINE f == Head(rx.lists)
             here == {n \in allocated : cb[n].idx = f}
             w == [rx EXCEPT !.asked = {}, !.stayed = here]
  <2>1. rx' = At(callback_handlers[f], w) /\ rx.pc = "list" /\ UNCHANGED <<lists, life>>
    BY <1>11 DEF WalkList
  <2>2. w = [lists |-> w.lists, cbptr |-> w.cbptr, gone |-> w.gone,
             asked |-> w.asked, stayed |-> w.stayed, pc |-> w.pc]
    <3>1. rx = [lists |-> rx.lists, cbptr |-> rx.cbptr, gone |-> rx.gone,
                asked |-> rx.asked, stayed |-> rx.stayed, pc |-> rx.pc]
      BY DEF LifeInv
    <3> HIDE DEF here
    <3>2. w = [lists |-> rx.lists, cbptr |-> rx.cbptr, gone |-> rx.gone,
               asked |-> {}, stayed |-> here, pc |-> rx.pc]
      <4> DEFINE v == [rx EXCEPT !.asked = {}]
      <4>1. v = [lists |-> rx.lists, cbptr |-> rx.cbptr, gone |-> rx.gone,
                 asked |-> {}, stayed |-> rx.stayed, pc |-> rx.pc]
        BY <3>1
      <4>2. w = [v EXCEPT !.stayed = here]
        OBVIOUS
      <4> HIDE DEF v
      <4> QED BY <4>1, <4>2
    <3> QED BY <3>2
  <2> HIDE DEF w
  <2> QED BY <1>10, <2>1, <2>2
<1>12. CASE HandlerReturns
  <2>1. rx.pc = "handler" /\ UNCHANGED <<lists, life>>
    BY <1>12 DEF HandlerReturns, InHandler
  <2>2. CASE rx' = NoWalk
    BY <2>1, <2>2, DetachWalk DEF NoWalk
  <2>3. CASE rx' = At(cb[rx.cbptr].next, rx)
    BY <2>1, <2>3, <1>10 DEF LifeInv
  <2> QED BY <1>12, <2>2, <2>3 DEF HandlerReturns
<1>13. CASE WalkEnds
  <2>1. rx.pc = "end" /\ UNCHANGED <<lists, life>>
    BY <1>13 DEF WalkEnds
  <2>2. rx' = NoWalk \/ rx' = [NoWalk EXCEPT !.lists = Tail(rx.lists), !.pc = "list"]
    BY <1>13 DEF WalkEnds
  <2>3. CASE rx' = NoWalk
    BY <2>1, <2>3, DetachWalk DEF NoWalk
  <2>4. CASE rx' = [NoWalk EXCEPT !.lists = Tail(rx.lists), !.pc = "list"]
    <3> DEFINE rest == Tail(rx.lists)
    <3>1. rx' = [NoWalk EXCEPT !.lists = rest, !.pc = "list"]
      BY <2>4
    <3> HIDE DEF rest
    <3>2. rx' = [lists |-> rest, cbptr |-> NULL, gone |-> FALSE, asked |-> {}, stayed |-> {},
                 pc |-> "list"]
      BY <3>1 DEF NoWalk
    <3> QED BY <2>1, <3>2, DetachWalk
  <2> QED BY <2>2, <2>3, <2>4
<1>14. CASE UNCHANGED vars
  <2>1. CountInv'
    BY <1>14 DEF CountInv, vars, lists
  <2>2. LifeInv'
    BY <1>14 DEF LifeInv, Nothing, vars, lists, life
  <2> QED BY <2>1, <2>2
<1> QED BY <1>1, <1>2, <1>3, <1>4, <1>5, <1>6, <1>7, <1>8, <1>9, <1>11, <1>12, <1>13, <1>14
        DEF Next

\* cbx_pktio_detach is told of a handler by num_callbacks alone; its wait can end, and the
\* mutex it destroys is nobody's (cbx_pktio_detach, cbxi_rx_uninit).
THEOREM PktioDetachSafe == Spec => []DetachSafe
<1>1. DetachInv => DetachSafe
  <2> SUFFICES ASSUME DetachInv PROVE DetachSafe
    OBVIOUS
  <2>1. ~callback_mutex => Nothing
    BY DEF DetachInv, LifeInv
  <2>2. \A c \in Client : allocated = {} => handle[c] = NULL
    BY DEF DetachInv, CountInv
  <2>3. MutexExists
    BY <2>1, <2>2 DEF MutexExists, Nothing
  <2>4. DetachCanEnd
    BY <2>1 DEF DetachCanEnd, Nothing, DetachInv, LifeInv
  <2> QED BY <2>3, <2>4 DEF DetachSafe
<1> QED BY DetachInit, DetachNext, <1>1, PTL DEF Spec

\* num_callbacks is the number of the entries, whatever registers and unregisters when, and
\* whatever fails on the way (cbx_pktio_register, cbx_pktio_unregister).
THEOREM PktioCountExact == Spec => [](num_callbacks = Cardinality(allocated))
<1>1. DetachInv => num_callbacks = Cardinality(allocated)
  BY DEF DetachInv, CountInv
<1> QED BY DetachInit, DetachNext, <1>1, PTL DEF Spec

-----------------------------------------------------------------------------
(* The lists.  Their entries are numbered in an order in which every link to the *)
(* next entry goes up; an entry is then reached, a search ends and a walk passes   *)
(* every entry by induction on these numbers.                                     *)

LEMMA LeastNumber ==
  ASSUME NEW T \in SUBSET Nat, T # {}
  PROVE  \E m \in T : \A k \in T : m <= k
<1> DEFINE Initial == {0 .. n : n \in T}
<1>1. Initial \subseteq FiniteSubsetsOf(Nat) /\ Initial # {}
  <2>1. ASSUME NEW n \in T PROVE 0 .. n \in FiniteSubsetsOf(Nat)
    BY FS_Interval DEF FiniteSubsetsOf
  <2> QED
    BY <2>1
<1>2. \E x \in Initial : \A y \in Initial : ~(<<y, x>> \in StrictSubsetOrdering(Nat))
  <2> HIDE DEF Initial
  <2> QED
    BY <1>1, FS_StrictSubsetOrderingWellFounded, WFMin
<1>3. PICK m \in T : \A y \in Initial : ~(<<y, 0 .. m>> \in StrictSubsetOrdering(Nat))
  BY <1>2
<1>4. ASSUME NEW k \in T, k < m PROVE FALSE
  <2>1. 0 .. k \in Initial /\ 0 .. k \subseteq 0 .. m /\ 0 .. k # 0 .. m /\ 0 .. m \subseteq Nat
    BY <1>4
  <2> QED
    BY <2>1, <1>3 DEF StrictSubsetOrdering
<1> QED
  BY <1>4

\* Induction up to n, for a set of numbers.
LEMMA Upwards ==
  ASSUME NEW n \in Nat, NEW S, 0 \in S, \A i \in 1 .. n : i - 1 \in S => i \in S
  PROVE  n \in S
<1> DEFINE T == (0 .. n) \ S
<1>1. SUFFICES ASSUME T # {} PROVE FALSE
  OBVIOUS
<1>2. PICK m \in T : \A k \in T : m <= k
  <2>1. T \in SUBSET Nat
    OBVIOUS
  <2> HIDE DEF T
  <2> QED
    BY <1>1, <2>1, LeastNumber
<1>3. m \in 1 .. n /\ m - 1 \in S
  BY <1>2
<1> QED
  BY <1>2, <1>3

\* Among entries there is one with the least number.
LEMMA LeastEntry ==
  ASSUME NEW r \in [Node -> Nat], NEW E \in SUBSET Node, E # {}
  PROVE  \E m \in E : \A n \in E : r[m] <= r[n]
<1> DEFINE T == {r[n] : n \in E}
<1>1. T \in SUBSET Nat /\ T # {}
  OBVIOUS
<1>2. PICK k \in T : \A j \in T : k <= j
  <2> HIDE DEF T
  <2> QED
    BY <1>1, LeastNumber
<1> QED
  BY <1>2

\* r numbers the entries of E, below k and each differently.
Numbers(r, E, k) ==
    /\ r \in [Node -> Nat]
    /\ \A n \in E : r[n] < k
    /\ \A m, n \in E : r[m] = r[n] => m = n

SameOrder(r, s, E) == \A m, n \in E : r[m] < r[n] <=> s[m] < s[n]

\* Number k is made free for n.
Makes(r, s, n, k, E) == /\ s[n] = k
                        /\ \A x \in E : IF k <= r[x] THEN k < s[x] ELSE s[x] < k

\* A new entry gets number k; those from k on move up.
Raised(r, n, k) ==
    [x \in Node |-> IF x = n THEN k ELSE IF k <= r[x] THEN r[x] + 1 ELSE r[x]]

\* Entry n leaves; those above it move down.
Lowered(r, n) == [x \in Node |-> IF r[n] < r[x] THEN r[x] - 1 ELSE r[x]]

LEMMA RaisedNumbers ==
  ASSUME NEW E \in SUBSET Node, NEW num \in Nat, NEW r, Numbers(r, E, num),
         NEW n \in Node \ E, NEW k \in 0 .. num
  PROVE  /\ Numbers(Raised(r, n, k), E \cup {n}, num + 1)
         /\ SameOrder(r, Raised(r, n, k), E)
         /\ Makes(r, Raised(r, n, k), n, k, E)
<1> DEFINE s == Raised(r, n, k)
<1>1. s[n] = k /\ s \in [Node -> Nat]
  BY DEF Raised, Numbers
<1>2. \A x \in E : s[x] = IF k <= r[x] THEN r[x] + 1 ELSE r[x]
  BY DEF Raised
<1>3. \A x \in E : r[x] \in Nat /\ r[x] < num
  BY DEF Numbers
<1>a. \A x, y \in E : r[x] = r[y] => x = y
  BY DEF Numbers
<1> HIDE DEF s
<1>4. \A x \in E : IF k <= r[x] THEN k < s[x] ELSE s[x] < k
  BY <1>2, <1>3
<1>5. SameOrder(r, s, E)
  BY <1>2, <1>3 DEF SameOrder
<1>6. \A x \in E \cup {n} : s[x] < num + 1
  BY <1>1, <1>2, <1>3
<1>7. ASSUME NEW x \in E \cup {n}, NEW y \in E \cup {n}, s[x] = s[y] PROVE x = y
  <2>1. CASE x \in E /\ y \in E
    <3>1. r[x] = r[y]
      BY <2>1, <1>2, <1>3, <1>7
    <3> QED
      BY <3>1, <2>1, <1>a
  <2>2. CASE x = n \/ y = n
    BY <2>2, <1>1, <1>3, <1>4, <1>7
  <2> QED
    BY <2>1, <2>2
<1>8. Numbers(s, E \cup {n}, num + 1)
  BY <1>1, <1>6, <1>7 DEF Numbers
<1>9. Makes(r, s, n, k, E)
  BY <1>1, <1>4 DEF Makes
<1> QED
  BY <1>5, <1>8, <1>9 DEF s

LEMMA LoweredNumbers ==
  ASSUME NEW E \in SUBSET Node, NEW num \in Nat, NEW r, Numbers(r, E, num), NEW n \in E
  PROVE  /\ Numbers(Lowered(r, n), E \ {n}, num - 1)
         /\ SameOrder(r, Lowered(r, n), E \ {n})
<1> DEFINE s == Lowered(r, n)
<1>1. s \in [Node -> Nat]
  BY DEF Lowered, Numbers
<1>2. \A x \in E : s[x] = IF r[n] < r[x] THEN r[x] - 1 ELSE r[x]
  BY DEF Lowered
<1>3. \A x \in E : r[x] \in Nat /\ r[x] < num
  BY DEF Numbers
<1>a. \A x, y \in E : r[x] = r[y] => x = y
  BY DEF Numbers
<1> HIDE DEF s
<1>b. \A x \in E \ {n} : r[x] # r[n]
  BY <1>a
<1>5. SameOrder(r, s, E \ {n})
  BY <1>2, <1>3, <1>b DEF SameOrder
<1>6. \A x \in E \ {n} : s[x] < num - 1
  BY <1>2, <1>3, <1>b
<1>7. ASSUME NEW x \in E \ {n}, NEW y \in E \ {n}, s[x] = s[y] PROVE x = y
  <2>1. r[x] = r[y]
    BY <1>2, <1>3, <1>b, <1>7
  <2> QED
    BY <2>1, <1>a
<1>8. Numbers(s, E \ {n}, num - 1)
  BY <1>1, <1>6, <1>7 DEF Numbers
<1> QED
  BY <1>5, <1>8 DEF s

\* The memory of the lists and of the calls.
Memory ==
    /\ allocated \subseteq Node
    /\ cb \in [Node -> [idx : Filter, priority : Nat,
                        next : Node \cup {NULL}, prev : Node \cup {NULL}]]
    /\ callback_handlers \in [Filter -> Node \cup {NULL}]
    /\ reg \in [Client -> [flags : SUBSET Filter, priority : Nat, by : {"app", "handler"}]]
    /\ \A n \in Node \ allocated : cb[n] = Free

\* The links of the allocated entries, which go up with r.
Links(r) ==
    \A n \in allocated :
       /\ cb[n].next # NULL => /\ cb[n].next \in allocated /\ r[n] < r[cb[n].next]
                               /\ cb[cb[n].next].prev = n
                               /\ cb[cb[n].next].idx = cb[n].idx
       /\ cb[n].prev # NULL => /\ cb[n].prev \in allocated
                               /\ cb[cb[n].prev].next = n
       /\ cb[n].prev = NULL <=> callback_handlers[cb[n].idx] = n

Heads == \A f \in Filter : callback_handlers[f] # NULL =>
            /\ callback_handlers[f] \in allocated
            /\ cb[callback_handlers[f]].idx = f

Linked(r) == Memory /\ Numbers(r, allocated, num_callbacks) /\ Links(r) /\ Heads

\* The walk is at an entry of its list, and has asked those that were there before it.
Walked(r) ==
    /\ rx.lists \in Seq(Filter) /\ (rx.pc \in {"handler", "end"} => rx.lists # <<>>)
    /\ InHandler /\ ~rx.gone =>
         /\ rx.cbptr \in allocated
         /\ \A n \in rx.stayed : n \in allocated /\ cb[n].idx = cb[rx.cbptr].idx
         /\ \A n \in rx.stayed : r[n] <= r[rx.cbptr] => n \in rx.asked
    /\ rx.pc = "end" => rx.stayed \subseteq rx.asked

WalkInv == \E r : Linked(r) /\ Walked(r)

LEMMA PrevBelow ==
  ASSUME NEW r, Linked(r),
         NEW n \in allocated, cb[n].prev # NULL
  PROVE  /\ cb[n].prev \in allocated /\ r[cb[n].prev] < r[n]
         /\ cb[cb[n].prev].next = n /\ cb[cb[n].prev].idx = cb[n].idx
<1>1. cb[n].prev \in allocated /\ cb[cb[n].prev].next = n /\ n # NULL
  BY NodeAssumption DEF Linked, Links, Memory
<1> QED
  BY <1>1 DEF Linked, Links

\* The head of a list is below its other entries.
LEMMA HeadFirst ==
  ASSUME NEW r, Linked(r), NEW n \in allocated
  PROVE  LET h == callback_handlers[cb[n].idx] IN h # NULL /\ r[h] <= r[n]
<1> DEFINE Good(x) == callback_handlers[cb[x].idx] # NULL /\ r[callback_handlers[cb[x].idx]] <= r[x]
           E == {x \in allocated : ~Good(x)}
<1>1. SUFFICES ASSUME E # {} PROVE FALSE
  OBVIOUS
<1>2. PICK m \in E : \A x \in E : r[m] <= r[x]
  <2>1. r \in [Node -> Nat] /\ E \in SUBSET Node
    BY DEF Linked, Numbers, Memory
  <2> HIDE DEF E
  <2> QED
    BY <1>1, <2>1, LeastEntry
<1>3. m \in allocated /\ ~Good(m) /\ r \in [Node -> Nat] /\ allocated \subseteq Node
  BY DEF Linked, Numbers, Memory
<1>4. CASE cb[m].prev = NULL
  <2>1. callback_handlers[cb[m].idx] = m /\ r[m] \in Nat /\ m # NULL
    BY <1>3, <1>4, NodeAssumption DEF Linked, Links, Memory
  <2> QED
    BY <2>1, <1>3
<1>5. CASE cb[m].prev # NULL
  <2> DEFINE p == cb[m].prev
  <2>1. p \in allocated /\ r[p] < r[m] /\ cb[p].idx = cb[m].idx
    BY <1>3, <1>5, PrevBelow
  <2>2. r[p] \in Nat /\ r[m] \in Nat
    BY <2>1, <1>3
  <2>3. Good(p)
    BY <2>1, <2>2, <1>2
  <2>4. callback_handlers[cb[m].idx] \in allocated
    <3>1. cb[p].idx \in Filter
      BY <2>1 DEF Linked, Memory
    <3> QED
      BY <2>1, <2>3, <3>1 DEF Linked, Heads
  <2> QED
    BY <2>1, <2>2, <2>3, <2>4, <1>3
<1> QED
  BY <1>4, <1>5

\* Nothing of a list is between an entry and the next, or behind the last.
LEMMA NothingBetween ==
  ASSUME NEW r, Linked(r), NEW a \in allocated, NEW n \in allocated,
         cb[n].idx = cb[a].idx, r[a] < r[n]
  PROVE  cb[a].next # NULL /\ r[cb[a].next] <= r[n]
<1> DEFINE Bad(x, y) == /\ cb[y].idx = cb[x].idx /\ r[x] < r[y]
                        /\ cb[x].next # NULL => r[y] < r[cb[x].next]
           E == {y \in allocated : \E x \in allocated : Bad(x, y)}
<1>0. r \in [Node -> Nat] /\ allocated \subseteq Node /\ NULL \notin Node
  BY NodeAssumption DEF Linked, Numbers, Memory
<1>a. \A x \in allocated : cb[x].next # NULL => cb[x].next \in allocated
  BY DEF Linked, Links
<1>1. SUFFICES ASSUME E # {} PROVE FALSE
  <2>1. ~Bad(a, n)
    OBVIOUS
  <2> QED
    BY <2>1, <1>0, <1>a
<1>2. PICK y \in E : \A z \in E : r[y] <= r[z]
  <2>1. E \in SUBSET Node
    BY <1>0
  <2> HIDE DEF E
  <2> QED
    BY <1>0, <1>1, <2>1, LeastEntry
<1>3. PICK x \in allocated : Bad(x, y)
  BY <1>2
<1>4. y \in allocated /\ r[x] \in Nat /\ r[y] \in Nat
  BY <1>0, <1>2
<1>5. cb[y].prev # NULL
  <2>1. SUFFICES ASSUME callback_handlers[cb[y].idx] = y PROVE FALSE
    BY <1>4 DEF Linked, Links
  <2>2. r[callback_handlers[cb[x].idx]] <= r[x]
    BY HeadFirst
  <2> QED
    BY <2>1, <2>2, <1>3, <1>4
<1> DEFINE p == cb[y].prev
<1>6. p \in allocated /\ r[p] < r[y] /\ cb[p].next = y /\ cb[p].idx = cb[y].idx /\ r[p] \in Nat
  BY <1>0, <1>4, <1>5, PrevBelow
<1>7. CASE r[x] < r[p]
  <2>1. Bad(x, p)
    <3>1. cb[x].next # NULL => r[cb[x].next] \in Nat
      BY <1>0, <1>a
    <3> QED
      BY <3>1, <1>3, <1>4, <1>6, <1>7
  <2>2. p \in E
    BY <2>1, <1>6
  <2> QED
    BY <2>2, <1>2, <1>4, <1>6
<1>8. CASE r[x] = r[p]
  <2>1. x = p
    BY <1>6, <1>8 DEF Linked, Numbers
  <2> QED
    BY <2>1, <1>0, <1>3, <1>4, <1>6
<1>9. CASE r[p] < r[x]
  <2>1. Bad(p, x) /\ x \in E
    BY <1>0, <1>3, <1>4, <1>6, <1>9
  <2> QED
    BY <2>1, <1>2, <1>3, <1>4
<1> QED
  BY <1>4, <1>6, <1>7, <1>8, <1>9

\* The entries of E and those behind them.
Behind(E) == E \cup ({cb[n].next : n \in E} \ {NULL})

\* Reached is computed in as many rounds as there are entries.
LEMMA ReachedRounds ==
  ASSUME NEW f
  PROVE  \E w : /\ w[0] = {callback_handlers[f]} \ {NULL}
                /\ \A k \in 1 .. Cardinality(Node) : w[k] = Behind(w[k - 1])
                /\ Reached(f) = w[Cardinality(Node)]
<1> DEFINE N == Cardinality(Node)
           within[k \in 0 .. N] ==
             IF k = 0 THEN {callback_handlers[f]} \ {NULL}
             ELSE within[k - 1] \cup ({cb[n].next : n \in within[k - 1]} \ {NULL})
           Round(g, m) == /\ g = [k \in 0 .. m |-> g[k]]
                          /\ g[0] = {callback_handlers[f]} \ {NULL}
                          /\ \A k \in 1 .. m : g[k] = Behind(g[k - 1])
           S == {m \in 0 .. N : \E g : Round(g, m)}
<1>1. N \in Nat
  BY NodeAssumption, FS_CardinalityType
<1> HIDE DEF N
<1>2. 0 \in S
  <2> DEFINE g == [k \in 0 .. 0 |-> {callback_handlers[f]} \ {NULL}]
  <2>1. g[0] = {callback_handlers[f]} \ {NULL} /\ g = [k \in 0 .. 0 |-> g[k]]
    OBVIOUS
  <2> HIDE DEF g
  <2>2. Round(g, 0)
    BY <2>1
  <2> QED
    BY <1>1, <2>2
<1>3. ASSUME NEW m \in 1 .. N, m - 1 \in S PROVE m \in S
  <2>1. PICK g : Round(g, m - 1)
    BY <1>3
  <2> DEFINE h == [k \in 0 .. m |-> IF k = m THEN Behind(g[m - 1]) ELSE g[k]]
  <2>2. h = [k \in 0 .. m |-> h[k]] /\ h[0] = g[0] /\ h[m] = Behind(g[m - 1])
    OBVIOUS
  <2>3. \A k \in 0 .. m - 1 : h[k] = g[k]
    OBVIOUS
  <2> HIDE DEF h
  <2>4. ASSUME NEW k \in 1 .. m PROVE h[k] = Behind(h[k - 1])
    <3>1. CASE k = m
      <4>1. m - 1 \in 0 .. m - 1
        BY <1>1
      <4>2. h[m - 1] = g[m - 1]
        BY <4>1, <2>3
      <4> QED
        BY <3>1, <4>2, <2>2
    <3>2. CASE k # m
      <4>1. k \in 0 .. m - 1 /\ k - 1 \in 0 .. m - 1 /\ k \in 1 .. m - 1
        BY <3>2
      <4>2. g[k] = Behind(g[k - 1])
        BY <4>1, <2>1
      <4>3. h[k] = g[k] /\ h[k - 1] = g[k - 1]
        BY <4>1, <2>3
      <4> QED
        BY <4>2, <4>3
    <3> QED
      BY <3>1, <3>2
  <2>5. Round(h, m)
    BY <2>1, <2>2, <2>4
  <2> HIDE DEF Round
  <2> QED
    BY <1>1, <2>5
<1>4. PICK g : Round(g, N)
  <2>1. N \in S
    <3> HIDE DEF S
    <3> QED
      BY <1>1, <1>2, <1>3, Upwards
  <2> QED
    BY <2>1
<1>5. g = [k \in 0 .. N |->
             IF k = 0 THEN {callback_handlers[f]} \ {NULL}
             ELSE g[k - 1] \cup ({cb[n].next : n \in g[k - 1]} \ {NULL})]
  <2>1. \A k \in 0 .. N : g[k] = IF k = 0 THEN {callback_handlers[f]} \ {NULL}
                                 ELSE g[k - 1] \cup ({cb[n].next : n \in g[k - 1]} \ {NULL})
    <3> TAKE k \in 0 .. N
    <3>1. CASE k = 0
      BY <3>1, <1>4
    <3>2. CASE k # 0
      <4>1. k \in 1 .. N
        BY <3>2, <1>1
      <4>2. g[k] = Behind(g[k - 1])
        BY <4>1, <1>4
      <4> QED
        BY <3>2, <4>2 DEF Behind
    <3> QED
      BY <3>1, <3>2
  <2>2. g = [k \in 0 .. N |-> g[k]]
    BY <1>4
  <2> QED
    BY <2>1, <2>2
<1>6. within = [k \in 0 .. N |->
             IF k = 0 THEN {callback_handlers[f]} \ {NULL}
             ELSE within[k - 1] \cup ({cb[n].next : n \in within[k - 1]} \ {NULL})]
  BY <1>5
<1>7. Reached(f) = within[N]
  BY DEF Reached, N
<1> HIDE DEF within
<1>8. within[0] = {callback_handlers[f]} \ {NULL}
  BY <1>1, <1>6
<1>9. \A k \in 1 .. N : within[k] = Behind(within[k - 1])
  BY <1>1, <1>6 DEF Behind
<1> QED
  BY <1>7, <1>8, <1>9 DEF N

\* Reached holds the entries of the list, and nothing else.
LEMMA ReachedIs ==
  ASSUME NEW r, Linked(r), num_callbacks = Cardinality(allocated), NEW f \in Filter
  PROVE  Reached(f) = {n \in allocated : cb[n].idx = f}
<1> DEFINE N == Cardinality(Node)
           L == {n \in allocated : cb[n].idx = f}
<1>1. N \in Nat /\ num_callbacks \in 0 .. N
  BY NodeAssumption, FS_CardinalityType, FS_Subset DEF Linked, Memory
<1>2. PICK w : /\ w[0] = {callback_handlers[f]} \ {NULL}
               /\ \A k \in 1 .. N : w[k] = Behind(w[k - 1])
               /\ Reached(f) = w[N]
  BY ReachedRounds
<1> DEFINE Good(k) == /\ w[0] \subseteq w[k] /\ w[k] \subseteq L
                      /\ \A n \in L : r[n] <= k => n \in w[k]
           S == {k \in 0 .. N : Good(k)}
<1>3. \A n \in L : r[n] \in Nat /\ r[n] < num_callbacks
  BY DEF Linked, Numbers, Memory
<1> HIDE DEF N
<1>4. Good(0)
  <2>1. w[0] \subseteq L
    BY <1>2 DEF Linked, Heads
  <2>2. ASSUME NEW n \in L, r[n] <= 0 PROVE n \in w[0]
    <3>1. cb[n].prev = NULL
      <4>1. SUFFICES ASSUME cb[n].prev # NULL PROVE FALSE
        OBVIOUS
      <4>2. cb[n].prev \in L /\ r[cb[n].prev] < r[n]
        BY <4>1, PrevBelow
      <4> QED
        BY <4>2, <2>2, <1>3
    <3>2. callback_handlers[f] = n /\ n # NULL
      BY <3>1, NodeAssumption DEF Linked, Links, Memory
    <3> QED
      BY <3>2, <1>2
  <2> QED
    BY <2>1, <2>2
<1>5. ASSUME NEW k \in 1 .. N, Good(k - 1) PROVE Good(k)
  <2>1. w[k] = Behind(w[k - 1])
    BY <1>2
  <2>2. w[k] \subseteq L /\ w[0] \subseteq w[k]
    BY <2>1, <1>5 DEF Behind, Linked, Links
  <2>3. ASSUME NEW n \in L, r[n] <= k PROVE n \in w[k]
    <3>1. CASE r[n] <= k - 1
      BY <3>1, <2>1, <1>5 DEF Behind
    <3>2. CASE cb[n].prev = NULL
      <4>1. callback_handlers[f] = n /\ n # NULL
        BY <3>2, NodeAssumption DEF Linked, Links, Memory
      <4> QED
        BY <4>1, <1>2, <1>5, <2>1 DEF Behind
    <3>3. CASE cb[n].prev # NULL
      <4> DEFINE p == cb[n].prev
      <4>1. p \in L /\ r[p] < r[n] /\ cb[p].next = n /\ n # NULL
        BY <3>3, PrevBelow, NodeAssumption DEF Linked, Memory
      <4>2. p \in w[k - 1]
        BY <4>1, <1>3, <1>5, <2>3
      <4> QED
        BY <4>1, <4>2, <2>1 DEF Behind
    <3> QED
      BY <3>2, <3>3
  <2> QED
    BY <2>2, <2>3
<1> HIDE DEF Good
<1>6. N \in S
  <2>1. 0 \in S /\ \A k \in 1 .. N : k - 1 \in S => k \in S
    BY <1>1, <1>4, <1>5
  <2> HIDE DEF S
  <2> QED
    BY <1>1, <2>1, Upwards
<1>7. Good(N)
  BY <1>6
<1> QED
  BY <1>1, <1>2, <1>3, <1>7 DEF Good

\* The search of entry n, when g is where it ends from the others.
SeekFrom(g, p, n) == IF cb[n].priority <= p /\ cb[n].next # NULL THEN g[cb[n].next] ELSE n

LEMMA SeekIs ==
  ASSUME NEW r, Linked(r), num_callbacks \in Nat, NEW p
  PROVE  \A n \in Node : Seek(p)[n] = SeekFrom(Seek(p), p, n)
<1> DEFINE f[n \in Node] == IF cb[n].priority <= p /\ cb[n].next # NULL THEN f[cb[n].next] ELSE n
           Solves(g, k) == /\ g \in [Node -> Node]
                           /\ \A n \in Node : n \notin allocated \/ num_callbacks <= r[n] + k
                                 => g[n] = SeekFrom(g, p, n)
           S == {k \in 0 .. num_callbacks : \E g : Solves(g, k)}
<1>1. /\ r \in [Node -> Nat] /\ allocated \subseteq Node /\ NULL \notin Node
      /\ \A n \in allocated : r[n] < num_callbacks
      /\ \A n \in Node \ allocated : cb[n].next = NULL
      /\ \A n \in allocated : cb[n].next # NULL => cb[n].next \in allocated /\ r[n] < r[cb[n].next]
  BY NodeAssumption DEF Linked, Numbers, Memory, Links, Free
<1>2. 0 \in S
  <2> DEFINE g == [n \in Node |-> n]
  <2>1. g \in [Node -> Node] /\ \A n \in Node : g[n] = n
    OBVIOUS
  <2> HIDE DEF g
  <2>2. Solves(g, 0)
    BY <1>1, <2>1 DEF SeekFrom
  <2> HIDE DEF Solves
  <2> QED
    BY <2>2
<1>3. ASSUME NEW k \in 1 .. num_callbacks, k - 1 \in S PROVE k \in S
  <2>1. PICK g : Solves(g, k - 1)
    BY <1>3
  <2> DEFINE Now(n) == n \in allocated /\ num_callbacks = r[n] + k
             h == [n \in Node |-> IF Now(n) THEN SeekFrom(g, p, n) ELSE g[n]]
  <2>2. \A n \in Node : SeekFrom(g, p, n) \in Node
    BY <1>1, <2>1 DEF SeekFrom
  <2>3. h \in [Node -> Node] /\ \A n \in Node : h[n] = IF Now(n) THEN SeekFrom(g, p, n) ELSE g[n]
    BY <2>1, <2>2
  <2> HIDE DEF h
  <2>4. ASSUME NEW n \in Node, n \notin allocated \/ num_callbacks <= r[n] + k
        PROVE  h[n] = SeekFrom(h, p, n)
    <3>1. h[n] = SeekFrom(g, p, n)
      <4>1. CASE Now(n)
        BY <4>1, <2>3
      <4>2. CASE ~Now(n)
        <5>1. n \notin allocated \/ num_callbacks <= r[n] + (k - 1)
          BY <1>1, <2>4, <4>2
        <5> QED
          BY <5>1, <4>2, <2>1, <2>3
      <4> QED
        BY <4>1, <4>2
    <3>2. cb[n].next # NULL => h[cb[n].next] = g[cb[n].next]
      <4> SUFFICES ASSUME cb[n].next # NULL PROVE h[cb[n].next] = g[cb[n].next]
        OBVIOUS
      <4>1. cb[n].next \in Node /\ r[n] < r[cb[n].next] /\ n \in allocated
        BY <1>1
      <4>2. ~Now(cb[n].next)
        BY <1>1, <4>1, <2>4
      <4> QED
        BY <4>1, <4>2, <2>3
    <3> QED
      BY <3>1, <3>2 DEF SeekFrom
  <2>5. Solves(h, k)
    BY <2>3, <2>4
  <2> HIDE DEF Solves
  <2> QED
    BY <2>5
<1>4. PICK g : Solves(g, num_callbacks)
  <2>1. num_callbacks \in S
    <3> HIDE DEF S
    <3> QED
      BY <1>2, <1>3, Upwards
  <2> QED
    BY <2>1
<1>5. g = [n \in Node |-> IF cb[n].priority <= p /\ cb[n].next # NULL THEN g[cb[n].next] ELSE n]
  <2>1. \A n \in Node : g[n] = SeekFrom(g, p, n)
    BY <1>1, <1>4
  <2>2. g = [n \in Node |-> g[n]]
    BY <1>4
  <2> QED
    BY <2>1, <2>2 DEF SeekFrom
<1>6. f = [n \in Node |-> IF cb[n].priority <= p /\ cb[n].next # NULL THEN f[cb[n].next] ELSE n]
  BY <1>5
<1>7. Seek(p) = f
  BY DEF Seek
<1> HIDE DEF f
<1>8. \A n \in Node : f[n] = SeekFrom(f, p, n)
  BY <1>6 DEF SeekFrom
<1> QED
  BY <1>7, <1>8

\* The search ends at an entry of the list it began in.
LEMMA SeekEnds ==
  ASSUME NEW r, Linked(r), num_callbacks \in Nat, NEW p, NEW h \in allocated
  PROVE  Seek(p)[h] \in allocated /\ cb[Seek(p)[h]].idx = cb[h].idx
<1> DEFINE Good(n) == Seek(p)[n] \in allocated /\ cb[Seek(p)[n]].idx = cb[n].idx
           E == {n \in allocated : ~Good(n)}
           s == [n \in Node |-> IF r[n] <= num_callbacks THEN num_callbacks - r[n] ELSE 0]
<1>1. /\ r \in [Node -> Nat] /\ allocated \subseteq Node
      /\ \A n \in allocated : r[n] < num_callbacks
  BY DEF Linked, Numbers, Memory
<1>2. SUFFICES ASSUME E # {} PROVE FALSE
  OBVIOUS
<1>3. s \in [Node -> Nat] /\ \A n \in allocated : s[n] = num_callbacks - r[n]
  BY <1>1
<1>4. PICK m \in E : \A n \in E : s[m] <= s[n]
  <2>1. E \in SUBSET Node
    BY <1>1
  <2> HIDE DEF E, s
  <2> QED
    BY <1>2, <1>3, <2>1, LeastEntry
<1> HIDE DEF s
<1>5. Seek(p)[m] = SeekFrom(Seek(p), p, m) /\ m \in allocated
  BY <1>1, <1>4, SeekIs
<1>6. CASE cb[m].priority <= p /\ cb[m].next # NULL
  <2> DEFINE q == cb[m].next
  <2>1. q \in allocated /\ r[m] < r[q] /\ cb[q].idx = cb[m].idx
    BY <1>5, <1>6 DEF Linked, Links
  <2>2. Good(q)
    BY <2>1, <1>1, <1>3, <1>4, <1>5
  <2>3. Seek(p)[m] = Seek(p)[q]
    BY <1>5, <1>6 DEF SeekFrom
  <2> QED
    BY <2>1, <2>2, <2>3, <1>4
<1>7. CASE ~(cb[m].priority <= p /\ cb[m].next # NULL)
  <2>1. Seek(p)[m] = m
    BY <1>5, <1>7 DEF SeekFrom
  <2> QED
    BY <2>1, <1>4, <1>5
<1> QED
  BY <1>6, <1>7

\* The entries keep their lists.
SameLists(E) == \A x \in E : cb'[x].idx = cb[x].idx

Entry == [idx : Filter, priority : Nat, next : Node \cup {NULL}, prev : Node \cup {NULL}]

\* Entry n is written and linked between a and b.
Placed(n, f, a, b) ==
    /\ cb' \in [Node -> Entry]
    /\ cb'[n].idx = f /\ cb'[n].next = b /\ cb'[n].prev = a
    /\ \A x \in allocated :
          /\ cb'[x].idx = cb[x].idx
          /\ cb'[x].next = IF x = a THEN n ELSE cb[x].next
          /\ cb'[x].prev = IF x = b THEN n ELSE cb[x].prev
    /\ \A x \in Node \ (allocated \cup {n}) : cb'[x] = Free

\* a and b are neighbours in list f, and number k falls between them.
Stands(r, f, k, a, b) ==
    /\ a # NULL => cb[a].next = b /\ cb[a].idx = f /\ r[a] < k
    /\ b # NULL => cb[b].prev = a /\ cb[b].idx = f /\ k <= r[b]
    /\ a = NULL => callback_handlers[f] = b

\* Entry n comes to stand between a and b in list f, at number k.
LEMMA PlaceBetween ==
  ASSUME NEW r, Linked(r), num_callbacks \in Nat,
         NEW n \in Node \ allocated, NEW f \in Filter, NEW k \in 0 .. num_callbacks,
         NEW a \in allocated \cup {NULL}, NEW b \in allocated \cup {NULL},
         Stands(r, f, k, a, b), Placed(n, f, a, b),
         callback_handlers' = [callback_handlers EXCEPT ![f] = IF a = NULL THEN n ELSE @],
         allocated' = allocated \cup {n}, num_callbacks' = num_callbacks + 1, Memory'
  PROVE  \E s : Linked(s)' /\ SameOrder(r, s, allocated)
<1> DEFINE s == Raised(r, n, k)
<1>a. /\ a # NULL => cb[a].next = b /\ cb[a].idx = f /\ r[a] < k
      /\ b # NULL => cb[b].prev = a /\ cb[b].idx = f /\ k <= r[b]
      /\ a = NULL => callback_handlers[f] = b
      /\ cb'[n].idx = f /\ cb'[n].next = b /\ cb'[n].prev = a
      /\ \A x \in allocated :
            /\ cb'[x].idx = cb[x].idx
            /\ cb'[x].next = IF x = a THEN n ELSE cb[x].next
            /\ cb'[x].prev = IF x = b THEN n ELSE cb[x].prev
  BY DEF Stands, Placed
<1>1. /\ Numbers(s, allocated', num_callbacks') /\ SameOrder(r, s, allocated)
      /\ s[n] = k
      /\ \A x \in allocated : IF k <= r[x] THEN k < s[x] ELSE s[x] < k
  <2>1. Numbers(r, allocated, num_callbacks) /\ allocated \in SUBSET Node
    BY DEF Linked, Memory
  <2>2. Numbers(s, allocated \cup {n}, num_callbacks + 1) /\ SameOrder(r, s, allocated)
    BY <2>1, RaisedNumbers
  <2>3. Makes(r, s, n, k, allocated)
    BY <2>1, RaisedNumbers
  <2> HIDE DEF s
  <2> QED
    BY <2>2, <2>3 DEF Makes
<1>2. /\ r \in [Node -> Nat] /\ s \in [Node -> Nat] /\ allocated \subseteq Node
      /\ NULL \notin Node /\ callback_handlers \in [Filter -> Node \cup {NULL}]
  BY <1>1, NodeAssumption DEF Linked, Memory, Numbers
<1> HIDE DEF s
<1>3. /\ a # NULL => s[a] < s[n]
      /\ b # NULL => s[n] < s[b]
  BY <1>a, <1>1, <1>2
<1>4. \A x \in allocated : cb[x].next # NULL => s[x] < s[cb[x].next]
  BY <1>a, <1>1 DEF SameOrder, Linked, Links
<1>5. \A x \in allocated : cb[x].idx \in Filter
  BY <1>a DEF Linked, Memory
<1>6. callback_handlers'[f] = (IF a = NULL THEN n ELSE callback_handlers[f])
      /\ \A g \in Filter : g # f => callback_handlers'[g] = callback_handlers[g]
  BY <1>a, <1>2
<1>7. Heads'
  BY <1>a, <1>2, <1>6 DEF Linked, Heads
<1>8. Links(s)'
  <2> SUFFICES ASSUME NEW x \in allocated'
      PROVE  /\ cb'[x].next # NULL => /\ cb'[x].next \in allocated' /\ s[x] < s[cb'[x].next]
                                      /\ cb'[cb'[x].next].prev = x
                                      /\ cb'[cb'[x].next].idx = cb'[x].idx
             /\ cb'[x].prev # NULL => /\ cb'[x].prev \in allocated'
                                      /\ cb'[cb'[x].prev].next = x
             /\ cb'[x].prev = NULL <=> callback_handlers'[cb'[x].idx] = x
    BY <1>a DEF Links
  <2>1. CASE x = n
    <3>1. cb'[n].next # NULL => /\ b \in allocated /\ s[n] < s[b]
                                /\ cb'[b].prev = n /\ cb'[b].idx = f
      BY <1>a, <1>3
    <3>2. cb'[n].prev # NULL => a \in allocated /\ cb'[a].next = n
      BY <1>a
    <3>3. callback_handlers[f] # n /\ n # NULL
      BY <1>a, <1>2 DEF Linked, Heads
    <3>4. cb'[n].prev = NULL <=> callback_handlers'[f] = n
      BY <1>a, <3>3, <1>6
    <3> QED
      BY <1>a, <2>1, <3>1, <3>2, <3>4
  <2>2. CASE x \in allocated
    <3>1. /\ cb[x].next # NULL => /\ cb[x].next \in allocated /\ cb[cb[x].next].prev = x
                                  /\ cb[cb[x].next].idx = cb[x].idx
          /\ cb[x].prev # NULL => /\ cb[x].prev \in allocated /\ cb[cb[x].prev].next = x
          /\ cb[x].prev = NULL <=> callback_handlers[cb[x].idx] = x
      BY <1>a, <2>2 DEF Linked, Links
    <3>2. cb'[x].next # NULL => /\ cb'[x].next \in allocated' /\ s[x] < s[cb'[x].next]
                                /\ cb'[cb'[x].next].prev = x
                                /\ cb'[cb'[x].next].idx = cb'[x].idx
      <4>1. CASE x = a
        BY <1>a, <4>1, <2>2, <1>2, <1>3
      <4>2. CASE x # a
        <5> DEFINE y == cb[x].next
        <5>1. cb'[x].next = y
          BY <1>a, <4>2, <2>2
        <5>2. y # NULL => y \in allocated /\ y # b
          BY <1>a, <4>2, <3>1
        <5>3. y # NULL => cb'[y].prev = x /\ cb'[y].idx = cb'[x].idx /\ s[x] < s[y]
          BY <1>a, <5>2, <2>2, <3>1, <1>4
        <5> QED
          BY <1>a, <5>1, <5>2, <5>3
      <4> QED
        BY <1>a, <4>1, <4>2
    <3>3. cb'[x].prev # NULL => /\ cb'[x].prev \in allocated'
                                /\ cb'[cb'[x].prev].next = x
      <4>1. CASE x = b
        BY <1>a, <4>1, <2>2
      <4>2. CASE x # b
        <5> DEFINE y == cb[x].prev
        <5>1. cb'[x].prev = y
          BY <1>a, <4>2, <2>2
        <5>2. y # NULL => y \in allocated /\ y # a
          BY <1>a, <4>2, <3>1
        <5>3. y # NULL => cb'[y].next = x
          BY <1>a, <5>2, <3>1
        <5> QED
          BY <1>a, <5>1, <5>2, <5>3
      <4> QED
        BY <1>a, <4>1, <4>2
    <3>4. cb'[x].prev = NULL <=> callback_handlers'[cb'[x].idx] = x
      <4>1. x # NULL /\ n # NULL /\ x # n /\ cb'[x].idx = cb[x].idx /\ cb[x].idx \in Filter
        BY <1>a, <2>2, <1>2, <1>5
      <4>2. CASE x = b
        <5>1. cb'[x].prev = n
          BY <1>a, <4>2, <2>2
        <5>2. callback_handlers'[f] # x
          BY <1>a, <4>1, <4>2, <3>1, <1>6
        <5> QED
          BY <1>a, <4>1, <4>2, <5>1, <5>2
      <4>3. CASE x # b
        <5>1. cb'[x].prev = cb[x].prev
          BY <1>a, <4>3, <2>2
        <5>2. callback_handlers'[cb[x].idx] = x <=> callback_handlers[cb[x].idx] = x
          <6>1. CASE cb[x].idx = f /\ a = NULL
            BY <1>a, <6>1, <4>1, <4>3, <1>6
          <6>2. CASE ~(cb[x].idx = f /\ a = NULL)
            BY <1>a, <6>2, <4>1, <1>6
          <6> QED
            BY <1>a, <6>1, <6>2
        <5> QED
          BY <1>a, <4>1, <5>1, <5>2, <3>1
      <4> QED
        BY <1>a, <4>2, <4>3
    <3> QED
      BY <1>a, <3>2, <3>3, <3>4
  <2> QED
    BY <1>a, <2>1, <2>2
<1>9. Linked(s)'
  BY <1>a, <1>1, <1>7, <1>8 DEF Linked
<1> QED
  BY <1>a, <1>1, <1>9

\* Entry n leaves its list.
LEMMA UnlinkKeeps ==
  ASSUME NEW r, Linked(r), num_callbacks \in Nat, NEW n \in allocated, Unlink(n),
         callback_handlers' = [callback_handlers EXCEPT
            ![cb[n].idx] = IF @ = n THEN cb[n].next ELSE @],
         allocated' = allocated \ {n}, num_callbacks' = num_callbacks - 1, reg' = reg
  PROVE  /\ \E s : Linked(s)' /\ SameOrder(r, s, allocated')
         /\ SameLists(allocated')
<1> DEFINE s == Lowered(r, n)
           f == cb[n].idx
           a == cb[n].prev
           b == cb[n].next
<1>1. Numbers(s, allocated', num_callbacks') /\ SameOrder(r, s, allocated')
  BY LoweredNumbers DEF Linked, Memory
<1>2. /\ r \in [Node -> Nat] /\ s \in [Node -> Nat] /\ allocated \subseteq Node
      /\ NULL \notin Node /\ callback_handlers \in [Filter -> Node \cup {NULL}]
      /\ cb \in [Node -> [idx : Filter, priority : Nat,
                          next : Node \cup {NULL}, prev : Node \cup {NULL}]]
  BY <1>1, NodeAssumption DEF Linked, Memory, Numbers
<1> HIDE DEF s
<1>3. /\ a # NULL => /\ a \in allocated /\ r[a] < r[n] /\ cb[a].next = n
                     /\ cb[a].idx = f
      /\ b # NULL => /\ b \in allocated /\ r[n] < r[b] /\ cb[b].prev = n
                     /\ cb[b].idx = f
      /\ a = NULL <=> callback_handlers[f] = n
  BY PrevBelow DEF Linked, Links
<1>4. a # n /\ b # n /\ (a # NULL => a # b)
  BY <1>2, <1>3
<1>5. /\ \A x \in allocated' : /\ cb'[x].idx = cb[x].idx
                               /\ cb'[x].next = IF x = a THEN b ELSE cb[x].next
                               /\ cb'[x].prev = IF x = b THEN a ELSE cb[x].prev
      /\ cb' \in [Node -> [idx : Filter, priority : Nat,
                           next : Node \cup {NULL}, prev : Node \cup {NULL}]]
      /\ \A x \in Node \ allocated' : cb'[x] = Free
  <2>1. ASSUME NEW x \in Node
        PROVE  cb'[x] = IF x = n THEN Free
                        ELSE IF x = b THEN [cb[x] EXCEPT !.prev = a]
                        ELSE IF x = a THEN [cb[x] EXCEPT !.next = b]
                        ELSE cb[x]
    BY DEF Unlink
  <2>2. cb' = [x \in Node |-> cb'[x]]
    BY DEF Unlink
  <2>3. Free \in [idx : Filter, priority : Nat, next : Node \cup {NULL}, prev : Node \cup {NULL}]
    <3>1. "ALL" \in Filter
      <4>1. Filters[7] = "ALL" /\ 7 \in DOMAIN Filters
        BY DEF Filters
      <4> QED
        BY <4>1 DEF Filter
    <3> QED
      BY <3>1 DEF Free
  <2>4. ASSUME NEW x \in Node
        PROVE  cb'[x] \in [idx : Filter, priority : Nat,
                           next : Node \cup {NULL}, prev : Node \cup {NULL}]
    BY <2>1, <2>3, <1>2
  <2>5. ASSUME NEW x \in allocated'
        PROVE  /\ cb'[x].idx = cb[x].idx
               /\ cb'[x].next = IF x = a THEN b ELSE cb[x].next
               /\ cb'[x].prev = IF x = b THEN a ELSE cb[x].prev
    <3>1. x \in Node /\ x # n /\ x # NULL
      BY <1>2
    <3>2. cb[x] = [idx |-> cb[x].idx, priority |-> cb[x].priority,
                   next |-> cb[x].next, prev |-> cb[x].prev]
      BY <3>1, <1>2
    <3> QED
      BY <3>1, <3>2, <2>1, <1>4
  <2>6. ASSUME NEW x \in Node \ allocated' PROVE cb'[x] = Free
    <3>1. x # n => cb[x] = Free /\ x \notin allocated /\ x # NULL
      BY <1>2 DEF Linked, Memory
    <3> QED
      BY <3>1, <2>1, <1>3
  <2> QED
    BY <2>2, <2>4, <2>5, <2>6
<1>6. /\ f \in Filter
      /\ callback_handlers'[f] = (IF callback_handlers[f] = n THEN b ELSE callback_handlers[f])
      /\ \A g \in Filter : g # f => callback_handlers'[g] = callback_handlers[g]
      /\ callback_handlers' \in [Filter -> Node \cup {NULL}]
  BY <1>2
<1>7. Memory'
  BY <1>2, <1>5, <1>6 DEF Linked, Memory
<1>8. Heads'
  <2> SUFFICES ASSUME NEW g \in Filter, callback_handlers'[g] # NULL
      PROVE  callback_handlers'[g] \in allocated' /\ cb'[callback_handlers'[g]].idx = g
    BY DEF Heads
  <2>0. callback_handlers[g] # NULL => callback_handlers[g] \in allocated /\ cb[callback_handlers[g]].idx = g
    BY DEF Linked, Heads
  <2>1. callback_handlers'[g] \in allocated' /\ cb[callback_handlers'[g]].idx = g
    BY <2>0, <1>3, <1>4, <1>6
  <2> QED
    BY <2>1, <1>5
<1>9. Links(s)'
  <2> SUFFICES ASSUME NEW x \in allocated'
      PROVE  /\ cb'[x].next # NULL => /\ cb'[x].next \in allocated' /\ s[x] < s[cb'[x].next]
                                      /\ cb'[cb'[x].next].prev = x
                                      /\ cb'[cb'[x].next].idx = cb'[x].idx
             /\ cb'[x].prev # NULL => /\ cb'[x].prev \in allocated'
                                      /\ cb'[cb'[x].prev].next = x
             /\ cb'[x].prev = NULL <=> callback_handlers'[cb'[x].idx] = x
    BY DEF Links
  <2>1. /\ cb[x].next # NULL => /\ cb[x].next \in allocated /\ cb[cb[x].next].prev = x
                                /\ r[x] < r[cb[x].next]
                                /\ cb[cb[x].next].idx = cb[x].idx
        /\ cb[x].prev # NULL => /\ cb[x].prev \in allocated /\ cb[cb[x].prev].next = x
        /\ cb[x].prev = NULL <=> callback_handlers[cb[x].idx] = x
    BY DEF Linked, Links
  <2>2. x \in allocated /\ x # n /\ x # NULL /\ cb[x].idx \in Filter
    BY <1>2
  <2>3. cb'[x].next # NULL => /\ cb'[x].next \in allocated' /\ r[x] < r[cb'[x].next]
                              /\ cb'[cb'[x].next].prev = x
                              /\ cb'[cb'[x].next].idx = cb'[x].idx
    <3>1. CASE x = a
      BY <3>1, <1>2, <1>3, <1>4, <1>5
    <3>2. CASE x # a
      BY <3>2, <2>1, <2>2, <1>3, <1>5
    <3> QED
      BY <3>1, <3>2
  <2>4. cb'[x].next # NULL => s[x] < s[cb'[x].next]
    BY <2>3, <1>1 DEF SameOrder
  <2>5. cb'[x].prev # NULL => /\ cb'[x].prev \in allocated' /\ cb'[cb'[x].prev].next = x
    BY <2>1, <2>2, <1>3, <1>4, <1>5
  <2>6. cb'[x].prev = NULL <=> callback_handlers'[cb'[x].idx] = x
    <3>0. cb'[x].idx = cb[x].idx
      BY <1>5
    <3>1. CASE cb[x].idx = f /\ a = NULL
      <4>1. callback_handlers'[f] = b
        BY <3>1, <1>3, <1>6
      <4>2. x = b <=> cb'[x].prev = NULL
        <5>1. x # b => cb'[x].prev = cb[x].prev
          BY <1>5
        <5>2. cb[x].prev # NULL
          BY <3>1, <2>1, <2>2, <1>3
        <5> QED
          BY <5>1, <5>2, <3>1, <1>5
      <4> QED
        BY <3>0, <3>1, <4>1, <4>2
    <3>2. CASE ~(cb[x].idx = f /\ a = NULL)
      <4>1. callback_handlers'[cb[x].idx] = callback_handlers[cb[x].idx]
        BY <3>2, <2>2, <1>3, <1>6
      <4>2. cb'[x].prev = NULL <=> cb[x].prev = NULL
        <5>1. CASE x = b
          <6>1. cb[x].prev = n /\ cb[x].idx = f
            BY <5>1, <2>2, <1>3
          <6>2. cb'[x].prev = a /\ n # NULL
            BY <5>1, <1>2, <1>5
          <6> QED
            BY <6>1, <6>2, <3>2
        <5>2. CASE x # b
          BY <5>2, <1>5
        <5> QED
          BY <5>1, <5>2
      <4> QED
        BY <3>0, <4>1, <4>2, <2>1
    <3> QED
      BY <3>1, <3>2
  <2> QED
    BY <2>3, <2>4, <2>5, <2>6
<1>10. Linked(s)'
  BY <1>1, <1>7, <1>8, <1>9 DEF Linked
<1> QED
  BY <1>1, <1>5, <1>10 DEF SameLists

LEMMA PlacedAlone ==
  ASSUME Memory, NEW n \in Node \ allocated, NEW p \in Nat, NEW f \in Filter,
         cb' = [cb EXCEPT ![n] = [idx |-> f, priority |-> p, next |-> NULL, prev |-> NULL]]
  PROVE  Placed(n, f, NULL, NULL)
<1> DEFINE new == [idx |-> f, priority |-> p, next |-> NULL, prev |-> NULL]
<1>1. /\ cb \in [Node -> Entry] /\ NULL \notin Node /\ allocated \subseteq Node
      /\ \A x \in Node \ allocated : cb[x] = Free
  BY NodeAssumption DEF Memory, Entry
<1>2. new \in Entry /\ new.idx = f /\ new.next = NULL /\ new.prev = NULL
  BY DEF Entry
<1> HIDE DEF new
<1>3. cb' \in [Node -> Entry] /\ cb'[n] = new /\ \A x \in Node \ {n} : cb'[x] = cb[x]
  BY <1>1, <1>2 DEF new
<1> QED
  BY <1>1, <1>2, <1>3 DEF Placed

LEMMA PlacedAfter ==
  ASSUME NEW r, Linked(r), NEW n \in Node \ allocated, NEW p \in Nat, NEW f \in Filter,
         NEW m \in allocated, LinkAfter(m, n, p, f)
  PROVE  Placed(n, f, m, cb[m].next)
<1> DEFINE b == cb[m].next
           new == [idx |-> f, priority |-> p, next |-> b, prev |-> m]
<1>1. /\ cb \in [Node -> Entry] /\ NULL \notin Node /\ allocated \subseteq Node
      /\ \A x \in Node \ allocated : cb[x] = Free
      /\ r \in [Node -> Nat]
  BY NodeAssumption DEF Linked, Memory, Entry, Numbers
<1>2. b # NULL => b \in allocated /\ r[m] < r[b]
  BY DEF Linked, Links
<1>3. new \in Entry /\ new.idx = f /\ new.next = b /\ new.prev = m /\ b # m /\ b # n
  BY <1>1, <1>2 DEF Entry
<1>4. ASSUME NEW x \in Node
      PROVE  cb'[x] = IF x = n THEN new
                      ELSE IF x = m THEN [cb[x] EXCEPT !.next = n]
                      ELSE IF x = b THEN [cb[x] EXCEPT !.prev = n]
                      ELSE cb[x]
  BY DEF LinkAfter
<1>5. cb' = [x \in Node |-> cb'[x]]
  BY DEF LinkAfter
<1> HIDE DEF new
<1>6. ASSUME NEW x \in Node
      PROVE  /\ [cb[x] EXCEPT !.next = n] \in Entry /\ [cb[x] EXCEPT !.prev = n] \in Entry
             /\ [cb[x] EXCEPT !.next = n].idx = cb[x].idx
             /\ [cb[x] EXCEPT !.next = n].prev = cb[x].prev
             /\ [cb[x] EXCEPT !.next = n].next = n
             /\ [cb[x] EXCEPT !.prev = n].idx = cb[x].idx
             /\ [cb[x] EXCEPT !.prev = n].next = cb[x].next
             /\ [cb[x] EXCEPT !.prev = n].prev = n
  BY <1>1 DEF Entry
<1>7. cb' \in [Node -> Entry]
  <2>1. \A x \in Node : cb'[x] \in Entry
    BY <1>1, <1>3, <1>4, <1>6
  <2> QED
    BY <2>1, <1>5
<1>8. ASSUME NEW x \in allocated
      PROVE  /\ cb'[x].idx = cb[x].idx
             /\ cb'[x].next = IF x = m THEN n ELSE cb[x].next
             /\ cb'[x].prev = IF x = b THEN n ELSE cb[x].prev
  <2>1. x \in Node /\ x # n /\ x # NULL
    BY <1>1
  <2>2. CASE x = m
    BY <2>1, <2>2, <1>3, <1>4, <1>6
  <2>3. CASE x = b
    <3>1. cb'[x] = [cb[x] EXCEPT !.prev = n] /\ x # m
      BY <2>1, <2>3, <1>3, <1>4
    <3> QED
      BY <2>1, <2>3, <3>1, <1>6
  <2>4. CASE x # m /\ x # b
    BY <2>1, <2>4, <1>4
  <2> QED
    BY <2>2, <2>3, <2>4
<1>9. ASSUME NEW x \in Node \ (allocated \cup {n}) PROVE cb'[x] = Free
  <2>1. x # n /\ x # m /\ x # b
    BY <1>1, <1>2
  <2> QED
    BY <2>1, <1>1, <1>4
<1> QED
  BY <1>3, <1>4, <1>7, <1>8, <1>9 DEF Placed

LEMMA PlacedBefore ==
  ASSUME NEW r, Linked(r), NEW n \in Node \ allocated, NEW p \in Nat, NEW f \in Filter,
         NEW m \in allocated, LinkBefore(m, n, p, f)
  PROVE  Placed(n, f, cb[m].prev, m)
<1> DEFINE a == cb[m].prev
           new == [idx |-> f, priority |-> p, next |-> m, prev |-> a]
<1>1. /\ cb \in [Node -> Entry] /\ NULL \notin Node /\ allocated \subseteq Node
      /\ \A x \in Node \ allocated : cb[x] = Free
      /\ r \in [Node -> Nat]
  BY NodeAssumption DEF Linked, Memory, Entry, Numbers
<1>2. a # NULL => a \in allocated /\ r[a] < r[m]
  BY PrevBelow
<1>3. new \in Entry /\ new.idx = f /\ new.next = m /\ new.prev = a /\ a # m /\ a # n
  BY <1>1, <1>2 DEF Entry
<1>4. ASSUME NEW x \in Node
      PROVE  cb'[x] = IF x = n THEN new
                      ELSE IF x = m THEN [cb[x] EXCEPT !.prev = n]
                      ELSE IF x = a THEN [cb[x] EXCEPT !.next = n]
                      ELSE cb[x]
  BY DEF LinkBefore
<1>5. cb' = [x \in Node |-> cb'[x]]
  BY DEF LinkBefore
<1> HIDE DEF new
<1>6. ASSUME NEW x \in Node
      PROVE  /\ [cb[x] EXCEPT !.next = n] \in Entry /\ [cb[x] EXCEPT !.prev = n] \in Entry
             /\ [cb[x] EXCEPT !.next = n].idx = cb[x].idx
             /\ [cb[x] EXCEPT !.next = n].prev = cb[x].prev
             /\ [cb[x] EXCEPT !.next = n].next = n
             /\ [cb[x] EXCEPT !.prev = n].idx = cb[x].idx
             /\ [cb[x] EXCEPT !.prev = n].next = cb[x].next
             /\ [cb[x] EXCEPT !.prev = n].prev = n
  BY <1>1 DEF Entry
<1>7. cb' \in [Node -> Entry]
  <2>1. \A x \in Node : cb'[x] \in Entry
    BY <1>1, <1>3, <1>4, <1>6
  <2> QED
    BY <2>1, <1>5
<1>8. ASSUME NEW x \in allocated
      PROVE  /\ cb'[x].idx = cb[x].idx
             /\ cb'[x].next = IF x = a THEN n ELSE cb[x].next
             /\ cb'[x].prev = IF x = m THEN n ELSE cb[x].prev
  <2>1. x \in Node /\ x # n /\ x # NULL
    BY <1>1
  <2>2. CASE x = m
    BY <2>1, <2>2, <1>3, <1>4, <1>6
  <2>3. CASE x = a
    <3>1. cb'[x] = [cb[x] EXCEPT !.next = n] /\ x # m
      BY <2>1, <2>3, <1>3, <1>4
    <3> QED
      BY <2>1, <2>3, <3>1, <1>6
  <2>4. CASE x # m /\ x # a
    BY <2>1, <2>4, <1>4
  <2> QED
    BY <2>2, <2>3, <2>4
<1>9. ASSUME NEW x \in Node \ (allocated \cup {n}) PROVE cb'[x] = Free
  <2>1. x # n /\ x # m /\ x # a
    BY <1>1, <1>2
  <2> QED
    BY <2>1, <1>1, <1>4
<1> QED
  BY <1>3, <1>4, <1>7, <1>8, <1>9 DEF Placed

\* Wherever the search ends, the new entry comes to stand in its list.
LEMMA InsertKeeps ==
  ASSUME NEW r, Linked(r), num_callbacks \in Nat,
         NEW n \in Node \ allocated, NEW p \in Nat, NEW f \in Filter, Insert(n, p, f),
         allocated' = allocated \cup {n}, num_callbacks' = num_callbacks + 1,
         reg' \in [Client -> [flags : SUBSET Filter, priority : Nat, by : {"app", "handler"}]]
  PROVE  (\E s : Linked(s)' /\ SameOrder(r, s, allocated)) /\ SameLists(allocated)
<1> DEFINE h == callback_handlers[f]
           m == Seek(p)[h]
<1>1. /\ r \in [Node -> Nat] /\ allocated \subseteq Node /\ NULL \notin Node
      /\ callback_handlers \in [Filter -> Node \cup {NULL}]
      /\ h # NULL => h \in allocated /\ cb[h].idx = f
      /\ \A x \in allocated : r[x] < num_callbacks
  BY NodeAssumption DEF Linked, Memory, Heads, Numbers
<1>2. ASSUME NEW a \in allocated \cup {NULL}, NEW b \in allocated \cup {NULL},
             NEW k \in 0 .. num_callbacks,
             Stands(r, f, k, a, b),
             Placed(n, f, a, b),
             callback_handlers' = [callback_handlers EXCEPT ![f] = IF a = NULL THEN n ELSE @]
      PROVE  (\E s : Linked(s)' /\ SameOrder(r, s, allocated)) /\ SameLists(allocated)
  <2>1. Memory'
    <3>1. callback_handlers' \in [Filter -> Node \cup {NULL}]
      BY <1>1, <1>2
    <3> QED
      BY <1>1, <1>2, <3>1 DEF Placed, Memory, Entry
  <2>2. SameLists(allocated)
    BY <1>2 DEF Placed, SameLists
  <2>4. \E s : Linked(s)' /\ SameOrder(r, s, allocated)
    BY <2>1, <1>2, PlaceBetween
  <2> QED
    BY <2>2, <2>4
<1>3. CASE h = NULL
  <2>1. /\ cb' = [cb EXCEPT ![n] = [idx |-> f, priority |-> p, next |-> NULL, prev |-> NULL]]
        /\ callback_handlers' = [callback_handlers EXCEPT ![f] = n]
    BY <1>3 DEF Insert
  <2>2. Placed(n, f, NULL, NULL)
    BY <2>1, PlacedAlone DEF Linked
  <2>3. Stands(r, f, 0, NULL, NULL) /\ 0 \in 0 .. num_callbacks
    BY <1>3 DEF Stands
  <2>4. callback_handlers' = [callback_handlers EXCEPT ![f] = IF NULL = NULL THEN n ELSE @]
    BY <2>1
  <2> QED
    BY <2>2, <2>3, <2>4, <1>2
<1>4. ASSUME h # NULL PROVE m \in allocated /\ cb[m].idx = f
  BY <1>1, <1>4, SeekEnds
<1>5. CASE h # NULL /\ cb[m].priority < p
  <2> DEFINE a == cb[m].prev
  <2>1. /\ LinkBefore(m, n, p, f)
        /\ callback_handlers' = [callback_handlers EXCEPT ![f] = IF h = m THEN n ELSE h]
    BY <1>5 DEF Insert
  <2>2. m \in allocated /\ cb[m].idx = f /\ r[m] \in 0 .. num_callbacks /\ m # NULL
    BY <1>1, <1>4, <1>5
  <2> HIDE DEF m
  <2>3. Placed(n, f, a, m)
    BY <2>1, <2>2, PlacedBefore
  <2>4. /\ a \in allocated \cup {NULL}
        /\ a # NULL => cb[a].next = m /\ cb[a].idx = f /\ r[a] < r[m]
        /\ a = NULL <=> h = m
    <3>1. a # NULL => /\ a \in allocated /\ cb[a].next = m /\ cb[a].idx = f
                      /\ r[a] < r[m]
      BY <2>2, PrevBelow
    <3>2. a = NULL <=> h = m
      BY <2>2 DEF Linked, Links
    <3> QED
      BY <3>1, <3>2
  <2>5. callback_handlers' = [callback_handlers EXCEPT ![f] = IF a = NULL THEN n ELSE @]
    BY <2>1, <2>4
  <2>6. Stands(r, f, r[m], a, m)
    BY <1>1, <2>2, <2>4 DEF Stands
  <2> QED
    BY <2>2, <2>3, <2>4, <2>5, <2>6, <1>2
<1>6. CASE h # NULL /\ ~(cb[m].priority < p)
  <2> DEFINE b == cb[m].next
  <2>1. LinkAfter(m, n, p, f) /\ callback_handlers' = callback_handlers
    BY <1>6 DEF Insert
  <2>2. /\ m \in allocated /\ cb[m].idx = f /\ r[m] \in Nat /\ m # NULL
        /\ r[m] + 1 \in 0 .. num_callbacks /\ r[m] < r[m] + 1
    BY <1>1, <1>4, <1>6
  <2> HIDE DEF m
  <2>3. Placed(n, f, m, b)
    BY <2>1, <2>2, PlacedAfter
  <2>4. /\ b \in allocated \cup {NULL}
        /\ b # NULL => cb[b].prev = m /\ cb[b].idx = f /\ r[m] + 1 <= r[b]
    <3>1. b # NULL => /\ b \in allocated /\ cb[b].prev = m /\ cb[b].idx = f
                      /\ r[m] < r[b]
      BY <2>2 DEF Linked, Links
    <3> QED
      BY <3>1, <2>2, <1>1
  <2>5. callback_handlers' = [callback_handlers EXCEPT ![f] = IF m = NULL THEN n ELSE @]
    BY <2>1, <2>2, <1>1
  <2>6. Stands(r, f, r[m] + 1, m, b)
    BY <2>2, <2>4 DEF Stands
  <2> QED
    BY <2>2, <2>3, <2>4, <2>5, <2>6, <1>2
<1> QED
  BY <1>3, <1>5, <1>6

-----------------------------------------------------------------------------
(* The steps.                                                               *)

RegType == [flags : SUBSET Filter, priority : Nat, by : {"app", "handler"}]

LEMMA FilterNames == \A i \in 1 .. 8 : Filters[i] \in Filter
<1>1. \A i \in 1 .. 8 : i \in DOMAIN Filters
  BY DEF Filters
<1> QED
  BY <1>1 DEF Filter

LEMMA FiltersOf ==
  "ECP" \in Filter /\ "LLC" \in Filter /\ "LLDP" \in Filter /\ "UDP" \in Filter /\
  "TCP" \in Filter /\ "IP" \in Filter /\ "ALL" \in Filter /\ "TRAP" \in Filter
<1>1. /\ Filters[1] = "ECP" /\ Filters[2] = "LLC" /\ Filters[3] = "LLDP" /\ Filters[4] = "UDP"
      /\ Filters[5] = "TCP" /\ Filters[6] = "IP" /\ Filters[7] = "ALL" /\ Filters[8] = "TRAP"
  BY DEF Filters
<1> QED
  BY <1>1, FilterNames

\* The loop over the flags finds a list.
LEMMA IdxIsFilter ==
  ASSUME NEW flags \in SUBSET Filter, flags # {}
  PROVE  CallbackToIdx(flags) \in Filter
<1> DEFINE Here(i) == i \in DOMAIN Filters /\ Filters[i] \in flags
           First(i) == Here(i) /\ \A j \in 1 .. i - 1 : Filters[j] \notin flags
           T == {i \in 1 .. 8 : Filters[i] \in flags}
<1>1. DOMAIN Filters = 1 .. 8
  BY DEF Filters
<1>2. PICK f \in DOMAIN Filters : Filters[f] \in flags
  BY DEF Filter
<1>3. PICK m \in T : \A k \in T : m <= k
  <2>1. T \in SUBSET Nat /\ T # {}
    BY <1>1, <1>2
  <2> HIDE DEF T
  <2> QED
    BY <2>1, LeastNumber
<1>4. First(m)
  <2>1. ASSUME NEW j \in 1 .. m - 1 PROVE Filters[j] \notin flags
    <3>1. j \in 1 .. 8 /\ ~(m <= j)
      BY <1>3
    <3> QED
      BY <3>1, <1>3
  <2> QED
    BY <2>1, <1>1, <1>3
<1> DEFINE c == CHOOSE i \in DOMAIN Filters :
                   Filters[i] \in flags /\ \A j \in 1 .. i - 1 : Filters[j] \notin flags
<1>5. c \in DOMAIN Filters
  BY <1>1, <1>3, <1>4
<1>6. CallbackToIdx(flags) = Filters[c]
  BY DEF CallbackToIdx
<1> HIDE DEF c
<1> QED
  BY <1>1, <1>5, <1>6, FilterNames

LEMMA ListsType == \A k \in Packet : Lists(k) \in Seq(Filter)
<1> SUFFICES ASSUME NEW k \in Packet PROVE Lists(k) \in Seq(Filter)
  OBVIOUS
<1>1. k.kind \in Kind
  BY PacketAssumption
<1>2. /\ <<"TRAP", "ALL">> \in Seq(Filter) /\ <<"LLC">> \in Seq(Filter) /\ <<>> \in Seq(Filter)
      /\ <<"ECP", "ALL">> \in Seq(Filter) /\ <<"LLDP", "ALL">> \in Seq(Filter)
      /\ <<"UDP", "IP", "ALL">> \in Seq(Filter) /\ <<"TCP", "IP", "ALL">> \in Seq(Filter)
      /\ <<"IP", "ALL">> \in Seq(Filter) /\ <<"ALL">> \in Seq(Filter)
  BY FiltersOf
<1> DEFINE first == IF k.llc THEN <<"LLC">> ELSE <<>>
           then  == CASE k.kind = "ecp"   -> <<"ECP", "ALL">>
                      [] k.kind = "lldp"  -> <<"LLDP", "ALL">>
                      [] k.kind = "udp"   -> <<"UDP", "IP", "ALL">>
                      [] k.kind = "tcp"   -> <<"TCP", "IP", "ALL">>
                      [] k.kind = "ip"    -> <<"IP", "ALL">>
                      [] k.kind = "other" -> <<"ALL">>
<1>3. first \in Seq(Filter)
  BY <1>2
<1>4. then \in Seq(Filter)
  BY <1>1, <1>2 DEF Kind
<1>5. Lists(k) = IF k.trap THEN <<"TRAP", "ALL">> ELSE first \o then
  BY DEF Lists
<1> HIDE DEF first, then
<1>6. first \o then \in Seq(Filter)
  BY <1>3, <1>4, ConcatProperties
<1> QED
  BY <1>2, <1>5, <1>6

WalkRecord(w) == w = [lists |-> w.lists, cbptr |-> w.cbptr, gone |-> w.gone,
                      asked |-> w.asked, stayed |-> w.stayed, pc |-> w.pc]

FieldsAt(x, w, n) ==
    /\ x.lists = w.lists /\ x.stayed = w.stayed /\ x.cbptr = n /\ x.gone = FALSE
    /\ x.asked = IF n = NULL THEN w.asked ELSE w.asked \cup {n}
    /\ x.pc = IF n = NULL THEN "end" ELSE "handler"

LEMMA AtFields == ASSUME NEW w, WalkRecord(w), NEW n PROVE FieldsAt(At(n, w), w, n)
<1> DEFINE asked == IF n = NULL THEN w.asked ELSE w.asked \cup {n}
<1>1. At(n, w) = [w EXCEPT !.cbptr = n, !.gone = FALSE, !.asked = asked,
                           !.pc = IF n = NULL THEN "end" ELSE "handler"]
  BY DEF At
<1>2. asked = IF n = NULL THEN w.asked ELSE w.asked \cup {n}
  OBVIOUS
<1> HIDE DEF asked
<1> QED
  BY <1>1, <1>2 DEF WalkRecord, FieldsAt

\* Nothing of the lists changes, and the walk is not within a list.
LEMMA WalkFrame ==
  ASSUME WalkInv, UNCHANGED <<cb, allocated, callback_handlers, num_callbacks>>,
         reg' \in [Client -> RegType],
         rx' = rx \/ (rx'.pc \notin {"handler", "end"} /\ rx'.lists \in Seq(Filter))
  PROVE  WalkInv'
<1>1. PICK r : Linked(r) /\ Walked(r)
  BY DEF WalkInv
<1>2. Linked(r)'
  BY <1>1 DEF Linked, Memory, Links, Heads, RegType
<1>3. Walked(r)'
  BY <1>1 DEF Walked, InHandler
<1> QED
  BY <1>2, <1>3 DEF WalkInv

LEMMA WalkAdd ==
  ASSUME DetachInv, WalkInv, NEW c \in Client, AddCallbackHandler(c)
  PROVE  WalkInv'
<1> DEFINE f == CallbackToIdx(reg[c].flags)
<1>1. PICK r : Linked(r) /\ Walked(r)
  BY DEF WalkInv
<1>2. reg \in [Client -> RegType] /\ num_callbacks \in Nat /\ reg[c].flags # {} /\ rx' = rx
  BY <1>1, FiniteEntries DEF Linked, Memory, RegType, DetachInv, AddCallbackHandler
<1>3. f \in Filter /\ reg[c].priority \in Nat
  BY <1>2, IdxIsFilter DEF RegType
<1>4. reg' \in [Client -> RegType]
  <2> DEFINE left == IF reg[c].flags = {f} THEN Idle ELSE [reg[c] EXCEPT !.flags = @ \ {f}]
  <2>1. reg' = [reg EXCEPT ![c] = left]
    BY DEF AddCallbackHandler
  <2> HIDE DEF f
  <2>2. Idle \in RegType
    BY DEF Idle, RegType
  <2>3. [reg[c] EXCEPT !.flags = @ \ {f}] \in RegType
    BY <1>2 DEF RegType
  <2>4. left \in RegType
    BY <2>2, <2>3
  <2> HIDE DEF left
  <2> QED
    BY <2>1, <2>4, <1>2
<1>5. CASE UNCHANGED <<cb, allocated, callback_handlers, num_callbacks>>
  BY <1>2, <1>4, <1>5, WalkFrame
<1>6. ASSUME NEW n \in Node \ allocated, allocated' = allocated \cup {n},
             Insert(n, reg[c].priority, f), num_callbacks' = num_callbacks + 1
      PROVE  WalkInv'
  <2>1. (\E s : Linked(s)' /\ SameOrder(r, s, allocated)) /\ SameLists(allocated)
    <3> HIDE DEF f
    <3> QED
      BY <1>1, <1>2, <1>3, <1>4, <1>6, InsertKeeps DEF RegType
  <2>2. PICK s : Linked(s)' /\ SameOrder(r, s, allocated)
    BY <2>1
  <2>3. \A x \in allocated : r[x] \in Nat /\ s[x] \in Nat
    BY <1>1, <1>6, <2>2 DEF Linked, Numbers, Memory
  <2>4. Walked(s)'
    BY <1>1, <1>2, <1>6, <2>1, <2>2, <2>3 DEF Walked, InHandler, SameLists, SameOrder
  <2> QED
    BY <2>2, <2>4 DEF WalkInv
<1> QED
  BY <1>5, <1>6 DEF AddCallbackHandler

LEMMA WalkUnregister ==
  ASSUME DetachInv, WalkInv, NEW c \in Client, Unregister(c)
  PROVE  WalkInv'
<1> DEFINE n == handle[c]
<1>1. PICK r : Linked(r) /\ Walked(r)
  BY DEF WalkInv
<1>2. /\ n # NULL /\ num_callbacks' = num_callbacks - 1 /\ allocated' = allocated \ {n}
      /\ reg' = reg /\ Unlink(n)
      /\ callback_handlers' = [callback_handlers EXCEPT
            ![cb[n].idx] = IF @ = n THEN cb[n].next ELSE @]
      /\ rx' = [rx EXCEPT !.gone = @ \/ (InHandler /\ rx.cbptr = n),
                          !.asked = @ \ {n}, !.stayed = @ \ {n}]
  BY DEF Unregister
<1>3. n \in allocated /\ num_callbacks \in Nat
  BY <1>2, FiniteEntries DEF DetachInv, CountInv
<1>4. /\ rx'.lists = rx.lists /\ rx'.cbptr = rx.cbptr /\ rx'.pc = rx.pc
      /\ rx'.gone = (rx.gone \/ (InHandler /\ rx.cbptr = n))
      /\ rx'.asked = rx.asked \ {n} /\ rx'.stayed = rx.stayed \ {n}
  <2>1. rx = [lists |-> rx.lists, cbptr |-> rx.cbptr, gone |-> rx.gone,
              asked |-> rx.asked, stayed |-> rx.stayed, pc |-> rx.pc]
    BY DEF DetachInv, LifeInv
  <2> HIDE DEF n
  <2> QED
    BY <1>2, <2>1
<1> HIDE DEF n
<1>5. (\E s : Linked(s)' /\ SameOrder(r, s, allocated')) /\ SameLists(allocated')
  BY <1>1, <1>2, <1>3, UnlinkKeeps
<1>6. PICK s : Linked(s)' /\ SameOrder(r, s, allocated')
  BY <1>5
<1>7. \A x \in allocated' : r[x] \in Nat /\ s[x] \in Nat
  BY <1>1, <1>2, <1>6 DEF Linked, Numbers, Memory
<1>8. CASE InHandler' /\ ~rx'.gone
  <2>1. InHandler /\ ~rx.gone /\ rx.cbptr # n
    BY <1>4, <1>8 DEF InHandler
  <2>2. rx'.cbptr \in allocated'
    BY <2>1, <1>1, <1>2, <1>4 DEF Walked
  <2>3. ASSUME NEW x \in rx'.stayed
        PROVE  /\ x \in allocated' /\ cb'[x].idx = cb'[rx'.cbptr].idx
               /\ s[x] <= s[rx'.cbptr] => x \in rx'.asked
    <3>1. x \in rx.stayed /\ x # n
      BY <1>4
    <3>2. x \in allocated' /\ cb[x].idx = cb[rx.cbptr].idx
      BY <3>1, <2>1, <1>1, <1>2 DEF Walked
    <3>3. cb'[x].idx = cb'[rx'.cbptr].idx
      BY <3>2, <2>2, <1>4, <1>5 DEF SameLists
    <3>4. s[x] <= s[rx'.cbptr] => r[x] <= r[rx.cbptr]
      BY <3>2, <2>2, <1>4, <1>6, <1>7 DEF SameOrder
    <3>5. r[x] <= r[rx.cbptr] => x \in rx.asked
      BY <3>1, <2>1, <1>1 DEF Walked
    <3> QED
      BY <3>1, <3>2, <3>3, <3>4, <3>5, <1>4
  <2>4. Walked(s)'
    BY <1>1, <1>4, <1>8, <2>2, <2>3 DEF Walked, InHandler
  <2> QED
    BY <2>4, <1>6 DEF WalkInv
<1>9. CASE ~(InHandler' /\ ~rx'.gone)
  <2>1. Walked(s)'
    BY <1>1, <1>4, <1>9 DEF Walked
  <2> QED
    BY <2>1, <1>6 DEF WalkInv
<1> QED
  BY <1>8, <1>9

\* The walk begins at the head, before which there is nothing.
LEMMA WalkBegins ==
  ASSUME DetachInv, WalkInv, WalkList
  PROVE  WalkInv'
<1> DEFINE f == Head(rx.lists)
           h == callback_handlers[f]
           here == {n \in allocated : cb[n].idx = f}
           w == [rx EXCEPT !.asked = {}, !.stayed = here]
<1>1. PICK r : Linked(r) /\ Walked(r)
  BY DEF WalkInv
<1>2. rx' = At(h, w) /\ rx.lists # <<>> /\ UNCHANGED <<lists, life>>
  BY DEF WalkList
<1>3. rx = [lists |-> rx.lists, cbptr |-> rx.cbptr, gone |-> rx.gone,
            asked |-> rx.asked, stayed |-> rx.stayed, pc |-> rx.pc]
  BY DEF DetachInv, LifeInv
<1>4. f \in Filter /\ rx.lists \in Seq(Filter)
  BY <1>1, <1>2, HeadTailProperties DEF Walked
<1>5. w = [lists |-> rx.lists, cbptr |-> rx.cbptr, gone |-> rx.gone,
           asked |-> {}, stayed |-> here, pc |-> rx.pc]
  <2> HIDE DEF here
  <2> DEFINE v == [rx EXCEPT !.asked = {}]
  <2>1. v = [lists |-> rx.lists, cbptr |-> rx.cbptr, gone |-> rx.gone,
             asked |-> {}, stayed |-> rx.stayed, pc |-> rx.pc]
    BY <1>3
  <2>2. w = [v EXCEPT !.stayed = here]
    OBVIOUS
  <2> HIDE DEF v
  <2> QED
    BY <2>1, <2>2
<1> HIDE DEF w, here
<1>6. WalkRecord(w) /\ w.lists = rx.lists /\ w.asked = {} /\ w.stayed = here
  BY <1>5 DEF WalkRecord
<1>7. /\ rx'.lists \in Seq(Filter) /\ rx'.lists # <<>> /\ rx'.stayed = here /\ rx'.cbptr = h
      /\ rx'.asked = IF h = NULL THEN {} ELSE {h}
      /\ rx'.pc = IF h = NULL THEN "end" ELSE "handler"
  <2>1. /\ rx'.lists = w.lists /\ rx'.stayed = w.stayed /\ rx'.cbptr = h
        /\ rx'.asked = IF h = NULL THEN w.asked ELSE w.asked \cup {h}
        /\ rx'.pc = IF h = NULL THEN "end" ELSE "handler"
    <3> HIDE DEF h
    <3> QED
      <4>1. FieldsAt(rx', w, h)
        BY <1>2, <1>6, AtFields
      <4> QED
        BY <4>1 DEF FieldsAt
  <2> QED
    BY <2>1, <1>2, <1>4, <1>6
<1>8. \A n \in here : n \in allocated /\ cb[n].idx = f /\ h # NULL /\ r[h] <= r[n]
  BY <1>1, HeadFirst DEF here
<1>9. Linked(r)'
  BY <1>1, <1>2 DEF Linked, Memory, Links, Heads, lists
<1>10. Walked(r)'
  <2>1. CASE h = NULL
    BY <2>1, <1>7, <1>8 DEF Walked, InHandler
  <2>2. CASE h # NULL
    <3>1. h \in allocated /\ cb[h].idx = f
      BY <2>2, <1>1, <1>4 DEF Linked, Heads
    <3>2. \A n \in here : r[n] <= r[h] => n = h
      <4>1. /\ r \in [Node -> Nat] /\ allocated \subseteq Node
            /\ \A m, n \in allocated : r[m] = r[n] => m = n
        BY <1>1 DEF Linked, Numbers, Memory
      <4> HIDE DEF h
      <4>2. ASSUME NEW n \in here, r[n] <= r[h] PROVE n = h
        <5>1. n \in allocated /\ r[h] <= r[n] /\ r[h] \in Nat /\ r[n] \in Nat
          BY <4>1, <3>1, <1>8
        <5>2. r[n] = r[h]
          BY <5>1, <4>2
        <5> QED
          BY <5>1, <5>2, <4>1, <3>1
      <4> QED
        BY <4>2
    <3>3. allocated' = allocated /\ cb' = cb
      BY <1>2 DEF lists
    <3> QED
      BY <2>2, <3>1, <3>2, <3>3, <1>7, <1>8 DEF Walked, InHandler
  <2> QED
    BY <2>1, <2>2
<1> QED
  BY <1>9, <1>10 DEF WalkInv

\* It goes to the next entry, and there is nothing between; or ends behind the last.
LEMMA WalkGoesOn ==
  ASSUME DetachInv, WalkInv, HandlerReturns
  PROVE  WalkInv'
<1> DEFINE q == cb[rx.cbptr].next
<1>1. PICK r : Linked(r) /\ Walked(r)
  BY DEF WalkInv
<1>2. InHandler /\ UNCHANGED <<lists, life>>
  BY DEF HandlerReturns
<1>3. CASE rx' = NoWalk
  <2>1. rx'.pc \notin {"handler", "end"} /\ rx'.lists \in Seq(Filter)
    BY <1>3 DEF NoWalk
  <2>2. reg' \in [Client -> RegType]
    BY <1>1, <1>2 DEF Linked, Memory, RegType, lists
  <2> QED
    BY <2>1, <2>2, <1>2, WalkFrame DEF lists
<1>4. CASE ~rx.gone /\ rx' = At(q, rx)
  <2>1. WalkRecord(rx)
    BY DEF DetachInv, LifeInv, WalkRecord
  <2>2. /\ rx'.lists = rx.lists /\ rx'.stayed = rx.stayed /\ rx'.cbptr = q
        /\ rx'.asked = IF q = NULL THEN rx.asked ELSE rx.asked \cup {q}
        /\ rx'.pc = IF q = NULL THEN "end" ELSE "handler"
    <3> HIDE DEF q
    <3> QED
      <4>1. FieldsAt(rx', rx, q)
        BY <2>1, <1>4, AtFields
      <4> QED
        BY <4>1 DEF FieldsAt
  <2>3. /\ rx.cbptr \in allocated
        /\ \A n \in rx.stayed : n \in allocated /\ cb[n].idx = cb[rx.cbptr].idx
        /\ \A n \in rx.stayed : r[n] <= r[rx.cbptr] => n \in rx.asked
    BY <1>1, <1>2, <1>4 DEF Walked
  <2>4. \A n \in rx.stayed : r[rx.cbptr] < r[n] => q # NULL /\ r[q] <= r[n]
    BY <2>3, <1>1, NothingBetween
  <2>5. q # NULL => q \in allocated /\ cb[q].idx = cb[rx.cbptr].idx
    BY <2>3, <1>1 DEF Linked, Links
  <2>6. /\ r \in [Node -> Nat] /\ allocated \subseteq Node
        /\ \A m, n \in allocated : r[m] = r[n] => m = n
    BY <1>1 DEF Linked, Numbers, Memory
  <2>7. Linked(r)'
    BY <1>1, <1>2 DEF Linked, Memory, Links, Heads, lists
  <2>8. allocated' = allocated /\ cb' = cb
    BY <1>2 DEF lists
  <2>9. Walked(r)'
    <3>1. CASE q = NULL
      <4>1. rx.stayed \subseteq rx.asked
        BY <3>1, <2>3, <2>4, <2>6
      <4> QED
        BY <3>1, <4>1, <2>2, <1>1, <1>2 DEF Walked, InHandler
    <3>2. CASE q # NULL
      <4>1. ASSUME NEW n \in rx.stayed, r[n] <= r[q] PROVE n \in rx.asked \cup {q}
        <5>1. CASE r[rx.cbptr] < r[n]
          BY <5>1, <4>1, <3>2, <2>3, <2>4, <2>5, <2>6
        <5>2. CASE ~(r[rx.cbptr] < r[n])
          BY <5>2, <2>3, <2>6
        <5> QED
          BY <5>1, <5>2
      <4>2. \A n \in rx.stayed : n \in allocated /\ cb[n].idx = cb[q].idx
        BY <3>2, <2>3, <2>5
      <4>3. rx'.lists \in Seq(Filter) /\ rx'.lists # <<>>
        BY <2>2, <1>1, <1>2 DEF Walked, InHandler
      <4> QED
        BY <3>2, <4>1, <4>2, <4>3, <2>2, <2>5, <2>8 DEF Walked, InHandler
    <3> QED
      BY <3>1, <3>2
  <2> QED
    BY <2>7, <2>9 DEF WalkInv
<1> QED
  BY <1>3, <1>4 DEF HandlerReturns

ListsInv == DetachInv /\ WalkInv

LEMMA ListsInit == Init => ListsInv
<1> SUFFICES ASSUME Init PROVE ListsInv
  OBVIOUS
<1> DEFINE r == [n \in Node |-> 0]
<1>1. /\ cb = [n \in Node |-> Free] /\ allocated = {}
      /\ callback_handlers = [f \in Filter |-> NULL] /\ num_callbacks = 0
      /\ reg = [c \in Client |-> Idle] /\ rx = NoTask
  BY DEF Init
<1>2. Memory
  <2>1. Free \in Entry /\ Idle \in RegType
    BY FiltersOf DEF Free, Idle, Entry, RegType
  <2> QED
    BY <1>1, <2>1 DEF Memory, Entry, RegType
<1>3. Linked(r)
  BY <1>1, <1>2 DEF Linked, Numbers, Links, Heads
<1>4. Walked(r)
  BY <1>1 DEF Walked, InHandler, NoTask, NoWalk
<1> QED
  BY <1>3, <1>4, DetachInit DEF ListsInv, WalkInv

LEMMA ListsNext == ASSUME ListsInv, [Next]_vars PROVE ListsInv'
<1>1. DetachInv' /\ DetachInv /\ WalkInv
  BY DetachNext DEF ListsInv
<1>2. /\ reg \in [Client -> RegType] /\ rx.lists \in Seq(Filter)
      /\ rx.pc = "end" => rx.lists # <<>>
  BY <1>1 DEF WalkInv, Linked, Memory, Walked, RegType
<1> SUFFICES WalkInv'
  BY <1>1 DEF ListsInv
<1>3. ASSUME UNCHANGED lists,
             rx' = rx \/ (rx'.pc \notin {"handler", "end"} /\ rx'.lists \in Seq(Filter))
      PROVE  WalkInv'
  BY <1>1, <1>2, <1>3, WalkFrame DEF lists
<1>4. ASSUME NEW c \in Client, Register(c) PROVE WalkInv'
  <2>1. PICK flags \in FlagSets, p \in Priority :
          reg' = [reg EXCEPT ![c] = [flags |-> flags, priority |-> p, by |-> Context]]
    BY <1>4 DEF Register
  <2>2. [flags |-> flags, priority |-> p, by |-> Context] \in RegType
    BY FlagAssumption, PriorityAssumption DEF RegType, Context
  <2> DEFINE new == [flags |-> flags, priority |-> p, by |-> Context]
  <2> HIDE DEF new
  <2>3. reg' \in [Client -> RegType]
    BY <2>1, <2>2, <1>2 DEF new
  <2> QED
    BY <2>3, <1>1, <1>4, WalkFrame DEF Register
<1>5. ASSUME NEW c \in Client, AddCallbackHandler(c) PROVE WalkInv'
  BY <1>1, <1>5, WalkAdd
<1>6. ASSUME NEW c \in Client, Unregister(c) PROVE WalkInv'
  BY <1>1, <1>6, WalkUnregister
<1>7. CASE PktioInit
  <2>1. rx' = rx \/ rx' = [NoWalk EXCEPT !.pc = "created"]
    BY <1>7 DEF PktioInit
  <2> QED
    BY <2>1, <1>3, <1>7 DEF PktioInit, NoWalk
<1>8. CASE TaskStart \/ Detach \/ TaskStop
  <2>1. CASE TaskStart
    BY <2>1, <1>3 DEF TaskStart, NoWalk
  <2>2. CASE Detach
    BY <2>2, <1>3 DEF Detach
  <2>3. CASE TaskStop
    BY <2>3, <1>3 DEF TaskStop, NoTask, NoWalk
  <2> QED
    BY <2>1, <2>2, <2>3, <1>8
<1>9. CASE DetachEnds
  <2>1. /\ allocated = {} /\ rx.pc = "none"
        /\ UNCHANGED <<cb, allocated, reg, rx>> /\ num_callbacks' = 0
        /\ callback_handlers' = [f \in Filter |-> NULL]
    BY <1>1, <1>9 DEF DetachEnds, Cleared, DetachInv, LifeInv
  <2>2. PICK r : Linked(r) /\ Walked(r)
    BY <1>1 DEF WalkInv
  <2>3. Linked(r)'
    BY <2>1, <2>2 DEF Linked, Memory, Numbers, Links, Heads
  <2>4. Walked(r)'
    BY <2>1, <2>2 DEF Walked, InHandler
  <2> QED
    BY <2>3, <2>4 DEF WalkInv
<1>10. CASE Receive
  <2>1. PICK k \in Packet : rx' = [NoWalk EXCEPT !.lists = Lists(k), !.pc = "list"]
    BY <1>10 DEF Receive
  <2> DEFINE q == Lists(k)
  <2>2. q \in Seq(Filter)
    BY ListsType
  <2> HIDE DEF q
  <2>3. rx'.pc = "list" /\ rx'.lists = q
    BY <2>1 DEF NoWalk, q
  <2> QED
    BY <2>2, <2>3, <1>3, <1>10 DEF Receive
<1>11. CASE WalkList
  BY <1>1, <1>11, WalkBegins
<1>12. CASE HandlerReturns
  BY <1>1, <1>12, WalkGoesOn
<1>13. CASE WalkEnds
  <2> DEFINE rest == Tail(rx.lists)
  <2>1. CASE rx' = NoWalk
    BY <2>1, <1>3, <1>13 DEF WalkEnds, NoWalk
  <2>2. CASE rx' # NoWalk
    <3>1. rx' = [NoWalk EXCEPT !.lists = rest, !.pc = "list"]
      BY <2>2, <1>13 DEF WalkEnds
    <3>2. rest \in Seq(Filter)
      BY <1>2, <1>13, HeadTailProperties DEF WalkEnds
    <3> HIDE DEF rest
    <3>3. rx'.pc = "list" /\ rx'.lists = rest
      BY <3>1 DEF NoWalk
    <3> QED
      BY <3>2, <3>3, <1>3, <1>13 DEF WalkEnds
  <2> QED
    BY <2>1, <2>2
<1>14. CASE UNCHANGED vars
  BY <1>3, <1>14 DEF vars
<1> QED
  BY <1>4, <1>5, <1>6, <1>7, <1>8, <1>9, <1>10, <1>11, <1>12, <1>13, <1>14 DEF Next

(* The position of the walk and the status of the task.                      *)
Position == /\ rx.cbptr \in Node \cup {NULL}
            /\ rx_task_status \in {"STOP", "RUNNING", "DONE"}

LEMMA AtPlace == ASSUME NEW w, WalkRecord(w), NEW n PROVE At(n, w).cbptr = n
<1>1. FieldsAt(At(n, w), w, n)
  BY AtFields
<1> QED
  BY <1>1 DEF FieldsAt

LEMMA PositionNext == ASSUME ListsInv, Position, [Next]_vars PROVE Position'
<1> USE DEF Position
<1>0. /\ WalkRecord(rx) /\ Memory
      /\ InHandler /\ ~rx.gone => rx.cbptr \in allocated
  BY DEF ListsInv, DetachInv, LifeInv, WalkRecord, WalkInv, Linked, Walked
<1>1. NoWalk.cbptr = NULL /\ NoTask.cbptr = NULL
  BY DEF NoWalk, NoTask
<1>2. ASSUME NEW c \in Client, Register(c) \/ AddCallbackHandler(c) PROVE Position'
  BY <1>2 DEF Register, AddCallbackHandler, life
<1>3. ASSUME NEW c \in Client, Unregister(c) PROVE Position'
  <2>1. rx'.cbptr = rx.cbptr /\ rx_task_status' = rx_task_status
    BY <1>0, <1>3 DEF Unregister, WalkRecord, life
  <2> QED
    BY <2>1
<1>4. CASE PktioInit
  <2>1. rx' = rx \/ rx' = [NoWalk EXCEPT !.pc = "created"]
    BY <1>4 DEF PktioInit
  <2>2. rx'.cbptr \in Node \cup {NULL}
    BY <2>1 DEF NoWalk
  <2> QED
    BY <1>4, <2>2 DEF PktioInit
<1>5. CASE TaskStart \/ TaskStop
  BY <1>1, <1>5 DEF TaskStart, TaskStop
<1>6. CASE Detach \/ DetachEnds
  BY <1>6 DEF Detach, DetachEnds, Cleared
<1>7. CASE Receive \/ WalkEnds
  <2>1. rx'.cbptr = NULL /\ rx_task_status' = rx_task_status
    <3>1. CASE Receive
      <4>1. PICK pkt \in Packet : rx' = [NoWalk EXCEPT !.lists = Lists(pkt), !.pc = "list"]
        BY <3>1 DEF Receive
      <4> DEFINE l == Lists(pkt)
      <4> HIDE DEF l
      <4>2. rx' = [NoWalk EXCEPT !.lists = l, !.pc = "list"]
        BY <4>1 DEF l
      <4> QED
        BY <3>1, <4>2 DEF Receive, NoWalk, life
    <3>2. CASE WalkEnds
      <4>1. rx' = NoWalk \/ rx' = [NoWalk EXCEPT !.lists = Tail(rx.lists), !.pc = "list"]
        BY <3>2 DEF WalkEnds
      <4> QED
        BY <3>2, <4>1 DEF WalkEnds, NoWalk, life
    <3> QED
      BY <1>7, <3>1, <3>2
  <2> QED
    BY <2>1
<1>8. CASE WalkList
  <2> DEFINE there == {n \in allocated : cb[n].idx = Head(rx.lists)}
             w     == [rx EXCEPT !.asked = {}, !.stayed = there]
  <2>1. WalkRecord(w)
    <3> DEFINE v == [rx EXCEPT !.asked = {}]
    <3> HIDE DEF there
    <3>1. WalkRecord(v)
      BY <1>0 DEF WalkRecord
    <3>2. w = [v EXCEPT !.stayed = there]
      OBVIOUS
    <3> HIDE DEF v, w
    <3> QED
      BY <3>1, <3>2 DEF WalkRecord
  <2>2. rx' = At(callback_handlers[Head(rx.lists)], w) /\ rx_task_status' = rx_task_status
    BY <1>8 DEF WalkList, life
  <2> HIDE DEF w
  <2>3. rx'.cbptr = callback_handlers[Head(rx.lists)]
    BY <2>1, <2>2, AtPlace
  <2>4. Head(rx.lists) \in Filter
    BY <1>8, HeadTailProperties DEF WalkList, ListsInv, WalkInv, Walked
  <2> QED
    BY <1>0, <2>2, <2>3, <2>4 DEF Memory
<1>9. CASE HandlerReturns
  <2>1. CASE rx' = NoWalk
    BY <1>1, <1>9, <2>1 DEF HandlerReturns, life
  <2>2. CASE ~rx.gone /\ rx' = At(cb[rx.cbptr].next, rx)
    <3>1. rx'.cbptr = cb[rx.cbptr].next
      BY <1>0, <2>2, AtPlace
    <3>2. rx.cbptr \in Node
      BY <1>0, <1>9, <2>2 DEF HandlerReturns, Memory
    <3> QED
      BY <1>0, <1>9, <3>1, <3>2 DEF HandlerReturns, Memory, life
  <2> QED
    BY <1>9, <2>1, <2>2 DEF HandlerReturns
<1>10. CASE UNCHANGED vars
  BY <1>10 DEF vars, life
<1> QED
  BY <1>2, <1>3, <1>4, <1>5, <1>6, <1>7, <1>8, <1>9, <1>10 DEF Next

\* Every entry, head, handle and position of the walk is an entry or the null pointer.
THEOREM PktioTypeOK == Spec => []TypeOK
<1>1. Init => Position
  BY DEF Init, Position, NoTask, NoWalk
<1>2. ListsInv /\ Position => TypeOK
  <2> SUFFICES ASSUME ListsInv, Position PROVE TypeOK
    OBVIOUS
  <2>1. CountInv /\ Memory /\ num_callbacks \in Nat
    BY FiniteEntries DEF ListsInv, DetachInv, WalkInv, Linked
  <2>2. {init, callback_mutex, detaching} \subseteq BOOLEAN
    BY Zenon DEF ListsInv, DetachInv, LifeInv
  <2>3. handle \in [Client -> Node \cup {NULL}]
    BY <2>1 DEF CountInv
  <2> QED
    BY <2>1, <2>2, <2>3 DEF Memory, Position, TypeOK
<1> QED
  BY <1>1, <1>2, ListsInit, ListsNext, PositionNext, PTL DEF Spec

\* The lists hold exactly the entries that are registered, linked in both directions,
\* whatever registers and unregisters when (cbxi_add_callback_handler,
\* cbxi_remove_callback_handler).
THEOREM PktioListsWellFormed == Spec => []ListsWellFormed
<1>1. ListsInv => ListsWellFormed
  <2> SUFFICES ASSUME ListsInv PROVE ListsWellFormed
    OBVIOUS
  <2>1. PICK r : Linked(r)
    BY DEF ListsInv, WalkInv
  <2>2. num_callbacks = Cardinality(allocated)
    BY DEF ListsInv, DetachInv, CountInv
  <2>3. \A f \in Filter : Reached(f) = {n \in allocated : cb[n].idx = f}
    BY <2>1, <2>2, ReachedIs
  <2>4. ASSUME NEW n \in allocated
        PROVE  /\ cb[n].prev = NULL <=> callback_handlers[cb[n].idx] = n
               /\ cb[n].next # NULL => cb[cb[n].next].prev = n
               /\ cb[n].prev # NULL => cb[cb[n].prev].next = n
    BY <2>1 DEF Linked, Links
  <2> QED
    BY <2>2, <2>3, <2>4 DEF ListsWellFormed
<1> QED
  BY ListsInit, ListsNext, <1>1, PTL DEF Spec

\* The walk of the RX task is never at freed memory (cbxi_callback).
THEOREM PktioNoUseAfterFree == Spec => []NoUseAfterFree
<1>1. ListsInv => NoUseAfterFree
  BY DEF ListsInv, WalkInv, Walked, NoUseAfterFree
<1> QED
  BY ListsInit, ListsNext, <1>1, PTL DEF Spec

\* A packet that all handlers of a list leave has been offered to every handler that
\* was there all the time (cbxi_callback).
THEOREM PktioEveryoneAsked == Spec => []EveryoneAsked
<1>1. ListsInv => EveryoneAsked
  BY DEF ListsInv, WalkInv, Walked, EveryoneAsked
<1> QED
  BY ListsInit, ListsNext, <1>1, PTL DEF Spec
=================================================================================
