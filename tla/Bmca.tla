---------------------------------- MODULE Bmca ----------------------------------
(***************************************************************************)
(* 802.1AS best master clock algorithm (dot1as_bmca.c) of several bridges.   *)
(* Each compares the clocks that its neighbours announce with its own, takes *)
(* the best as grandmaster (GM), the port towards it as SLAVE, and announces  *)
(* it on its MASTER ports at every interval.  Announces may be lost, ports    *)
(* stop and begin to be asCapable, priorities change.                        *)
(*                                                                         *)
(* A priority vector is <<priority, GM, steps, source bridge, source port,   *)
(* receiving port>>, the lower the better; priority stands for priority1,     *)
(* the clock's quality and priority2.  A tick is an Announce interval.        *)
(***************************************************************************)
EXTENDS Naturals, Sequences, FiniteSets

CONSTANTS
    Bridge,      \* the bridges, by their clock identities
    Ports,       \* the ports of a bridge are 1 .. Ports
    Link,        \* the links: sets of two ends <<bridge, port>>
    Priority,    \* the priorities that a bridge may be given
    Default,     \* the priority that all begin with
    TIMEOUT,     \* Announce receipt timeout in Announce intervals
    MaxSteps,    \* DOT1AS_MAX_STEPS_REMOVED
    MaxHops,     \* DOT1AS_MAX_HOPS_PER_DOMAIN
    SETTLE,      \* Announce intervals after which the bridges agree
    MaxChanges,  \* bound: losses, failures, repairs and new priorities
    NULL

End == UNION Link
PortsOf == [b \in Bridge |-> {p \in 1 .. Ports : <<b, p>> \in End}]
PeerOf  == [e \in End |-> CHOOSE f \in End : f # e /\ {e, f} \in Link]
Port(b) == PortsOf[b]
Peer(e) == PeerOf[e]

ASSUME BridgeAssumption ==
    /\ IsFiniteSet(Bridge) /\ Bridge \subseteq Nat \ {0} /\ Ports \in Nat
    /\ Priority \subseteq Nat /\ Default \in Priority
    /\ \A l \in Link : l \subseteq Bridge \X (1 .. Ports) /\ Cardinality(l) = 2
    /\ \A l, k \in Link : l = k \/ l \cap k = {}
    /\ \A b \in Bridge : Port(b) # {}
ASSUME NumberAssumption ==
    TIMEOUT \in Nat \ {0} /\ {MaxSteps, MaxHops} \subseteq Nat \ {0} /\ SETTLE \in Nat /\ MaxChanges \in Nat
ASSUME NullAssumption == NULL \notin [vec : Seq(Nat), path : SUBSET Bridge]

VARIABLES
    br,       \* DOT1AS_BRIDGE_STATE_t and DOT1AS_INTF_STATE_t of each bridge
    announce, \* the Announce on its way to each end, or NULL
    changes,  \* how many changes there were
    calm,     \* no more changes and losses
    quiet,    \* whole Announce intervals since then
    ticked    \* the bridges that have ticked in this interval

vars == <<br, announce, changes, calm, quiet, ticked>>
environment == <<changes, calm, quiet, ticked>>
clock == <<calm, quiet, ticked>>

Change == ~calm /\ changes < MaxChanges /\ changes' = changes + 1

-----------------------------------------------------------------------------
(* Priority vectors.                                                        *)

\* Mutation: steps are not compared.
Superior_NoSteps(v, w) ==
    \E i \in {1, 2, 4, 5, 6} : v[i] < w[i] /\ \A j \in {1, 2, 4, 5, 6} : j < i => v[j] = w[j]

\* dot1asBmcaCompareVectors: v is better than w.
Superior(v, w) == \E i \in 1 .. 6 : v[i] < w[i] /\ \A j \in 1 .. i - 1 : v[j] = w[j]

Own(r, b)    == <<r.priority, b, 0, b, 0, 0>>
Further(v)   == [v EXCEPT ![3] = @ + 1]
Master(v, b, p) == [v EXCEPT ![4] = b, ![5] = p, ![6] = p]

\* The vectors of one bridge that compete: its own and one for each port that has
\* received another bridge's.
Candidates(r, b) ==
    {Own(r, b)} \cup
    {Further(r.port[p].vec) : p \in {q \in Port(b) : /\ r.port[q].capable
                                                     /\ r.port[q].infoIs = "RECEIVED"
                                                     /\ r.port[q].vec[4] # b}}

\* gmPrioVec
Best(V) == CHOOSE v \in V : \A w \in V \ {v} : Superior(v, w)

\* The port is the one that the GM's vector v comes from.
IsFrom(port, v) ==
    \A i \in {1, 2, 4, 5, 6} : port.vec[i] = v[i]

ToMaster(port, v) == [port EXCEPT !.role = "MASTER", !.infoIs = "MINE", !.vec = v,
                                  !.txReset = @ \/ port.role # "MASTER"]

\* Mutation: every port that has received the GM becomes a slave.
Role_AllSlaves(port, v, b, p) ==
    CASE port.infoIs = "DISABLED" -> [port EXCEPT !.role = "DISABLED"]
      [] port.infoIs \in {"AGED", "MINE"} -> ToMaster(port, Master(v, b, p))
      [] port.infoIs = "RECEIVED" /\ port.vec[2] = v[2] -> [port EXCEPT !.role = "SLAVE"]
      [] OTHER -> [port EXCEPT !.role = "MASTER", !.infoIs = "MINE", !.vec = Master(v, b, p)]

\* The role of a port under the GM's vector v.
Role(port, v, b, p) ==
    CASE port.infoIs = "DISABLED" -> [port EXCEPT !.role = "DISABLED"]
      [] port.infoIs \in {"AGED", "MINE"} -> ToMaster(port, Master(v, b, p))
      [] port.infoIs = "RECEIVED" /\ IsFrom(port, v) -> [port EXCEPT !.role = "SLAVE"]
      [] port.infoIs = "RECEIVED" /\ ~IsFrom(port, v) /\ Superior(Master(v, b, p), port.vec) ->
             [port EXCEPT !.role = "MASTER", !.infoIs = "MINE", !.vec = Master(v, b, p)]
      [] OTHER -> [port EXCEPT !.role = "PASSIVE"]

\* Mutation: the GM's vector is kept if no better one is there.
UpdateRoles_KeepGm(r, b) ==
    LET v == Best(Candidates(r, b) \cup {r.gm})
    IN  [r EXCEPT !.gm = v, !.gmPath = IF v[2] = b THEN {b} ELSE @,
                  !.port = [p \in Port(b) |-> Role(r.port[p], v, b, p)]]

\* dot1asBmcaUpdateRoles
UpdateRoles(r, b) ==
    LET v == Best(Candidates(r, b))
    IN  [r EXCEPT !.gm = v, !.gmPath = IF v[2] = b THEN {b} ELSE @,
                  !.port = [p \in Port(b) |-> Role(r.port[p], v, b, p)]]

\* What the port has received is too old (DOT1AS_BMC_ANNOUNCE_TIMEOUT, _SYNC_TIMEOUT).
Aged(r, b, p) == UpdateRoles([r EXCEPT !.port[p].infoIs = "AGED"], b)

\* DOT1AS_BMC_INTF_EVENT
IntfEvent(r, b, p) ==
    UpdateRoles(
        IF r.port[p].capable
        THEN [r EXCEPT !.port[p].infoIs = "AGED", !.port[p].txReset = TRUE,
                       !.port[p].rxTimer = 0]
        ELSE [r EXCEPT !.port[p].infoIs = "DISABLED"], b)

-----------------------------------------------------------------------------

\* Every bridge has started and its ports have become asCapable.
NewPort(b, p) == [capable |-> TRUE, infoIs |-> "AGED", vec |-> <<0, 0, 0, 0, 0, 0>>,
                  role |-> "DISABLED", txReset |-> TRUE, rxTimer |-> 0]
NewBridge(b) ==
    LET r == [priority |-> Default, gm |-> <<Default, b, 0, b, 0, 0>>, gmPath |-> {b},
              port |-> [p \in Port(b) |-> NewPort(b, p)]]
    IN  UpdateRoles(r, b)

Init ==
    /\ br = [b \in Bridge |-> NewBridge(b)]
    /\ announce = [e \in End |-> NULL]
    /\ changes = 0 /\ calm = FALSE /\ quiet = 0 /\ ticked = {}

-----------------------------------------------------------------------------
(* The environment.                                                         *)

\* Pdelay finds that a port is or is not asCapable any more.  It invokes BMCA, but
\* when the link goes down (told is FALSE): that is found at the next tick.
CapableChange(b, p, told) ==
    /\ Change
    /\ LET r == [br[b] EXCEPT !.port[p].capable = ~@]
       IN  /\ r.port[p].capable => told
           /\ br' = [br EXCEPT ![b] = IF told THEN IntfEvent(r, b, p) ELSE r]
    /\ UNCHANGED <<announce, clock>>

\* An interface event for each port.
IntfEvents(r, b) ==
    LET done[p \in 0 .. Ports] ==
            IF p = 0 THEN r ELSE IF p \in Port(b) THEN IntfEvent(done[p - 1], b, p) ELSE done[p - 1]
    IN  done[Ports]

\* dot1asBridgePrioritySet
PrioritySet(b, prio) ==
    /\ Change /\ prio # br[b].priority
    /\ br' = [br EXCEPT ![b] = IntfEvents([@ EXCEPT !.priority = prio], b)]
    /\ UNCHANGED <<announce, clock>>

\* The SYNC messages of the master stay away.
SyncTimeout(b, p) ==
    /\ Change /\ br[b].port[p].role = "SLAVE"
    /\ br' = [br EXCEPT ![b] = Aged(@, b, p)]
    /\ UNCHANGED <<announce, clock>>

Lose(e) ==
    /\ Change /\ announce[e] # NULL
    /\ announce' = [announce EXCEPT ![e] = NULL]
    /\ UNCHANGED <<br, clock>>

\* From now on nothing changes and nothing is lost.
CalmDown ==
    /\ ~calm /\ calm' = TRUE
    /\ UNCHANGED <<br, announce, changes, quiet, ticked>>

-----------------------------------------------------------------------------
(* The 802.1AS thread of a bridge.                                          *)

\* dot1asAnnounceSend
Announce(r, b, p) == [vec |-> <<r.gm[1], r.gm[2], r.gm[3], b, p>>, path |-> r.gmPath]

\* The messages that dot1asAnnounceReceive does not discard.
Qualified(m, r, b, p) ==
    /\ r.port[p].capable
    /\ m.vec[4] # b /\ m.vec[3] < MaxSteps /\ m.vec[2] # b
    /\ b \notin m.path

\* The path to the GM is taken from what the slave port receives.
TakePath(m, r, b, p) ==
    IF r.port[p].role = "SLAVE" /\ r.gm[2] = m.vec[2]
    THEN [r EXCEPT !.gmPath = IF Cardinality(m.path) < MaxHops THEN m.path \cup {b} ELSE m.path]
    ELSE r

\* DOT1AS_BMC_ANNOUNCE_RX: a better vector than the port's is taken, the same one
\* holds it for another time, a worse one is ignored.
AnnounceRx(r, b, p, v) ==
    CASE Superior(v, r.port[p].vec) ->
             UpdateRoles([r EXCEPT !.port[p].vec = v, !.port[p].infoIs = "RECEIVED",
                                   !.port[p].rxTimer = 0], b)
      [] v = r.port[p].vec -> [r EXCEPT !.port[p].rxTimer = 0]
      [] OTHER -> r

\* dot1asAnnounceReceive
AnnounceReceive(b, p) ==
    LET e == <<b, p>>
        m == announce[e]
    IN  /\ m # NULL
        /\ announce' = [announce EXCEPT ![e] = NULL]
        /\ br' = IF Qualified(m, br[b], b, p)
                 THEN [br EXCEPT ![b] = AnnounceRx(TakePath(m, @, b, p), b, p, Append(m.vec, p))]
                 ELSE br
        /\ UNCHANGED environment

\* The Announce receipt timer; the first tick behind a reset sets it to 0.  It has no
\* effect on a port that has received nothing.
Receipt(r, b, p) ==
    CASE r.port[p].infoIs # "RECEIVED" -> [r EXCEPT !.port[p].rxTimer = 0]
      [] r.port[p].infoIs = "RECEIVED" /\ r.port[p].rxTimer < TIMEOUT ->
             [r EXCEPT !.port[p].rxTimer = @ + 1]
      [] OTHER -> Aged([r EXCEPT !.port[p].rxTimer = 0], b, p)

\* dot1asCheckBmcaTimers for port p; s is the bridge and what it has sent by port.
CheckPort(s, b, p) ==
    LET r    == s.r
        port == r.port[p]
        sends == ~port.txReset /\ port.role = "MASTER"
    IN  IF ~port.capable
        THEN IF port.infoIs = "DISABLED" THEN s ELSE [s EXCEPT !.r = IntfEvent(r, b, p)]
        ELSE [r   |-> Receipt([r EXCEPT !.port[p].txReset = FALSE], b, p),
              out |-> IF sends THEN [s.out EXCEPT ![p] = Announce(r, b, p)] ELSE s.out]

\* One port after the other.
CheckPorts(r, b) ==
    LET done[p \in 0 .. Ports] ==
            IF p = 0 THEN [r |-> r, out |-> [q \in Port(b) |-> NULL]]
            ELSE IF p \in Port(b) THEN CheckPort(done[p - 1], b, p) ELSE done[p - 1]
    IN  done[Ports]

\* dot1asCheckBmcaTimers.  A message that is still on the way is overtaken by the new one.
Tick(b) ==
    LET s == CheckPorts(br[b], b)
    IN  /\ b \notin ticked
        /\ \A e \in End : calm \/ Peer(e)[1] = b => announce[e] = NULL
        /\ br' = [br EXCEPT ![b] = s.r]
        /\ announce' = [e \in End |-> IF Peer(e)[1] = b THEN s.out[Peer(e)[2]] ELSE announce[e]]
        /\ IF ticked \cup {b} = Bridge
           THEN ticked' = {} /\ quiet' = IF calm /\ quiet <= SETTLE THEN quiet + 1 ELSE quiet
           ELSE ticked' = ticked \cup {b} /\ UNCHANGED quiet
        /\ UNCHANGED <<changes, calm>>

Next ==
    \/ \E b \in Bridge : \E p \in Port(b) :
          \/ \E told \in BOOLEAN : CapableChange(b, p, told)
          \/ SyncTimeout(b, p) \/ AnnounceReceive(b, p)
    \/ \E b \in Bridge, prio \in Priority : PrioritySet(b, prio)
    \/ \E e \in End : Lose(e)
    \/ CalmDown
    \/ \E b \in Bridge : Tick(b)

Spec == Init /\ [][Next]_vars

-----------------------------------------------------------------------------
(* Properties.                                                              *)

PortType == [capable : BOOLEAN, infoIs : {"RECEIVED", "MINE", "DISABLED"},
             role : {"MASTER", "SLAVE", "PASSIVE", "DISABLED"}, txReset : BOOLEAN,
             rxTimer : 0 .. TIMEOUT]

TypeOK ==
    \A b \in Bridge :
        /\ br[b].priority \in Priority /\ br[b].gmPath \subseteq Bridge
        /\ br[b].gm[2] \in Bridge
        /\ \A p \in Port(b) :
              [f \in DOMAIN br[b].port[p] \ {"vec"} |-> br[b].port[p][f]] \in PortType

Slaves(b) == {p \in Port(b) : br[b].port[p].role = "SLAVE"}

\* A bridge has one slave port if the GM is another bridge and none if it is itself;
\* the GM's vector is what that port has received, one step further.
OneSlave ==
    \A b \in Bridge :
        IF br[b].gm[2] = b THEN Slaves(b) = {}
        ELSE \E p \in Port(b) : Slaves(b) = {p} /\ br[b].gm = Further(br[b].port[p].vec)

\* The GM's vector is the bridge's own or what a port has received and not given up,
\* and the best of them; what the master ports hold is derived from it.
GmIsBest ==
    \A b \in Bridge :
        /\ br[b].gm = Own(br[b], b)
           \/ \E p \in Port(b) : /\ br[b].port[p].infoIs = "RECEIVED"
                                 /\ br[b].gm = Further(br[b].port[p].vec)
        /\ \A v \in Candidates(br[b], b) : ~Superior(v, br[b].gm)
        /\ \A p \in Port(b) : br[b].port[p].role = "MASTER" =>
               br[b].port[p].vec = Master(br[b].gm, b, p)

\* The two ends of the link e, f have settled: e announces the GM that f's bridge
\* has, and f is its bridge's way to it or passive.
Settled(e, f) ==
    LET near == br[e[1]]
        far  == br[f[1]]
    IN  /\ near.port[e[2]].role = "MASTER" /\ far.port[f[2]].role \in {"SLAVE", "PASSIVE"}
        /\ near.gm[1] = far.gm[1] /\ near.gm[2] = far.gm[2]
        /\ far.port[f[2]].role = "SLAVE" => far.gm[3] = near.gm[3] + 1

Up(e) == br[e[1]].port[e[2]].capable /\ br[Peer(e)[1]].port[Peer(e)[2]].capable

\* Every link that is up has one master end and the same GM at both: the bridges that
\* are connected have elected one clock, and the slave ports lead to it.
Agreed ==
    /\ \A e \in End : Up(e) => Settled(e, Peer(e)) \/ Settled(Peer(e), e)
    /\ \A b \in Bridge : br[b].gm[2] = b => br[b].gm[1] = br[b].priority

\* When nothing has changed and nothing was lost for SETTLE intervals, the bridges
\* agree: information about a clock that is gone, or that has become worse, has died
\* out by then.
Converges == quiet > SETTLE => Agreed
===============================================================================
