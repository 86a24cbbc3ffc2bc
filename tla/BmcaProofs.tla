------------------------------- MODULE BmcaProofs -------------------------------
(***************************************************************************)
(* What the bridges elect, for any network, priorities and timeouts.          *)
(*                                                                         *)
(* One slave port towards the best clock known: the invariant BmcaInv is     *)
(* about one bridge's record, what a port has received (Known) and what the   *)
(* last run of dot1asBmcaUpdateRoles has made of it (Elected).  A function    *)
(* that handles all ports is followed from port to port.                     *)
(*                                                                         *)
(* All bridges agree in the end: by induction over the steps that untrue      *)
(* information has made (AgeInv), and then over the distance from the best    *)
(* clock (FeedInv).                                                          *)
(***************************************************************************)
EXTENDS Bmca, FiniteSetTheorems, SequenceTheorems, WellFoundedInduction, TLAPS

-----------------------------------------------------------------------------
(* Numbers and vectors.                                                     *)

\* A set of natural numbers has a least element.
LEMMA LeastNumber ==
    ASSUME NEW T \in SUBSET Nat, T # {}
    PROVE  \E m \in T : \A k \in T : m <= k
<1> DEFINE Initial == {0 .. n : n \in T}
<1>1. Initial \subseteq FiniteSubsetsOf(Nat) /\ Initial # {}
  <2>1. ASSUME NEW n \in T PROVE 0 .. n \in FiniteSubsetsOf(Nat)
    BY FS_Interval DEF FiniteSubsetsOf
  <2> QED BY <2>1
<1>2. \E x \in Initial : \A y \in Initial : ~(<<y, x>> \in StrictSubsetOrdering(Nat))
  <2> HIDE DEF Initial
  <2> QED BY <1>1, FS_StrictSubsetOrderingWellFounded, WFMin
<1>3. PICK m \in T : \A y \in Initial : ~(<<y, 0 .. m>> \in StrictSubsetOrdering(Nat))
  BY <1>2
<1>4. ASSUME NEW k \in T, k < m PROVE FALSE
  <2>1. 0 .. k \in Initial /\ 0 .. k \subseteq 0 .. m /\ 0 .. k # 0 .. m /\ 0 .. m \subseteq Nat
    BY <1>4
  <2> QED BY <2>1, <1>3 DEF StrictSubsetOrdering
<1> QED BY <1>4

\* Induction up to n, for a set of numbers.
LEMMA Upwards ==
    ASSUME NEW n \in Nat, NEW S, 0 \in S, \A i \in 1 .. n : i - 1 \in S => i \in S
    PROVE  n \in S
<1> DEFINE T == (0 .. n) \ S
<1>1. SUFFICES ASSUME T # {} PROVE FALSE
  OBVIOUS
<1>2. PICK m \in T : \A k \in T : m <= k
  <2>1. T \in SUBSET Nat
    OBVIOUS
  <2> HIDE DEF T
  <2> QED BY <1>1, <2>1, LeastNumber
<1>3. m \in 1 .. n /\ m - 1 \in S
  BY <1>2
<1> QED BY <1>2, <1>3

\* A function that gives each number a value by its predecessor's exists.
Keeps(Step, n, X) == \A i \in 1 .. n : \A y \in X : Step[i][y] \in X
Follows(f, Step, n, X, x) ==
    f \in [0 .. n -> X] /\ f[0] = x /\ \A i \in 1 .. n : f[i] = Step[i][f[i - 1]]

LEMMA ByPredecessor ==
    ASSUME NEW n \in Nat, NEW X, NEW x \in X, NEW Step, Keeps(Step, n, X)
    PROVE  \E f : Follows(f, Step, n, X, x)
<1> DEFINE Upto(m) == \E f : Follows(f, Step, m, X, x)
           S == {m \in 0 .. n : Upto(m)}
<1>1. Upto(0)
  <2> DEFINE g == [i \in 0 .. 0 |-> x]
  <2>1. g \in [0 .. 0 -> X] /\ g[0] = x /\ \A i \in 1 .. 0 : g[i] = Step[i][g[i - 1]]
    OBVIOUS
  <2> HIDE DEF g
  <2> QED BY <2>1 DEF Follows
<1>2. ASSUME NEW m \in 1 .. n, Upto(m - 1) PROVE Upto(m)
  <2>1. PICK f : Follows(f, Step, m - 1, X, x)
    BY <1>2
  <2> DEFINE g == [i \in 0 .. m |-> IF i = m THEN Step[m][f[m - 1]] ELSE f[i]]
  <2>2. f[m - 1] \in X /\ Step[m][f[m - 1]] \in X
    BY <2>1 DEF Follows, Keeps
  <2>3. g \in [0 .. m -> X] /\ g[0] = x
    BY <2>1, <2>2 DEF Follows
  <2>4. ASSUME NEW i \in 1 .. m PROVE g[i] = Step[i][g[i - 1]]
    <3>1. CASE i = m
      BY <3>1
    <3>2. CASE i # m
      BY <3>2, <2>1 DEF Follows
    <3> QED BY <3>1, <3>2
  <2> HIDE DEF g
  <2> QED BY <2>3, <2>4 DEF Follows
<1> HIDE DEF Upto
<1>3. 0 \in S /\ \A m \in 1 .. n : m - 1 \in S => m \in S
  BY <1>1, <1>2
<1>4. n \in S
  <2> HIDE DEF S
  <2> QED BY <1>3, Upwards
<1> QED BY <1>4 DEF Upto

Vec == [1 .. 6 -> Nat]

LEMMA SuperiorOnce ==
    ASSUME NEW v \in Vec, NEW w \in Vec, Superior(v, w)
    PROVE  ~Superior(w, v) /\ v # w
BY DEF Superior, Vec

LEMMA SuperiorOrEqual ==
    ASSUME NEW v \in Vec, NEW w \in Vec, v # w
    PROVE  Superior(v, w) \/ Superior(w, v)
<1>1. v[1] # w[1] \/ v[2] # w[2] \/ v[3] # w[3] \/ v[4] # w[4] \/ v[5] # w[5] \/ v[6] # w[6]
  BY DEF Vec
<1> DEFINE D == {i \in 1 .. 6 : v[i] # w[i]}
<1>2. PICK i \in D : \A j \in D : i <= j
  <2>1. D # {} /\ D \in SUBSET Nat
    BY <1>1
  <2> HIDE DEF D
  <2> QED BY <2>1, LeastNumber
<1>3. v[i] < w[i] \/ w[i] < v[i]
  BY <1>2 DEF Vec
<1>4. \A j \in 1 .. i - 1 : v[j] = w[j]
  BY <1>2
<1> QED BY <1>2, <1>3, <1>4 DEF Superior

\* Vectors have a best one.
LEMMA BestOfSome ==
    ASSUME NEW V \in SUBSET Vec, V # {}
    PROVE  Best(V) \in V /\ \A w \in V : ~Superior(w, Best(V))
<1> DEFINE Least(W, i) == {v \in W : \A w \in W : v[i] <= w[i]}
<1>1. ASSUME NEW W \in SUBSET Vec, W # {}, NEW i \in 1 .. 6 PROVE Least(W, i) # {}
  <2> DEFINE T == {w[i] : w \in W}
  <2>1. T \in SUBSET Nat /\ T # {}
    BY <1>1 DEF Vec
  <2>2. PICK m \in T : \A k \in T : m <= k
    <3> HIDE DEF T
    <3> QED BY <2>1, LeastNumber
  <2> QED BY <2>2
<1> DEFINE V1 == Least(V, 1)   V2 == Least(V1, 2)  V3 == Least(V2, 3)
           V4 == Least(V3, 4)  V5 == Least(V4, 5)  V6 == Least(V5, 6)
<1>2. V1 \subseteq V /\ V2 \subseteq V1 /\ V3 \subseteq V2 /\ V4 \subseteq V3 /\ V5 \subseteq V4 /\ V6 \subseteq V5
  OBVIOUS
<1>3. V6 # {}
  <2> HIDE DEF Least
  <2>1. V1 # {} BY <1>1
  <2>2. V2 # {} BY <1>1, <1>2, <2>1
  <2>3. V3 # {} BY <1>1, <1>2, <2>2
  <2>4. V4 # {} BY <1>1, <1>2, <2>3
  <2>5. V5 # {} BY <1>1, <1>2, <2>4
  <2> QED BY <1>1, <1>2, <2>5
<1>4. PICK v \in V6 : TRUE
  BY <1>3
<1>5. ASSUME NEW w \in V \ {v} PROVE Superior(v, w)
  <2>1. v \in Vec /\ w \in Vec /\ v \in V1 /\ v \in V2 /\ v \in V3 /\ v \in V4 /\ v \in V5 /\ v \in V6
    BY <1>2, <1>4
  <2>2. SUFFICES ASSUME Superior(w, v) PROVE FALSE
    BY <2>1, SuperiorOrEqual
  <2>3. PICK i \in 1 .. 6 : w[i] < v[i] /\ \A j \in 1 .. i - 1 : w[j] = v[j]
    BY <2>2 DEF Superior
  <2>4. i > 1 => w[1] = v[1]
    BY <2>3
  <2>5. i > 2 => w[2] = v[2]
    BY <2>3
  <2>6. i > 3 => w[3] = v[3]
    BY <2>3
  <2>7. i > 4 => w[4] = v[4]
    BY <2>3
  <2>8. i > 5 => w[5] = v[5]
    BY <2>3
  <2>9. \A k \in 1 .. 6 : w[k] \in Nat /\ v[k] \in Nat
    BY <2>1 DEF Vec
  <2>10. (i # 1 /\ w \in V1) \/ i = 1
    <3>1. i > 1 => w \in V1
      BY <2>1, <2>4
    <3> QED BY <3>1
  <2>11. i # 1
    BY <2>1, <2>3, <2>9
  <2>12. w \in V1
    BY <2>10, <2>11
  <2>13. i # 2
    BY <2>1, <2>3, <2>9, <2>12
  <2>14. w \in V2
    BY <2>1, <2>5, <2>11, <2>12, <2>13
  <2>15. i # 3
    BY <2>1, <2>3, <2>9, <2>14
  <2>16. w \in V3
    BY <2>1, <2>6, <2>11, <2>13, <2>14, <2>15
  <2>17. i # 4
    BY <2>1, <2>3, <2>9, <2>16
  <2>18. w \in V4
    BY <2>1, <2>7, <2>11, <2>13, <2>15, <2>16, <2>17
  <2>19. i # 5
    BY <2>1, <2>3, <2>9, <2>18
  <2>20. w \in V5
    BY <2>1, <2>8, <2>11, <2>13, <2>15, <2>17, <2>18, <2>19
  <2>21. i # 6
    BY <2>1, <2>3, <2>9, <2>20
  <2> QED BY <2>11, <2>13, <2>15, <2>17, <2>19, <2>21
<1>6. Best(V) \in V /\ \A w \in V \ {Best(V)} : Superior(Best(V), w)
  <2>1. v \in V
    BY <1>2, <1>4
  <2> HIDE DEF V6
  <2> QED BY <1>5, <2>1 DEF Best
<1> QED BY <1>6, SuperiorOnce

-----------------------------------------------------------------------------
(* What a bridge's record and an Announce look like.                        *)

PortRec == [capable : BOOLEAN, infoIs : {"AGED", "RECEIVED", "MINE", "DISABLED"}, vec : Vec,
            role : {"MASTER", "SLAVE", "PASSIVE", "DISABLED"}, txReset : BOOLEAN,
            rxTimer : 0 .. TIMEOUT]

BridgeRec(b) == [priority : Priority, gm : Vec, gmPath : SUBSET Bridge, port : [Port(b) -> PortRec]]

\* A vector of another bridge's clock, sent by the bridge at the other end of p's link.
FromPeer(v, b, p) ==
    /\ v[2] \in Bridge \ {b} /\ v[3] < MaxSteps
    /\ v[4] = Peer(<<b, p>>)[1] /\ v[4] # b /\ v[5] = Peer(<<b, p>>)[2] /\ v[6] = p

\* What a port has received is such a vector, and a port that is asCapable is in use.
KnownPort(port, b, p) ==
    /\ port.infoIs = "RECEIVED" => FromPeer(port.vec, b, p)
    /\ port.capable => port.infoIs # "DISABLED"
Known(r, b) == \A p \in Port(b) : KnownPort(r.port[p], b, p)

\* A GM's vector w takes from the port the vector v that it has received.
Displaces(w, v, b, p) ==
    /\ Superior(Master(w, b, p), v)
    /\ \E i \in {1, 2, 4, 5, 6} : v[i] # w[i]

\* What dot1asBmcaUpdateRoles leaves behind.
Elected(r, b) ==
    /\ \/ r.gm = Own(r, b)
       \/ \E p \in Port(b) : r.port[p].infoIs = "RECEIVED" /\ r.gm = Further(r.port[p].vec)
    /\ \A v \in Candidates(r, b) : ~Superior(v, r.gm)
    /\ r.gm[2] = b => r.gmPath = {b}
    /\ \A p \in Port(b) :
          /\ r.port[p].infoIs # "AGED"
          /\ r.port[p].infoIs = "MINE" <=> r.port[p].role = "MASTER"
          /\ r.port[p].role = "MASTER" => r.port[p].vec = Master(r.gm, b, p)
          /\ r.port[p].role = "SLAVE" <=> r.port[p].infoIs = "RECEIVED" /\ IsFrom(r.port[p], r.gm)
          /\ r.port[p].infoIs = "RECEIVED" =>
                r.port[p].role \in {"SLAVE", "PASSIVE"} /\ ~Displaces(r.gm, r.port[p].vec, b, p)

Before(b) == {r \in BridgeRec(b) : Known(r, b)}
After(b) == {r \in Before(b) : Elected(r, b)}

\* An interface event has still to be handled for port p.
Pending(b, p) == {r \in BridgeRec(b) : \A q \in Port(b) \ {p} : KnownPort(r.port[q], b, q)}

Msg == [vec : {v \in Seq(Nat) : Len(v) = 5 /\ v[2] \in Bridge}, path : SUBSET Bridge]

LEMMA BridgeFacts ==
    ASSUME NEW b \in Bridge
    PROVE  b \in Nat \ {0} /\ Port(b) \subseteq 1 .. Ports /\ Port(b) # {} /\ Ports \in Nat
BY BridgeAssumption DEF Port, PortsOf

\* What competes are vectors, and the bridge's own is one of them.
LEMMA CandidateVectors ==
    ASSUME NEW b \in Bridge, NEW r \in BridgeRec(b)
    PROVE  Candidates(r, b) \subseteq Vec /\ Own(r, b) \in Candidates(r, b)
<1>1. Own(r, b) \in Vec
  <2>1. r.priority \in Nat /\ b \in Nat
    BY BridgeAssumption DEF BridgeRec
  <2> QED BY <2>1 DEF Own, Vec
<1>2. ASSUME NEW p \in Port(b) PROVE Further(r.port[p].vec) \in Vec
  <2>1. r.port[p].vec \in Vec
    BY DEF BridgeRec, PortRec
  <2> QED BY <2>1 DEF Further, Vec
<1> QED BY <1>1, <1>2 DEF Candidates

LEMMA AppendKeeps ==
    ASSUME NEW S, NEW w \in Seq(S), NEW x \in S, NEW i \in 1 .. Len(w)
    PROVE  Append(w, x)[i] = w[i]
BY AppendProperties

LEMMA AppendLast ==
    ASSUME NEW S, NEW w \in Seq(S), NEW x \in S
    PROVE  Len(Append(w, x)) = Len(w) + 1 /\ Append(w, x)[Len(w) + 1] = x
BY AppendProperties

LEMMA AppendPort ==
    ASSUME NEW w \in Seq(Nat), Len(w) = 5, NEW p \in Nat
    PROVE  LET v == Append(w, p)
           IN  v \in Vec /\ v[6] = p /\ \A i \in 1 .. 5 : v[i] = w[i]
<1> DEFINE v == Append(w, p)
<1>1. v \in Seq(Nat)
  OBVIOUS
<1>2. Len(v) = Len(w) + 1 /\ v[Len(w) + 1] = p
  BY AppendLast
<1>3. ASSUME NEW i \in 1 .. 5 PROVE v[i] = w[i]
  <2>1. i \in 1 .. Len(w)
    OBVIOUS
  <2> QED BY <2>1, AppendKeeps
<1> HIDE DEF v
<1>4. Len(v) = 6 /\ v[6] = p
  BY <1>2
<1>5. v \in Vec
  BY <1>1, <1>4, LenProperties DEF Vec
<1>6. v \in Vec /\ v[6] = p /\ \A i \in 1 .. 5 : v[i] = w[i]
  BY <1>3, <1>4, <1>5
<1> QED BY <1>6 DEF v

LEMMA MasterVector ==
    ASSUME NEW b \in Bridge, NEW p \in Port(b), NEW v \in Vec
    PROVE  Master(v, b, p) \in Vec
<1>1. b \in Nat /\ p \in Nat
  BY BridgeFacts
<1> QED BY <1>1 DEF Master, Vec

\* The role of a port whose vector is the GM's, and of the others.
LEMMA RoleSound ==
    ASSUME NEW b \in Bridge, NEW p \in Port(b), NEW port \in PortRec, NEW v \in Vec
    PROVE  LET q == Role(port, v, b, p)
           IN  /\ q \in PortRec
               /\ q.capable = port.capable /\ q.infoIs # "AGED"
               /\ q.infoIs = "DISABLED" <=> port.infoIs = "DISABLED"
               /\ q.infoIs = "MINE" <=> q.role = "MASTER"
               /\ q.role = "MASTER" => q.vec = Master(v, b, p)
               /\ q.role = "SLAVE" <=> q.infoIs = "RECEIVED" /\ IsFrom(q, v)
               /\ q.infoIs = "RECEIVED" => q.role \in {"SLAVE", "PASSIVE"} /\ ~Displaces(v, q.vec, b, p)
               /\ q.infoIs = "RECEIVED" => port.infoIs = "RECEIVED" /\ q.vec = port.vec
               /\ port.infoIs = "RECEIVED" /\ IsFrom(port, v) => q.infoIs = "RECEIVED" /\ q.vec = port.vec
<1>1. Master(v, b, p) \in Vec
  BY MasterVector
<1> DEFINE q == Role(port, v, b, p)
<1>2. CASE port.infoIs = "DISABLED"
  <2>1. q = [port EXCEPT !.role = "DISABLED"]
    BY <1>2 DEF Role
  <2> QED BY <1>2, <2>1 DEF PortRec
<1>3. CASE port.infoIs \in {"AGED", "MINE"}
  <2>1. q = ToMaster(port, Master(v, b, p))
    BY <1>3 DEF Role
  <2> QED BY <1>1, <1>3, <2>1 DEF PortRec, ToMaster
<1>4. CASE port.infoIs = "RECEIVED" /\ IsFrom(port, v)
  <2>1. q = [port EXCEPT !.role = "SLAVE"]
    BY <1>4 DEF Role
  <2> QED BY <1>4, <2>1 DEF PortRec, IsFrom, Displaces
<1>5. CASE port.infoIs = "RECEIVED" /\ ~IsFrom(port, v) /\ Superior(Master(v, b, p), port.vec)
  <2>1. q = [port EXCEPT !.role = "MASTER", !.infoIs = "MINE", !.vec = Master(v, b, p)]
    BY <1>5 DEF Role
  <2> QED BY <1>1, <1>5, <2>1 DEF PortRec
<1>6. CASE port.infoIs = "RECEIVED" /\ ~IsFrom(port, v) /\ ~Superior(Master(v, b, p), port.vec)
  <2>1. q = [port EXCEPT !.role = "PASSIVE"]
    BY <1>6 DEF Role
  <2> QED BY <1>6, <2>1 DEF PortRec, IsFrom, Displaces
<1> QED BY <1>2, <1>3, <1>4, <1>5, <1>6 DEF PortRec

-----------------------------------------------------------------------------
(* The functions of dot1as_bmca.c, each for the record of any bridge.        *)

LEMMA UpdateRolesSound ==
    ASSUME NEW b \in Bridge, NEW r \in Before(b)
    PROVE  UpdateRoles(r, b) \in After(b)
<1> DEFINE v == Best(Candidates(r, b))
           s == UpdateRoles(r, b)
<1>1. r \in BridgeRec(b) /\ Known(r, b)
  BY DEF Before
<1>2. v \in Candidates(r, b) /\ v \in Vec /\ \A w \in Candidates(r, b) : ~Superior(w, v)
  BY <1>1, CandidateVectors, BestOfSome
<1> HIDE DEF v
<1>3. \A p \in Port(b) : r.port[p] \in PortRec
  BY <1>1 DEF BridgeRec
<1>4. s = [r EXCEPT !.gm = v, !.gmPath = IF v[2] = b THEN {b} ELSE @,
                    !.port = [p \in Port(b) |-> Role(r.port[p], v, b, p)]]
  BY DEF UpdateRoles, v
<1>5. /\ s.priority = r.priority /\ s.gm = v /\ s.gmPath \in SUBSET Bridge
      /\ s.gmPath = IF v[2] = b THEN {b} ELSE r.gmPath
      /\ \A p \in Port(b) : s.port[p] = Role(r.port[p], v, b, p)
  BY <1>1, <1>4 DEF BridgeRec
<1>6. s \in BridgeRec(b)
  <2>1. [p \in Port(b) |-> Role(r.port[p], v, b, p)] \in [Port(b) -> PortRec]
    BY <1>2, <1>3, RoleSound
  <2> DEFINE f == [p \in Port(b) |-> Role(r.port[p], v, b, p)]
             path == IF v[2] = b THEN {b} ELSE r.gmPath
  <2>2. path \in SUBSET Bridge
    BY <1>1 DEF BridgeRec
  <2>3. s = [r EXCEPT !.gm = v, !.gmPath = path, !.port = f]
    BY <1>1, <1>4 DEF BridgeRec
  <2> HIDE DEF f, path, s
  <2>4. f \in [Port(b) -> PortRec]
    BY <2>1 DEF f
  <2> QED BY <1>1, <1>2, <2>2, <2>3, <2>4 DEF BridgeRec
<1> HIDE DEF s
<1>7. \A p \in Port(b) :
        /\ s.port[p].capable = r.port[p].capable /\ s.port[p].infoIs # "AGED"
        /\ s.port[p].infoIs = "DISABLED" <=> r.port[p].infoIs = "DISABLED"
        /\ s.port[p].infoIs = "MINE" <=> s.port[p].role = "MASTER"
        /\ s.port[p].role = "MASTER" => s.port[p].vec = Master(v, b, p)
        /\ s.port[p].role = "SLAVE" <=> s.port[p].infoIs = "RECEIVED" /\ IsFrom(s.port[p], v)
        /\ s.port[p].infoIs = "RECEIVED" =>
              s.port[p].role \in {"SLAVE", "PASSIVE"} /\ ~Displaces(v, s.port[p].vec, b, p)
        /\ s.port[p].infoIs = "RECEIVED" => r.port[p].infoIs = "RECEIVED" /\ s.port[p].vec = r.port[p].vec
        /\ r.port[p].infoIs = "RECEIVED" /\ IsFrom(r.port[p], v)
           => s.port[p].infoIs = "RECEIVED" /\ s.port[p].vec = r.port[p].vec
  BY <1>2, <1>3, <1>5, RoleSound
<1>8. Known(s, b)
  BY <1>1, <1>7 DEF Known, KnownPort
<1>9. Own(s, b) = Own(r, b)
  BY <1>5 DEF Own
<1>10. Candidates(s, b) \subseteq Candidates(r, b)
  BY <1>7, <1>9 DEF Candidates
<1>11. v = Own(s, b) \/ \E p \in Port(b) : s.port[p].infoIs = "RECEIVED" /\ v = Further(s.port[p].vec)
  <2>1. CASE v = Own(r, b)
    BY <2>1, <1>9
  <2>2. CASE v # Own(r, b)
    <3>1. PICK p \in Port(b) : r.port[p].infoIs = "RECEIVED" /\ v = Further(r.port[p].vec)
      BY <1>2, <2>2 DEF Candidates
    <3>2. IsFrom(r.port[p], v)
      BY <1>3, <3>1 DEF IsFrom, Further, PortRec, Vec
    <3> QED BY <1>7, <3>1, <3>2
  <2> QED BY <2>1, <2>2
<1>12. Elected(s, b)
  BY <1>2, <1>5, <1>7, <1>10, <1>11 DEF Elected
<1> QED BY <1>6, <1>8, <1>12 DEF After, Before, s

\* What changes neither clocks, vectors nor roles, and makes no port asCapable.
LEMMA SameElection ==
    ASSUME NEW b \in Bridge, NEW r \in After(b), NEW s \in BridgeRec(b),
           s.priority = r.priority, s.gm = r.gm, r.gm[2] = b => s.gmPath = r.gmPath,
           \A p \in Port(b) : /\ s.port[p].capable => r.port[p].capable
                              /\ s.port[p].infoIs = r.port[p].infoIs
                              /\ s.port[p].vec = r.port[p].vec
                              /\ s.port[p].role = r.port[p].role
    PROVE  s \in After(b)
<1>1. Known(r, b) /\ Elected(r, b)
  BY DEF After, Before
<1>2. Known(s, b)
  BY <1>1 DEF Known, KnownPort
<1>3. Own(s, b) = Own(r, b)
  BY DEF Own
<1>4. Candidates(s, b) \subseteq Candidates(r, b)
  BY <1>3 DEF Candidates
<1>5. Elected(s, b)
  BY <1>1, <1>3, <1>4 DEF Elected, IsFrom
<1> QED BY <1>2, <1>5 DEF After, Before

LEMMA AfterIsBefore ==
    ASSUME NEW b \in Bridge, NEW r \in After(b)
    PROVE  r \in Before(b) /\ r \in BridgeRec(b) /\ \A p \in Port(b) : r.port[p] \in PortRec
BY DEF After, Before, BridgeRec

LEMMA SetPort ==
    ASSUME NEW b \in Bridge, NEW r \in BridgeRec(b), NEW p \in Port(b), NEW q \in PortRec
    PROVE  LET s == [r EXCEPT !.port = [r.port EXCEPT ![p] = q]]
           IN  /\ s \in BridgeRec(b)
               /\ s.priority = r.priority /\ s.gm = r.gm /\ s.gmPath = r.gmPath
               /\ s.port[p] = q /\ \A o \in Port(b) : o # p => s.port[o] = r.port[o]
<1> DEFINE f == [r.port EXCEPT ![p] = q]
<1>1. f \in [Port(b) -> PortRec] /\ f[p] = q /\ \A o \in Port(b) : o # p => f[o] = r.port[o]
  BY DEF BridgeRec
<1> HIDE DEF f
<1>2. [r EXCEPT !.port = f] \in BridgeRec(b)
  BY <1>1 DEF BridgeRec
<1>3. LET s == [r EXCEPT !.port = f]
      IN  s.priority = r.priority /\ s.gm = r.gm /\ s.gmPath = r.gmPath /\ s.port = f
  BY DEF BridgeRec
<1> QED BY <1>1, <1>2, <1>3 DEF f

LEMMA BeforeIsPending ==
    ASSUME NEW b \in Bridge, NEW r \in Before(b), NEW p \in Port(b)
    PROVE  r \in Pending(b, p)
BY DEF Before, Pending, Known

LEMMA SetPortBefore ==
    ASSUME NEW b \in Bridge, NEW p \in Port(b), NEW r \in Pending(b, p), NEW q \in PortRec,
           KnownPort(q, b, p)
    PROVE  [r EXCEPT !.port = [r.port EXCEPT ![p] = q]] \in Before(b)
<1> DEFINE s == [r EXCEPT !.port = [r.port EXCEPT ![p] = q]]
<1>1. /\ s \in BridgeRec(b) /\ s.port[p] = q
      /\ \A o \in Port(b) : o # p => s.port[o] = r.port[o]
  BY SetPort DEF Pending
<1> HIDE DEF s
<1>2. Known(s, b)
  BY <1>1 DEF Known, Pending
<1> QED BY <1>1, <1>2 DEF Before, s

LEMMA AgedSound ==
    ASSUME NEW b \in Bridge, NEW r \in Before(b), NEW p \in Port(b)
    PROVE  Aged(r, b, p) \in After(b)
<1> DEFINE q == [r.port[p] EXCEPT !.infoIs = "AGED"]
<1>1. q \in PortRec /\ q.infoIs = "AGED"
  BY DEF Before, BridgeRec, PortRec
<1>2. [r EXCEPT !.port[p].infoIs = "AGED"] = [r EXCEPT !.port = [r.port EXCEPT ![p] = q]]
  BY DEF Before, BridgeRec
<1>3. [r EXCEPT !.port[p].infoIs = "AGED"] \in Before(b)
  <2>1. KnownPort(q, b, p)
    BY <1>1 DEF KnownPort
  <2> HIDE DEF q
  <2> QED BY <1>1, <1>2, <2>1, BeforeIsPending, SetPortBefore
<1> QED BY <1>3, UpdateRolesSound DEF Aged

LEMMA IntfEventSound ==
    ASSUME NEW b \in Bridge, NEW p \in Port(b), NEW r \in Pending(b, p)
    PROVE  IntfEvent(r, b, p) \in After(b)
<1>1. r.port[p] \in PortRec /\ 0 \in 0 .. TIMEOUT
  BY NumberAssumption DEF Pending, BridgeRec
<1>2. CASE r.port[p].capable
  <2> DEFINE q == [r.port[p] EXCEPT !.infoIs = "AGED", !.txReset = TRUE, !.rxTimer = 0]
             s == [r EXCEPT !.port[p].infoIs = "AGED", !.port[p].txReset = TRUE, !.port[p].rxTimer = 0]
  <2>1. q \in PortRec /\ KnownPort(q, b, p)
    BY <1>1 DEF PortRec, KnownPort
  <2>2. s = [r EXCEPT !.port = [r.port EXCEPT ![p] = q]]
    BY DEF Pending, BridgeRec
  <2> HIDE DEF q
  <2>3. s \in Before(b)
    BY <2>1, <2>2, SetPortBefore
  <2> HIDE DEF s
  <2>4. IntfEvent(r, b, p) = UpdateRoles(s, b)
    BY <1>2 DEF IntfEvent, s
  <2> QED BY <2>3, <2>4, UpdateRolesSound
<1>3. CASE ~r.port[p].capable
  <2> DEFINE q == [r.port[p] EXCEPT !.infoIs = "DISABLED"]
             s == [r EXCEPT !.port[p].infoIs = "DISABLED"]
  <2>1. q \in PortRec /\ KnownPort(q, b, p)
    BY <1>1, <1>3 DEF PortRec, KnownPort
  <2>2. s = [r EXCEPT !.port = [r.port EXCEPT ![p] = q]]
    BY DEF Pending, BridgeRec
  <2> HIDE DEF q
  <2>3. s \in Before(b)
    BY <2>1, <2>2, SetPortBefore
  <2> HIDE DEF s
  <2>4. IntfEvent(r, b, p) = UpdateRoles(s, b)
    BY <1>3 DEF IntfEvent, s
  <2> QED BY <2>3, <2>4, UpdateRolesSound
<1> QED BY <1>2, <1>3

LEMMA IntfEventsSound ==
    ASSUME NEW b \in Bridge, NEW r \in Before(b)
    PROVE  IntfEvents(r, b) \in After(b)
<1> DEFINE X == Before(b)
           Event(p, s) == IF p \in Port(b) THEN IntfEvent(s, b, p) ELSE s
           Step == [p \in 1 .. Ports |-> [s \in X |-> Event(p, s)]]
           done[p \in 0 .. Ports] ==
               IF p = 0 THEN r ELSE IF p \in Port(b) THEN IntfEvent(done[p - 1], b, p) ELSE done[p - 1]
<1>1. Ports \in Nat /\ Port(b) \subseteq 1 .. Ports /\ Port(b) # {}
  BY BridgeFacts
<1>2. \A p \in 1 .. Ports : \A s \in X : Event(p, s) \in X
  BY IntfEventSound, AfterIsBefore, BeforeIsPending
<1>3. r \in X /\ Keeps(Step, Ports, X)
  BY <1>2 DEF Keeps
<1>4. PICK f : Follows(f, Step, Ports, X, r)
  <2> HIDE DEF X, Step, Event
  <2> QED BY <1>1, <1>3, ByPredecessor
<1>5. f = [p \in 0 .. Ports |->
             IF p = 0 THEN r ELSE IF p \in Port(b) THEN IntfEvent(f[p - 1], b, p) ELSE f[p - 1]]
  <2>1. ASSUME NEW p \in 1 .. Ports
        PROVE  f[p] = IF p \in Port(b) THEN IntfEvent(f[p - 1], b, p) ELSE f[p - 1]
    <3>1. f[p] = Step[p][f[p - 1]] /\ f[p - 1] \in X
      <4> HIDE DEF X, Step
      <4> QED BY <1>1, <1>4 DEF Follows
    <3>2. f[p] = Event(p, f[p - 1])
      <4> HIDE DEF X, Event
      <4> QED BY <3>1
    <3> QED BY <3>2
  <2> HIDE DEF X, Step
  <2> QED BY <1>1, <1>4, <2>1 DEF Follows
<1>6. done = [p \in 0 .. Ports |->
             IF p = 0 THEN r ELSE IF p \in Port(b) THEN IntfEvent(done[p - 1], b, p) ELSE done[p - 1]]
  BY <1>5
<1>7. IntfEvents(r, b) = done[Ports]
  BY DEF IntfEvents
<1> HIDE DEF done
<1> DEFINE S == {p \in 0 .. Ports :
                   done[p] \in Before(b) /\ ((\E q \in Port(b) : q <= p) => done[p] \in After(b))}
<1>8. 0 \in S
  BY <1>1, <1>6
<1>9. ASSUME NEW p \in 1 .. Ports, p - 1 \in S PROVE p \in S
  <2>1. CASE p \in Port(b)
    <3>1. done[p] = IntfEvent(done[p - 1], b, p)
      BY <1>1, <1>6, <2>1
    <3> QED BY <1>9, <2>1, <3>1, IntfEventSound, AfterIsBefore, BeforeIsPending
  <2>2. CASE p \notin Port(b)
    <3>1. done[p] = done[p - 1]
      BY <1>1, <1>6, <2>2
    <3>2. \A q \in Port(b) : q <= p => q <= p - 1
      BY <1>1, <2>2
    <3> QED BY <1>9, <3>1, <3>2
  <2> QED BY <2>1, <2>2
<1>10. Ports \in S
  <2> HIDE DEF S
  <2> QED BY <1>1, <1>8, <1>9, Upwards
<1> QED BY <1>1, <1>7, <1>10

\* A change of one port that is no business of the election.
LEMMA SetPortAfter ==
    ASSUME NEW b \in Bridge, NEW r \in After(b), NEW p \in Port(b), NEW q \in PortRec,
           q.capable => r.port[p].capable, q.infoIs = r.port[p].infoIs,
           q.vec = r.port[p].vec, q.role = r.port[p].role
    PROVE  [r EXCEPT !.port = [r.port EXCEPT ![p] = q]] \in After(b)
<1> DEFINE s == [r EXCEPT !.port = [r.port EXCEPT ![p] = q]]
<1>1. /\ s \in BridgeRec(b) /\ s.priority = r.priority /\ s.gm = r.gm /\ s.gmPath = r.gmPath
      /\ s.port[p] = q /\ \A o \in Port(b) : o # p => s.port[o] = r.port[o]
  BY AfterIsBefore, SetPort
<1> HIDE DEF s
<1>2. s \in After(b)
  BY <1>1, SameElection
<1> QED BY <1>2 DEF s

LEMMA TakePathSound ==
    ASSUME NEW b \in Bridge, NEW r \in After(b), NEW p \in Port(b), NEW m \in Msg
    PROVE  TakePath(m, r, b, p) \in After(b)
<1>1. r \in BridgeRec(b) /\ m.path \in SUBSET Bridge
  BY AfterIsBefore DEF Msg
<1> DEFINE path == IF Cardinality(m.path) < MaxHops THEN m.path \cup {b} ELSE m.path
           s == [r EXCEPT !.gmPath = path]
<1>2. path \in SUBSET Bridge
  BY <1>1
<1>3. TakePath(m, r, b, p) = IF r.port[p].role = "SLAVE" /\ r.gm[2] = m.vec[2] THEN s ELSE r
  BY DEF TakePath
<1> HIDE DEF path
<1>4. s \in BridgeRec(b) /\ s.priority = r.priority /\ s.gm = r.gm /\ s.port = r.port
  BY <1>1, <1>2 DEF BridgeRec
<1> HIDE DEF s
<1>5. r.port[p].role = "SLAVE" => r.gm[2] # b
  BY DEF After, Before, Elected, Known, KnownPort, FromPeer, IsFrom
<1>6. r.port[p].role = "SLAVE" => s \in After(b)
  BY <1>4, <1>5, SameElection
<1> QED BY <1>3, <1>6

LEMMA AnnounceRxSound ==
    ASSUME NEW b \in Bridge, NEW r \in After(b), NEW p \in Port(b), NEW v \in Vec,
           FromPeer(v, b, p)
    PROVE  AnnounceRx(r, b, p, v) \in After(b)
<1>1. r \in Before(b) /\ r \in BridgeRec(b) /\ r.port[p] \in PortRec /\ 0 \in 0 .. TIMEOUT
  BY AfterIsBefore, NumberAssumption
<1>2. CASE Superior(v, r.port[p].vec)
  <2> DEFINE q == [r.port[p] EXCEPT !.vec = v, !.infoIs = "RECEIVED", !.rxTimer = 0]
             s == [r EXCEPT !.port[p].vec = v, !.port[p].infoIs = "RECEIVED", !.port[p].rxTimer = 0]
  <2>1. q \in PortRec /\ KnownPort(q, b, p)
    BY <1>1 DEF PortRec, KnownPort
  <2>2. s = [r EXCEPT !.port = [r.port EXCEPT ![p] = q]]
    BY <1>1 DEF BridgeRec
  <2> HIDE DEF q
  <2>3. s \in Before(b)
    BY <1>1, <2>1, <2>2, BeforeIsPending, SetPortBefore
  <2>4. v # r.port[p].vec
    BY <1>1, <1>2, SuperiorOnce DEF PortRec
  <2>5. AnnounceRx(r, b, p, v) = UpdateRoles(s, b)
    BY <1>2, <2>4 DEF AnnounceRx
  <2> HIDE DEF s
  <2> QED BY <2>3, <2>5, UpdateRolesSound
<1>3. CASE ~Superior(v, r.port[p].vec) /\ v = r.port[p].vec
  <2> DEFINE q == [r.port[p] EXCEPT !.rxTimer = 0]
             s == [r EXCEPT !.port[p].rxTimer = 0]
  <2>1. /\ q \in PortRec /\ q.capable = r.port[p].capable /\ q.infoIs = r.port[p].infoIs
        /\ q.vec = r.port[p].vec /\ q.role = r.port[p].role
    BY <1>1 DEF PortRec
  <2>2. s = [r EXCEPT !.port = [r.port EXCEPT ![p] = q]]
    BY <1>1 DEF BridgeRec
  <2> HIDE DEF q
  <2>3. s \in After(b)
    BY <2>1, <2>2, SetPortAfter
  <2> HIDE DEF s
  <2>4. AnnounceRx(r, b, p, v) = s
    BY <1>3 DEF AnnounceRx, s
  <2> QED BY <2>3, <2>4
<1>4. CASE ~Superior(v, r.port[p].vec) /\ v # r.port[p].vec
  BY <1>4 DEF AnnounceRx
<1> QED BY <1>2, <1>3, <1>4

LEMMA TimerSet ==
    ASSUME NEW b \in Bridge, NEW r \in After(b), NEW p \in Port(b), NEW t \in 0 .. TIMEOUT
    PROVE  [r EXCEPT !.port[p].rxTimer = t] \in After(b)
<1>1. r \in BridgeRec(b) /\ r.port[p] \in PortRec
  BY AfterIsBefore
<1> DEFINE q == [r.port[p] EXCEPT !.rxTimer = t]
<1>2. /\ q \in PortRec /\ q.capable = r.port[p].capable /\ q.infoIs = r.port[p].infoIs
      /\ q.vec = r.port[p].vec /\ q.role = r.port[p].role
  BY <1>1 DEF PortRec
<1>3. [r EXCEPT !.port[p].rxTimer = t] = [r EXCEPT !.port = [r.port EXCEPT ![p] = q]]
  BY <1>1 DEF BridgeRec
<1> HIDE DEF q
<1> QED BY <1>2, <1>3, SetPortAfter

LEMMA ReceiptSound ==
    ASSUME NEW b \in Bridge, NEW r \in After(b), NEW p \in Port(b)
    PROVE  Receipt(r, b, p) \in After(b)
<1>1. r \in BridgeRec(b) /\ r.port[p] \in PortRec /\ TIMEOUT \in Nat
  BY AfterIsBefore, NumberAssumption
<1>2. r.port[p].rxTimer \in 0 .. TIMEOUT /\ 0 \in 0 .. TIMEOUT
  BY <1>1 DEF PortRec
<1>3. CASE r.port[p].infoIs # "RECEIVED"
  BY <1>2, <1>3, TimerSet DEF Receipt
<1>4. CASE r.port[p].infoIs = "RECEIVED" /\ r.port[p].rxTimer < TIMEOUT
  <2> DEFINE t == r.port[p].rxTimer + 1
  <2>1. t \in 0 .. TIMEOUT
    BY <1>1, <1>2, <1>4
  <2>2. Receipt(r, b, p) = [r EXCEPT !.port[p].rxTimer = t]
    BY <1>1, <1>4 DEF Receipt, BridgeRec, PortRec
  <2> HIDE DEF t
  <2> QED BY <2>1, <2>2, TimerSet
<1>5. CASE r.port[p].infoIs = "RECEIVED" /\ ~(r.port[p].rxTimer < TIMEOUT)
  <2> DEFINE s == [r EXCEPT !.port[p].rxTimer = 0]
  <2>1. s \in After(b)
    BY <1>2, TimerSet
  <2>2. Receipt(r, b, p) = Aged(s, b, p)
    BY <1>5 DEF Receipt
  <2> HIDE DEF s
  <2> QED BY <2>1, <2>2, AgedSound, AfterIsBefore
<1> QED BY <1>3, <1>4, <1>5

-----------------------------------------------------------------------------
(* A tick: the ports one after the other, with what they send.               *)

Out(b) == {out \in [Port(b) -> Msg \cup {NULL}] :
              \A p \in Port(b) : out[p] # NULL => out[p].vec[4] = b /\ out[p].vec[5] = p}
Ticked(b) == {s \in [r : BridgeRec(b), out : Out(b)] : s.r \in After(b)}

LEMMA AnnounceSound ==
    ASSUME NEW b \in Bridge, NEW r \in After(b), NEW p \in Port(b)
    PROVE  LET m == Announce(r, b, p)
           IN  m \in Msg /\ m # NULL /\ m.vec[4] = b /\ m.vec[5] = p
<1>1. r.gm \in Vec /\ r.gmPath \in SUBSET Bridge /\ b \in Nat /\ p \in Nat
  BY AfterIsBefore, BridgeFacts DEF BridgeRec
<1>2. r.gm[2] \in Bridge
  <2>1. Known(r, b) /\ Elected(r, b)
    BY DEF After, Before
  <2>2. CASE r.gm = Own(r, b)
    BY <2>2 DEF Own
  <2>3. CASE r.gm # Own(r, b)
    <3>1. PICK q \in Port(b) : r.port[q].infoIs = "RECEIVED" /\ r.gm = Further(r.port[q].vec)
      BY <2>1, <2>3 DEF Elected
    <3>2. r.port[q].vec \in Vec /\ r.port[q].vec[2] \in Bridge
      BY <2>1, <3>1, AfterIsBefore DEF Known, KnownPort, FromPeer, PortRec
    <3> QED BY <3>1, <3>2 DEF Further, Vec
  <2> QED BY <2>2, <2>3
<1> DEFINE v == <<r.gm[1], r.gm[2], r.gm[3], b, p>>
<1>3. r.gm[1] \in Nat /\ r.gm[2] \in Nat /\ r.gm[3] \in Nat
  BY <1>1 DEF Vec
<1>4. v \in Seq(Nat) /\ Len(v) = 5 /\ v[2] \in Bridge /\ v[4] = b /\ v[5] = p
  BY <1>1, <1>2, <1>3
<1> HIDE DEF v
<1>5. Announce(r, b, p) = [vec |-> v, path |-> r.gmPath]
  BY DEF Announce, v
<1> QED BY <1>1, <1>4, <1>5, NullAssumption DEF Msg

LEMMA CheckPortSound ==
    ASSUME NEW b \in Bridge, NEW s \in Ticked(b), NEW p \in Port(b)
    PROVE  CheckPort(s, b, p) \in Ticked(b)
<1> DEFINE r == s.r
<1>1. /\ s \in [r : BridgeRec(b), out : Out(b)] /\ r \in After(b) /\ r \in BridgeRec(b)
      /\ s.out \in Out(b) /\ r.port[p] \in PortRec
  BY AfterIsBefore DEF Ticked
<1>2. CASE ~r.port[p].capable /\ r.port[p].infoIs = "DISABLED"
  BY <1>2 DEF CheckPort
<1>3. CASE ~r.port[p].capable /\ r.port[p].infoIs # "DISABLED"
  <2>1. IntfEvent(r, b, p) \in After(b) /\ IntfEvent(r, b, p) \in BridgeRec(b)
    BY <1>1, IntfEventSound, AfterIsBefore, BeforeIsPending
  <2>2. CheckPort(s, b, p) = [s EXCEPT !.r = IntfEvent(r, b, p)]
    BY <1>3 DEF CheckPort
  <2> HIDE DEF r
  <2> QED BY <1>1, <2>1, <2>2 DEF Ticked
<1>4. CASE r.port[p].capable
  <2> DEFINE q == [r.port[p] EXCEPT !.txReset = FALSE]
             t == [r EXCEPT !.port[p].txReset = FALSE]
             sends == ~r.port[p].txReset /\ r.port[p].role = "MASTER"
             out == IF sends THEN [s.out EXCEPT ![p] = Announce(r, b, p)] ELSE s.out
  <2>1. /\ q \in PortRec /\ q.capable = r.port[p].capable /\ q.infoIs = r.port[p].infoIs
        /\ q.vec = r.port[p].vec /\ q.role = r.port[p].role
    BY <1>1 DEF PortRec
  <2>2. t = [r EXCEPT !.port = [r.port EXCEPT ![p] = q]]
    BY <1>1 DEF BridgeRec
  <2>3. t \in After(b)
    <3> HIDE DEF q, t
    <3> QED BY <1>1, <2>1, <2>2, SetPortAfter
  <2>4. LET m == Announce(r, b, p) IN m \in Msg /\ m.vec[4] = b /\ m.vec[5] = p
    BY <1>1, AnnounceSound
  <2>5. out \in Out(b)
    BY <1>1, <2>4 DEF Out
  <2>6. CheckPort(s, b, p) = [r |-> Receipt(t, b, p), out |-> out]
    BY <1>4 DEF CheckPort
  <2> HIDE DEF r, t, out
  <2>7. Receipt(t, b, p) \in After(b) /\ Receipt(t, b, p) \in BridgeRec(b)
    BY <2>3, ReceiptSound, AfterIsBefore
  <2> QED BY <2>5, <2>6, <2>7 DEF Ticked
<1> QED BY <1>2, <1>3, <1>4

LEMMA CheckPortsSound ==
    ASSUME NEW b \in Bridge, NEW r \in After(b)
    PROVE  CheckPorts(r, b) \in Ticked(b)
<1> DEFINE X == Ticked(b)
           x == [r |-> r, out |-> [q \in Port(b) |-> NULL]]
           Check(p, s) == IF p \in Port(b) THEN CheckPort(s, b, p) ELSE s
           Step == [p \in 1 .. Ports |-> [s \in X |-> Check(p, s)]]
           done[p \in 0 .. Ports] ==
               IF p = 0 THEN [r |-> r, out |-> [q \in Port(b) |-> NULL]]
               ELSE IF p \in Port(b) THEN CheckPort(done[p - 1], b, p) ELSE done[p - 1]
<1>1. Ports \in Nat
  BY BridgeFacts
<1>2. \A p \in 1 .. Ports : \A s \in X : Check(p, s) \in X
  BY CheckPortSound
<1>3. x \in X /\ Keeps(Step, Ports, X)
  <2>1. x \in X
    BY AfterIsBefore DEF Ticked, Out
  <2>2. Keeps(Step, Ports, X)
    BY <1>2 DEF Keeps
  <2> QED BY <2>1, <2>2
<1>4. PICK f : Follows(f, Step, Ports, X, x)
  <2> HIDE DEF X, x, Step, Check
  <2> QED BY <1>1, <1>3, ByPredecessor
<1>5. f = [p \in 0 .. Ports |->
             IF p = 0 THEN x ELSE IF p \in Port(b) THEN CheckPort(f[p - 1], b, p) ELSE f[p - 1]]
  <2>1. ASSUME NEW p \in 1 .. Ports
        PROVE  f[p] = IF p \in Port(b) THEN CheckPort(f[p - 1], b, p) ELSE f[p - 1]
    <3>1. f[p] = Step[p][f[p - 1]] /\ f[p - 1] \in X
      <4> HIDE DEF X, x, Step
      <4> QED BY <1>1, <1>4 DEF Follows
    <3>2. f[p] = Check(p, f[p - 1])
      <4> HIDE DEF X, Check
      <4> QED BY <3>1
    <3> QED BY <3>2
  <2> HIDE DEF X, x, Step
  <2> QED BY <1>1, <1>4, <2>1 DEF Follows
<1>6. done = [p \in 0 .. Ports |->
             IF p = 0 THEN x ELSE IF p \in Port(b) THEN CheckPort(done[p - 1], b, p) ELSE done[p - 1]]
  BY <1>5
<1>7. CheckPorts(r, b) = done[Ports]
  BY DEF CheckPorts
<1> HIDE DEF done, x
<1> DEFINE S == {p \in 0 .. Ports : done[p] \in X}
<1>8. 0 \in S
  BY <1>1, <1>3, <1>6
<1>9. ASSUME NEW p \in 1 .. Ports, p - 1 \in S PROVE p \in S
  <2>1. done[p] = Check(p, done[p - 1])
    BY <1>1, <1>6
  <2> QED BY <1>2, <1>9, <2>1
<1>10. Ports \in S
  <2> HIDE DEF S
  <2> QED BY <1>1, <1>8, <1>9, Upwards
<1> QED BY <1>7, <1>10

-----------------------------------------------------------------------------
(* The network: a link has another end.                                     *)

LEMMA PeerOfEnd ==
    ASSUME NEW e \in End
    PROVE  /\ Peer(e) \in End /\ Peer(Peer(e)) = e
           /\ e = <<e[1], e[2]>> /\ e[1] \in Bridge /\ e[2] \in Port(e[1])
           /\ Peer(e) = <<Peer(e)[1], Peer(e)[2]>>
           /\ Peer(e)[1] \in Bridge /\ Peer(e)[2] \in Port(Peer(e)[1])
<1>1. PICK l \in Link : e \in l
  BY DEF End
<1>2. l \subseteq Bridge \X (1 .. Ports) /\ Cardinality(l) = 2 /\ IsFiniteSet(Bridge) /\ Ports \in Nat
  BY BridgeAssumption
<1>3. IsFiniteSet(l)
  <2>1. IsFiniteSet(1 .. Ports)
    BY <1>2, FS_Interval
  <2>2. IsFiniteSet(Bridge \X (1 .. Ports))
    BY <1>2, <2>1, FS_Product
  <2> QED BY <1>2, <2>2, FS_Subset
<1>4. IsFiniteSet(l \ {e}) /\ Cardinality(l \ {e}) = 1
  BY <1>1, <1>2, <1>3, FS_RemoveElement
<1>5. PICK f : l \ {e} = {f}
  BY <1>4, FS_Singleton
<1>6. f # e /\ {e, f} \in Link /\ f \in End
  <2>1. f # e /\ l = {e, f}
    BY <1>1, <1>5
  <2> QED BY <2>1 DEF End
<1>7. Peer(e) \in End /\ Peer(e) # e /\ {e, Peer(e)} \in Link
  BY <1>6 DEF Peer, PeerOf
<1>8. Peer(Peer(e)) = e
  <2>1. ASSUME NEW g, g # Peer(e), {Peer(e), g} \in Link PROVE g = e
    <3>1. {Peer(e), g} \cap {e, Peer(e)} # {}
      OBVIOUS
    <3>2. {Peer(e), g} = {e, Peer(e)}
      BY <1>7, <2>1, <3>1, BridgeAssumption
    <3> QED BY <2>1, <3>2
  <2>2. {Peer(e), e} = {e, Peer(e)}
    OBVIOUS
  <2>3. Peer(Peer(e)) = CHOOSE g \in End : g # Peer(e) /\ {Peer(e), g} \in Link
    BY <1>7 DEF Peer, PeerOf
  <2> QED BY <1>7, <2>1, <2>2, <2>3
<1>9. ASSUME NEW g \in End PROVE g = <<g[1], g[2]>> /\ g[1] \in Bridge /\ g[2] \in Port(g[1])
  <2>1. g \in Bridge \X (1 .. Ports)
    BY BridgeAssumption DEF End
  <2> QED BY <2>1 DEF Port, PortsOf
<1> QED BY <1>7, <1>8, <1>9

-----------------------------------------------------------------------------
(* The invariant of the network of bridges.                                 *)

\* An Announce names the port at the other end of the link as its source.
Addressed == {a \in [End -> Msg \cup {NULL}] :
                 \A e \in End : a[e] # NULL => a[e].vec[4] = Peer(e)[1] /\ a[e].vec[5] = Peer(e)[2]}

LEMMA ReceivedVector ==
    ASSUME NEW b \in Bridge, NEW p \in Port(b), NEW r, NEW a \in Addressed, a[<<b, p>>] # NULL,
           Qualified(a[<<b, p>>], r, b, p)
    PROVE  LET v == Append(a[<<b, p>>].vec, p)
           IN  v \in Vec /\ FromPeer(v, b, p) /\ \A i \in 1 .. 5 : v[i] = a[<<b, p>>].vec[i]
<1> DEFINE e == <<b, p>>
           m == a[e]
           v == Append(m.vec, p)
<1>1. e \in End /\ p \in Nat
  BY BridgeFacts DEF Port, PortsOf
<1>2. m \in Msg /\ m.vec[4] = Peer(e)[1] /\ m.vec[5] = Peer(e)[2]
  BY <1>1 DEF Addressed
<1>3. m.vec[4] # b /\ m.vec[3] < MaxSteps /\ m.vec[2] # b
  BY DEF Qualified
<1>4. m.vec \in Seq(Nat) /\ Len(m.vec) = 5 /\ m.vec[2] \in Bridge
  BY <1>2 DEF Msg
<1> HIDE DEF m
<1>5. v \in Vec /\ v[6] = p /\ \A i \in 1 .. 5 : v[i] = m.vec[i]
  BY <1>1, <1>4, AppendPort
<1> HIDE DEF v
<1>6. v[2] = m.vec[2] /\ v[3] = m.vec[3] /\ v[4] = m.vec[4] /\ v[5] = m.vec[5]
  BY <1>5
<1>7. FromPeer(v, b, p)
  BY <1>2, <1>3, <1>4, <1>5, <1>6 DEF FromPeer
<1> QED BY <1>5, <1>7 DEF v, m

Rec == UNION {BridgeRec(b) : b \in Bridge}

BmcaInv ==
    /\ br \in [Bridge -> Rec] /\ \A b \in Bridge : br[b] \in After(b)
    /\ announce \in Addressed

LEMMA BmcaInit == Init => BmcaInv
<1> SUFFICES ASSUME Init PROVE BmcaInv
  OBVIOUS
<1>1. ASSUME NEW b \in Bridge PROVE NewBridge(b) \in After(b)
  <2> DEFINE gm == <<Default, b, 0, b, 0, 0>>
             zero == <<0, 0, 0, 0, 0, 0>>
             port == [p \in Port(b) |-> NewPort(b, p)]
             r == [priority |-> Default, gm |-> gm, gmPath |-> {b}, port |-> port]
  <2>1. Default \in Priority /\ Default \in Nat /\ b \in Nat /\ 0 \in 0 .. TIMEOUT
    BY BridgeAssumption, NumberAssumption
  <2>2. gm \in Vec /\ zero \in Vec
    BY <2>1 DEF Vec
  <2>3. \A p \in Port(b) : NewPort(b, p) \in PortRec /\ KnownPort(NewPort(b, p), b, p)
    BY <2>1, <2>2 DEF NewPort, PortRec, KnownPort
  <2>4. port \in [Port(b) -> PortRec] /\ \A p \in Port(b) : KnownPort(port[p], b, p)
    BY <2>3
  <2>5. NewBridge(b) = UpdateRoles(r, b)
    BY DEF NewBridge
  <2> HIDE DEF gm, port
  <2>6. r \in BridgeRec(b) /\ r.port = port
    BY <2>1, <2>2, <2>4 DEF BridgeRec
  <2> HIDE DEF r
  <2>7. r \in Before(b)
    BY <2>4, <2>6 DEF Before, Known
  <2> QED BY <2>5, <2>7, UpdateRolesSound
<1>2. \A b \in Bridge : br[b] = NewBridge(b)
  BY DEF Init
<1>3. br \in [Bridge -> Rec]
  BY <1>1, AfterIsBefore DEF Init, Rec
<1>4. announce \in Addressed
  BY DEF Init, Addressed
<1> QED BY <1>1, <1>2, <1>3, <1>4 DEF BmcaInv

\* A step that changes one bridge, to a record that fits, keeps the bridges' part.
LEMMA SetBridge ==
    ASSUME BmcaInv, NEW b \in Bridge, NEW r \in After(b), br' = [br EXCEPT ![b] = r]
    PROVE  br' \in [Bridge -> Rec] /\ \A c \in Bridge : br'[c] \in After(c)
<1>1. r \in Rec
  BY AfterIsBefore DEF Rec
<1> QED BY <1>1 DEF BmcaInv

LEMMA BmcaNext == ASSUME BmcaInv, [Next]_vars PROVE BmcaInv'
<1> USE DEF BmcaInv
<1>1. ASSUME NEW b \in Bridge, NEW p \in Port(b), NEW told \in BOOLEAN, CapableChange(b, p, told)
      PROVE  BmcaInv'
  <2> DEFINE q == [br[b].port[p] EXCEPT !.capable = ~@]
             r == [br[b] EXCEPT !.port[p].capable = ~@]
  <2>1. br[b] \in After(b) /\ br[b] \in Before(b) /\ br[b] \in BridgeRec(b) /\ br[b].port[p] \in PortRec
    BY AfterIsBefore
  <2>2. /\ q \in PortRec /\ q.capable = ~br[b].port[p].capable /\ q.infoIs = br[b].port[p].infoIs
        /\ q.vec = br[b].port[p].vec /\ q.role = br[b].port[p].role
    BY <2>1 DEF PortRec
  <2>3. r = [br[b] EXCEPT !.port = [br[b].port EXCEPT ![p] = q]]
    BY <2>1 DEF BridgeRec
  <2>4. /\ r.port[p].capable => told
        /\ br' = [br EXCEPT ![b] = IF told THEN IntfEvent(r, b, p) ELSE r]
        /\ UNCHANGED announce
    BY <1>1 DEF CapableChange, clock
  <2> HIDE DEF q, r
  <2>5. r.port[p] = q
    BY <2>1, <2>2, <2>3, SetPort
  <2>6. CASE told
    <3>1. r \in BridgeRec(b) /\ \A o \in Port(b) \ {p} : r.port[o] = br[b].port[o]
      BY <2>1, <2>2, <2>3, SetPort
    <3>2. r \in Pending(b, p)
      BY <2>1, <3>1 DEF Before, Known, Pending
    <3>3. IntfEvent(r, b, p) \in After(b)
      BY <3>2, IntfEventSound
    <3>4. br' = [br EXCEPT ![b] = IntfEvent(r, b, p)]
      BY <2>4, <2>6
    <3> QED BY <2>4, <3>3, <3>4, SetBridge
  <2>7. CASE ~told
    <3>1. q.capable => br[b].port[p].capable
      BY <2>4, <2>5, <2>7
    <3>2. r \in After(b)
      BY <2>1, <2>2, <2>3, <3>1, SetPortAfter
    <3>3. br' = [br EXCEPT ![b] = r]
      BY <2>4, <2>7
    <3> QED BY <2>4, <3>2, <3>3, SetBridge
  <2> QED BY <2>6, <2>7
<1>2. ASSUME NEW b \in Bridge, NEW p \in Port(b), SyncTimeout(b, p) PROVE BmcaInv'
  <2>1. Aged(br[b], b, p) \in After(b)
    BY AgedSound, AfterIsBefore
  <2>2. br' = [br EXCEPT ![b] = Aged(br[b], b, p)] /\ UNCHANGED announce
    BY <1>2 DEF SyncTimeout, clock
  <2> QED BY <2>1, <2>2, SetBridge
<1>3. ASSUME NEW b \in Bridge, NEW p \in Port(b), AnnounceReceive(b, p) PROVE BmcaInv'
  <2> DEFINE e == <<b, p>>
             m == announce[e]
             v == Append(m.vec, p)
             r == AnnounceRx(TakePath(m, br[b], b, p), b, p, v)
  <2>1. /\ m # NULL /\ announce' = [announce EXCEPT ![e] = NULL]
        /\ br' = IF Qualified(m, br[b], b, p) THEN [br EXCEPT ![b] = r] ELSE br
    BY <1>3 DEF AnnounceReceive
  <2>2. announce' \in Addressed
    BY <2>1 DEF Addressed
  <2>3. ASSUME Qualified(m, br[b], b, p) PROVE r \in After(b)
    <3>1. v \in Vec /\ FromPeer(v, b, p)
      BY <2>1, <2>3, ReceivedVector
    <3>2. e \in End
      BY DEF Port, PortsOf
    <3>3. m \in Msg
      BY <2>1, <3>2 DEF Addressed
    <3> HIDE DEF v, m
    <3>4. TakePath(m, br[b], b, p) \in After(b)
      BY <3>3, TakePathSound
    <3> QED BY <3>1, <3>4, AnnounceRxSound
  <2>4. CASE Qualified(m, br[b], b, p)
    <3>1. br' = [br EXCEPT ![b] = r]
      BY <2>1, <2>4
    <3> HIDE DEF r, m
    <3> QED BY <2>2, <2>3, <2>4, <3>1, SetBridge
  <2>5. CASE ~Qualified(m, br[b], b, p)
    <3>1. br' = br
      BY <2>1, <2>5
    <3> QED BY <2>2, <3>1
  <2> QED BY <2>4, <2>5
<1>4. ASSUME NEW b \in Bridge, NEW prio \in Priority, PrioritySet(b, prio) PROVE BmcaInv'
  <2> DEFINE r == [br[b] EXCEPT !.priority = prio]
  <2>1. br[b] \in BridgeRec(b) /\ Known(br[b], b)
    BY AfterIsBefore DEF Before
  <2>2. r \in BridgeRec(b) /\ r.port = br[b].port
    BY <2>1 DEF BridgeRec
  <2>3. br' = [br EXCEPT ![b] = IntfEvents(r, b)] /\ UNCHANGED announce
    BY <1>4 DEF PrioritySet, clock
  <2> HIDE DEF r
  <2>4. r \in Before(b)
    BY <2>1, <2>2 DEF Before, Known, KnownPort
  <2>5. IntfEvents(r, b) \in After(b)
    BY <2>4, IntfEventsSound
  <2> QED BY <2>3, <2>5, SetBridge
<1>5. ASSUME NEW e \in End, Lose(e) PROVE BmcaInv'
  BY <1>5 DEF Lose, Addressed
<1>6. CASE CalmDown
  BY <1>6 DEF CalmDown
<1>7. ASSUME NEW b \in Bridge, Tick(b) PROVE BmcaInv'
  <2> DEFINE s == CheckPorts(br[b], b)
  <2>1. s \in Ticked(b)
    BY CheckPortsSound
  <2>2. /\ br' = [br EXCEPT ![b] = s.r]
        /\ announce' = [e \in End |-> IF Peer(e)[1] = b THEN s.out[Peer(e)[2]] ELSE announce[e]]
    BY <1>7 DEF Tick
  <2> HIDE DEF s
  <2>3. s.r \in After(b) /\ s.out \in Out(b)
    BY <2>1 DEF Ticked
  <2>4. ASSUME NEW e \in End, Peer(e)[1] = b
        PROVE  LET m == s.out[Peer(e)[2]]
               IN  /\ m \in Msg \cup {NULL}
                   /\ m # NULL => m.vec[4] = Peer(e)[1] /\ m.vec[5] = Peer(e)[2]
    BY <2>3, <2>4, PeerOfEnd DEF Out
  <2>5. announce' \in Addressed
    BY <2>2, <2>4 DEF Addressed
  <2> QED BY <2>2, <2>3, <2>5, SetBridge
<1>8. CASE UNCHANGED vars
  BY <1>8 DEF vars
<1> QED BY <1>1, <1>2, <1>3, <1>4, <1>5, <1>6, <1>7, <1>8 DEF Next

LEMMA BmcaInvariant == Spec => []BmcaInv
BY BmcaInit, BmcaNext, PTL DEF Spec

\* The bridges' records keep their types; no port is left as aged by a step.
THEOREM BmcaTypeOK == Spec => []TypeOK
<1>1. ASSUME BmcaInv PROVE TypeOK
  <2> SUFFICES ASSUME NEW b \in Bridge
               PROVE  /\ br[b].priority \in Priority /\ br[b].gmPath \subseteq Bridge
                      /\ br[b].gm[2] \in Bridge
                      /\ \A p \in Port(b) :
                            [f \in DOMAIN br[b].port[p] \ {"vec"} |-> br[b].port[p][f]] \in PortType
    BY DEF TypeOK
  <2> DEFINE r == br[b]
  <2>1. r \in BridgeRec(b) /\ Known(r, b) /\ Elected(r, b)
    BY <1>1 DEF BmcaInv, After, Before
  <2> HIDE DEF r
  <2>2. /\ r.priority \in Priority /\ r.gmPath \subseteq Bridge /\ r.port \in [Port(b) -> PortRec]
    BY <2>1 DEF BridgeRec
  <2>3. r.gm[2] \in Bridge
    <3>1. CASE r.gm = Own(r, b)
      BY <3>1 DEF Own
    <3>2. ASSUME NEW p \in Port(b), r.port[p].infoIs = "RECEIVED", r.gm = Further(r.port[p].vec)
          PROVE  r.gm[2] \in Bridge
      <4>1. r.port[p].vec \in Vec /\ r.port[p].vec[2] \in Bridge
        BY <2>1, <2>2, <3>2 DEF Known, KnownPort, FromPeer, PortRec
      <4>2. r.gm[2] = r.port[p].vec[2]
        BY <3>2, <4>1 DEF Further, Vec
      <4> QED BY <4>1, <4>2
    <3> QED BY <2>1, <3>1, <3>2 DEF Elected
  <2>4. ASSUME NEW p \in Port(b)
        PROVE  [f \in DOMAIN r.port[p] \ {"vec"} |-> r.port[p][f]] \in PortType
    <3> DEFINE i == r.port[p]
    <3>1. i \in PortRec /\ i.infoIs # "AGED"
      BY <2>1, <2>2 DEF Elected
    <3> HIDE DEF i
    <3>2. DOMAIN i \ {"vec"} = {"capable", "infoIs", "role", "txReset", "rxTimer"}
      BY <3>1 DEF PortRec
    <3>3. [f \in {"capable", "infoIs", "role", "txReset", "rxTimer"} |-> i[f]]
            = [capable |-> i.capable, infoIs |-> i.infoIs, role |-> i.role,
               txReset |-> i.txReset, rxTimer |-> i.rxTimer]
      OBVIOUS
    <3>4. [capable |-> i.capable, infoIs |-> i.infoIs, role |-> i.role,
           txReset |-> i.txReset, rxTimer |-> i.rxTimer] \in PortType
      BY <3>1 DEF PortRec, PortType
    <3> QED BY <3>2, <3>3, <3>4 DEF i
  <2> QED BY <2>2, <2>3, <2>4 DEF r
<1> QED BY <1>1, BmcaInvariant, PTL

\* In every state each bridge that follows another clock has exactly one slave port,
\* and its GM's vector is what that port has received, one step further; a bridge
\* that is the GM itself has none.
THEOREM BmcaOneSlave == Spec => []OneSlave
<1>1. ASSUME BmcaInv PROVE OneSlave
  <2> SUFFICES ASSUME NEW b \in Bridge
               PROVE  IF br[b].gm[2] = b THEN Slaves(b) = {}
                      ELSE \E p \in Port(b) : Slaves(b) = {p} /\ br[b].gm = Further(br[b].port[p].vec)
    BY DEF OneSlave
  <2> DEFINE r == br[b]
  <2>1. Known(r, b) /\ Elected(r, b) /\ r.gm \in Vec /\ \A p \in Port(b) : r.port[p].vec \in Vec
    BY <1>1, AfterIsBefore DEF BmcaInv, After, Before, BridgeRec, PortRec
  <2> HIDE DEF r
  <2>2. \A p \in Port(b) : r.port[p].role = "SLAVE" <=> r.port[p].infoIs = "RECEIVED" /\ IsFrom(r.port[p], r.gm)
    BY <2>1 DEF Elected
  <2>3. CASE r.gm[2] = b
    <3>1. \A p \in Port(b) : r.port[p].role # "SLAVE"
      BY <2>1, <2>2, <2>3 DEF Known, KnownPort, FromPeer, IsFrom
    <3> QED BY <2>3, <3>1 DEF Slaves, r
  <2>4. CASE r.gm[2] # b
    <3>1. r.gm # Own(r, b)
      BY <2>4 DEF Own
    <3>2. PICK p \in Port(b) : r.port[p].infoIs = "RECEIVED" /\ r.gm = Further(r.port[p].vec)
      BY <2>1, <3>1 DEF Elected
    <3>3. r.port[p].vec[6] = p
      BY <2>1, <3>2 DEF Known, KnownPort, FromPeer
    <3>4. IsFrom(r.port[p], r.gm) /\ r.gm[6] = p
      BY <2>1, <3>2, <3>3 DEF IsFrom, Further, Vec
    <3>5. \A q \in Port(b) : r.port[q].role = "SLAVE" => q = p
      BY <2>1, <2>2, <3>4 DEF Known, KnownPort, FromPeer, IsFrom
    <3> QED BY <2>2, <2>4, <3>2, <3>4, <3>5 DEF Slaves, r
  <2> QED BY <2>3, <2>4
<1> QED BY <1>1, BmcaInvariant, PTL

\* In every state a bridge's GM is the best of its own clock and what its ports have
\* received and not given up, and its master ports hold the vector derived from it.
THEOREM BmcaGmIsBest == Spec => []GmIsBest
<1>1. BmcaInv => GmIsBest
  BY DEF BmcaInv, GmIsBest, After, Before, Elected
<1> QED BY <1>1, BmcaInvariant, PTL

-----------------------------------------------------------------------------
(* The network that is left when nothing changes any more: U are the ends of *)
(* the links that are up, P the bridges' priorities.                          *)

Links(U) == U \subseteq End /\ \A e \in U : Peer(e) \in U

\* b and c are the two ends of a link in U.
Beside(U, b, c) == \E p \in Port(b) : <<b, p>> \in U /\ Peer(<<b, p>>)[1] = c

\* n links lead from b to c.
Walk(U, n, b, c) ==
    \E f \in [0 .. n -> Bridge] :
        f[0] = b /\ f[n] = c /\ \A i \in 1 .. n : Beside(U, f[i - 1], f[i])

Reaches(U, b, c) == \E n \in Nat : Walk(U, n, b, c)
IsDist(U, b, c, n) == n \in Nat /\ Walk(U, n, b, c) /\ \A m \in Nat : Walk(U, m, b, c) => n <= m

\* x is the best clock of all bridges that reach c.
Precedes(P, x, y) == P[x] < P[y] \/ (P[x] = P[y] /\ x <= y)
IsRoot(U, P, x, c) ==
    /\ x \in Bridge /\ Reaches(U, x, c)
    /\ \A y \in Bridge : Reaches(U, y, c) => Precedes(P, x, y)

LEMMA WalkZero ==
    ASSUME NEW U, NEW b \in Bridge
    PROVE  Walk(U, 0, b, b)
<1> DEFINE f == [i \in 0 .. 0 |-> b]
<1>1. f \in [0 .. 0 -> Bridge] /\ f[0] = b /\ \A i \in 1 .. 0 : Beside(U, f[i - 1], f[i])
  OBVIOUS
<1> HIDE DEF f
<1> QED BY <1>1 DEF Walk

LEMMA WalkNone ==
    ASSUME NEW U, NEW b, NEW c, Walk(U, 0, b, c)
    PROVE  b = c
BY DEF Walk

LEMMA WalkOn ==
    ASSUME NEW U, NEW n \in Nat, NEW b, NEW c, NEW d \in Bridge, Walk(U, n, b, c), Beside(U, c, d)
    PROVE  Walk(U, n + 1, b, d)
<1>1. PICK f \in [0 .. n -> Bridge] :
        f[0] = b /\ f[n] = c /\ \A i \in 1 .. n : Beside(U, f[i - 1], f[i])
  BY DEF Walk
<1> DEFINE g == [i \in 0 .. n + 1 |-> IF i = n + 1 THEN d ELSE f[i]]
<1>2. g \in [0 .. n + 1 -> Bridge] /\ g[0] = b /\ g[n + 1] = d
  BY <1>1
<1>3. ASSUME NEW i \in 1 .. n + 1 PROVE Beside(U, g[i - 1], g[i])
  <2>1. CASE i = n + 1
    <3>1. g[i - 1] = c /\ g[i] = d
      BY <1>1, <2>1
    <3> QED BY <3>1
  <2>2. CASE i # n + 1
    <3>1. i \in 1 .. n /\ g[i - 1] = f[i - 1] /\ g[i] = f[i]
      BY <2>2
    <3> QED BY <1>1, <3>1
  <2> QED BY <2>1, <2>2
<1> HIDE DEF g
<1> QED BY <1>2, <1>3 DEF Walk

LEMMA WalkBack ==
    ASSUME NEW U, NEW n \in Nat, NEW b, NEW d, Walk(U, n + 1, b, d)
    PROVE  \E c \in Bridge : Walk(U, n, b, c) /\ Beside(U, c, d)
<1>1. PICK f \in [0 .. n + 1 -> Bridge] :
        f[0] = b /\ f[n + 1] = d /\ \A i \in 1 .. n + 1 : Beside(U, f[i - 1], f[i])
  BY DEF Walk
<1> DEFINE g == [i \in 0 .. n |-> f[i]]
<1>2. g \in [0 .. n -> Bridge] /\ g[0] = b /\ g[n] = f[n]
  BY <1>1
<1>3. ASSUME NEW i \in 1 .. n PROVE Beside(U, g[i - 1], g[i])
  <2>1. i \in 1 .. n + 1 /\ g[i - 1] = f[i - 1] /\ g[i] = f[i]
    OBVIOUS
  <2> QED BY <1>1, <2>1
<1> HIDE DEF g
<1>4. Walk(U, n, b, f[n])
  BY <1>2, <1>3 DEF Walk
<1>5. n + 1 \in 1 .. n + 1 /\ (n + 1) - 1 = n
  OBVIOUS
<1>6. Beside(U, f[n], d)
  BY <1>1, <1>5
<1> QED BY <1>1, <1>4, <1>6

LEMMA BesideBoth ==
    ASSUME NEW U, Links(U), NEW b \in Bridge, NEW c, Beside(U, b, c)
    PROVE  c \in Bridge /\ Beside(U, c, b)
<1>1. PICK p \in Port(b) : <<b, p>> \in U /\ Peer(<<b, p>>)[1] = c
  BY DEF Beside
<1> DEFINE e == <<b, p>>
<1>2. e \in End /\ Peer(e) \in U /\ e \in U
  BY <1>1 DEF Links
<1> HIDE DEF e
<1>3. /\ Peer(e) = <<Peer(e)[1], Peer(e)[2]>> /\ Peer(e)[1] \in Bridge
      /\ Peer(e)[2] \in Port(Peer(e)[1]) /\ Peer(Peer(e)) = e
  BY <1>2, PeerOfEnd
<1>4. c = Peer(e)[1] /\ e[1] = b
  BY <1>1 DEF e
<1> QED BY <1>2, <1>3, <1>4 DEF Beside

-----------------------------------------------------------------------------
(* Distances.                                                               *)

LEMMA DistExists ==
    ASSUME NEW U, NEW b, NEW c, NEW k \in Nat, Walk(U, k, b, c)
    PROVE  \E n \in Nat : IsDist(U, b, c, n) /\ n <= k
<1> DEFINE T == {m \in Nat : Walk(U, m, b, c)}
<1>1. T \in SUBSET Nat /\ k \in T
  OBVIOUS
<1>2. PICK n \in T : \A m \in T : n <= m
  <2> HIDE DEF T
  <2> QED BY <1>1, LeastNumber
<1> QED BY <1>1, <1>2 DEF IsDist

LEMMA DistOnce ==
    ASSUME NEW U, NEW b, NEW c, NEW n, NEW m, IsDist(U, b, c, n), IsDist(U, b, c, m)
    PROVE  n = m
<1>1. n <= m /\ m <= n /\ n \in Nat /\ m \in Nat
  BY DEF IsDist
<1> QED BY <1>1

LEMMA DistZero ==
    ASSUME NEW U, NEW b \in Bridge, NEW c, NEW n, IsDist(U, b, c, n)
    PROVE  n = 0 <=> b = c
<1>1. n = 0 => b = c
  BY WalkNone DEF IsDist
<1>2. b = c => n <= 0 /\ n \in Nat
  BY WalkZero DEF IsDist
<1> QED BY <1>1, <1>2

LEMMA DistNext ==
    ASSUME NEW U, Links(U), NEW x, NEW a \in Bridge, NEW c, NEW n, IsDist(U, x, a, n), Beside(U, a, c)
    PROVE  \E k \in Nat : IsDist(U, x, c, k) /\ k <= n + 1 /\ n <= k + 1
<1>1. c \in Bridge /\ Beside(U, c, a)
  BY BesideBoth
<1>2. n \in Nat /\ Walk(U, n + 1, x, c)
  BY <1>1, WalkOn DEF IsDist
<1>3. PICK k \in Nat : IsDist(U, x, c, k) /\ k <= n + 1
  BY <1>2, DistExists
<1>4. Walk(U, k + 1, x, a)
  BY <1>1, <1>3, WalkOn DEF IsDist
<1>5. n <= k + 1
  BY <1>4 DEF IsDist
<1> QED BY <1>3, <1>5

LEMMA Parent ==
    ASSUME NEW U, NEW x, NEW c \in Bridge, NEW n \in Nat, IsDist(U, x, c, n + 1)
    PROVE  \E a \in Bridge : Beside(U, a, c) /\ IsDist(U, x, a, n)
<1>1. PICK a \in Bridge : Walk(U, n, x, a) /\ Beside(U, a, c)
  BY WalkBack DEF IsDist
<1>2. ASSUME NEW m \in Nat, Walk(U, m, x, a) PROVE n <= m
  <2>1. Walk(U, m + 1, x, c)
    BY <1>1, <1>2, WalkOn
  <2>2. n + 1 <= m + 1
    BY <2>1 DEF IsDist
  <2> QED BY <2>2
<1> QED BY <1>1, <1>2 DEF IsDist

\* On the way there is a bridge at each distance, so that no distance is as large as
\* the number of bridges.
LEMMA DistBound ==
    ASSUME NEW U, NEW x, NEW c \in Bridge, NEW n \in Nat, IsDist(U, x, c, n)
    PROVE  n + 1 <= Cardinality(Bridge) /\ Cardinality(Bridge) \in Nat
<1> DEFINE S == {i \in 0 .. n : \E y \in Bridge : IsDist(U, x, y, n - i)}
<1>1. 0 \in S
  OBVIOUS
<1>2. ASSUME NEW i \in 1 .. n, i - 1 \in S PROVE i \in S
  <2>1. PICK y \in Bridge : IsDist(U, x, y, n - (i - 1))
    BY <1>2
  <2>2. n - i \in Nat /\ n - (i - 1) = (n - i) + 1
    OBVIOUS
  <2>3. \E a \in Bridge : IsDist(U, x, a, n - i)
    BY <2>1, <2>2, Parent
  <2> QED BY <2>3
<1>3. ASSUME NEW i \in 0 .. n PROVE i \in S
  <2>1. \A j \in 1 .. i : j - 1 \in S => j \in S
    BY <1>2
  <2> HIDE DEF S
  <2> QED BY <1>1, <2>1, Upwards
<1>4. ASSUME NEW j \in 0 .. n PROVE \E y \in Bridge : IsDist(U, x, y, j)
  <2>1. n - j \in S /\ n - (n - j) = j
    BY <1>3
  <2> QED BY <2>1
<1> DEFINE f == [j \in 0 .. n |-> CHOOSE y \in Bridge : IsDist(U, x, y, j)]
<1>5. \A j \in 0 .. n : f[j] \in Bridge /\ IsDist(U, x, f[j], j)
  BY <1>4
<1>6. f \in [0 .. n -> Bridge]
  BY <1>5
<1> HIDE DEF f
<1>7. \A i, j \in 0 .. n : f[i] = f[j] => i = j
  BY <1>5, DistOnce
<1>8. f \in Injection(0 .. n, Bridge)
  BY <1>6, <1>7 DEF Injection, IsInjective
<1>9. IsFiniteSet(Bridge) /\ IsFiniteSet(0 .. n) /\ Cardinality(0 .. n) = n + 1
  BY BridgeAssumption, FS_Interval
<1>10. Cardinality(Bridge) \in Nat
  BY <1>9, FS_CardinalityType
<1>11. Cardinality(0 .. n) <= Cardinality(Bridge)
  BY <1>8, <1>9, FS_Injection
<1> QED BY <1>9, <1>10, <1>11

-----------------------------------------------------------------------------
(* The best clock.                                                          *)

LEMMA RootExists ==
    ASSUME NEW U, NEW P \in [Bridge -> Nat], NEW c \in Bridge
    PROVE  \E x \in Bridge : IsRoot(U, P, x, c)
<1> DEFINE R == {y \in Bridge : Reaches(U, y, c)}
           A == {P[y] : y \in R}
<1>1. c \in R
  BY WalkZero DEF Reaches
<1>2. R \subseteq Nat /\ Bridge \subseteq Nat
  BY BridgeAssumption
<1>3. PICK s \in A : \A t \in A : s <= t
  <2>1. A \in SUBSET Nat /\ A # {}
    BY <1>1
  <2> HIDE DEF A
  <2> QED BY <2>1, LeastNumber
<1> DEFINE B == {y \in R : P[y] = s}
<1>4. PICK x \in B : \A y \in B : x <= y
  <2>1. B \in SUBSET Nat /\ B # {}
    BY <1>2, <1>3
  <2> HIDE DEF B
  <2> QED BY <2>1, LeastNumber
<1>5. ASSUME NEW y \in R PROVE Precedes(P, x, y)
  <2>1. P[x] = s /\ P[y] \in A /\ P[y] \in Nat /\ s \in Nat
    BY <1>3, <1>4
  <2>2. s <= P[y]
    BY <1>3, <2>1
  <2>3. P[y] = s => x <= y
    BY <1>4
  <2> QED BY <2>1, <2>2, <2>3 DEF Precedes
<1> QED BY <1>4, <1>5 DEF IsRoot

LEMMA RootShared ==
    ASSUME NEW U, Links(U), NEW P, NEW a \in Bridge, NEW c, Beside(U, a, c), NEW x, IsRoot(U, P, x, a)
    PROVE  IsRoot(U, P, x, c)
<1>1. c \in Bridge /\ Beside(U, c, a)
  BY BesideBoth
<1>2. ASSUME NEW y, Reaches(U, y, a) PROVE Reaches(U, y, c)
  BY <1>1, <1>2, WalkOn DEF Reaches
<1>3. ASSUME NEW y, Reaches(U, y, c) PROVE Reaches(U, y, a)
  BY <1>1, <1>3, WalkOn DEF Reaches
<1> QED BY <1>2, <1>3 DEF IsRoot

LEMMA RootReached ==
    ASSUME NEW U, NEW P, NEW c, NEW x, IsRoot(U, P, x, c)
    PROVE  \E n \in Nat : IsDist(U, x, c, n)
BY DistExists DEF IsRoot, Reaches

-----------------------------------------------------------------------------
(* What is true about that network, and the best of it.                      *)

\* v names a clock with its priority, and its steps are a way from there to c.
Truthful(U, P, v, c) == v[2] \in Bridge /\ v[1] = P[v[2]] /\ Walk(U, v[3], v[2], c)

\* An end that is up receives what is true about the bridge at the other end.
Genuine(U, P, v, e) == e \in U /\ Truthful(U, P, v, Peer(e)[1])

\* e is the end that comes first on its link: nearer to the best clock x, at n links
\* from it, or at the same distance and of the bridge with the lower identity.
Ahead(n, a, k, c) == n < k \/ (n = k /\ a < c)
Feeds(U, P, x, n, e) ==
    /\ e \in U /\ IsRoot(U, P, x, e[1]) /\ IsDist(U, x, e[1], n)
    /\ \E k \in Nat : IsDist(U, x, Peer(e)[1], k) /\ Ahead(n, e[1], k, Peer(e)[1])

\* The vector that the other end shall hold.
Fed(P, x, n, e) == <<P[x], x, n, e[1], e[2], Peer(e)[2]>>

LEMMA VecFacts ==
    ASSUME NEW v \in Vec
    PROVE  v[1] \in Nat /\ v[2] \in Nat /\ v[3] \in Nat /\ v[4] \in Nat /\ v[5] \in Nat /\ v[6] \in Nat
BY DEF Vec

LEMMA SuperiorBy ==
    ASSUME NEW v \in Vec, NEW w \in Vec,
           \/ v[1] < w[1]
           \/ v[1] = w[1] /\ v[2] < w[2]
           \/ v[1] = w[1] /\ v[2] = w[2] /\ v[3] < w[3]
           \/ v[1] = w[1] /\ v[2] = w[2] /\ v[3] = w[3] /\ v[4] < w[4]
    PROVE  Superior(v, w)
<1>1. CASE v[1] < w[1]
  BY <1>1 DEF Superior
<1>2. CASE v[1] = w[1] /\ v[2] < w[2]
  <2>1. \A j \in 1 .. 2 - 1 : v[j] = w[j]
    BY <1>2
  <2>2. v[2] < w[2] /\ 2 \in 1 .. 6
    BY <1>2
  <2> QED BY <2>1, <2>2 DEF Superior
<1>3. CASE v[1] = w[1] /\ v[2] = w[2] /\ v[3] < w[3]
  <2>1. \A j \in 1 .. 3 - 1 : v[j] = w[j]
    BY <1>3
  <2>2. v[3] < w[3] /\ 3 \in 1 .. 6
    BY <1>3
  <2> QED BY <2>1, <2>2 DEF Superior
<1>4. CASE v[1] = w[1] /\ v[2] = w[2] /\ v[3] = w[3] /\ v[4] < w[4]
  <2>1. \A j \in 1 .. 4 - 1 : v[j] = w[j]
    BY <1>4
  <2>2. v[4] < w[4] /\ 4 \in 1 .. 6
    BY <1>4
  <2> QED BY <2>1, <2>2 DEF Superior
<1> QED BY <1>1, <1>2, <1>3, <1>4

LEMMA VecEqual ==
    ASSUME NEW v \in Vec, NEW w \in Vec,
           v[1] = w[1], v[2] = w[2], v[3] = w[3], v[4] = w[4], v[5] = w[5], v[6] = w[6]
    PROVE  v = w
BY DEF Vec

LEMMA RootFirst ==
    ASSUME NEW U, NEW P \in [Bridge -> Nat], NEW c, NEW x, NEW k, NEW v \in Vec,
           IsRoot(U, P, x, c), IsDist(U, x, c, k), Truthful(U, P, v, c)
    PROVE  /\ x \in Bridge /\ x \in Nat /\ P[x] \in Nat
           /\ \/ P[x] < v[1]
              \/ P[x] = v[1] /\ x < v[2]
              \/ P[x] = v[1] /\ x = v[2] /\ k <= v[3]
<1>1. v[2] \in Bridge /\ v[3] \in Nat /\ Walk(U, v[3], v[2], c) /\ v[1] = P[v[2]]
  BY VecFacts DEF Truthful
<1>2. Precedes(P, x, v[2]) /\ x \in Bridge
  BY <1>1 DEF IsRoot, Reaches
<1>3. x = v[2] => k <= v[3]
  BY <1>1 DEF IsDist
<1>4. x \in Nat /\ v[2] \in Nat
  BY <1>1, <1>2, BridgeAssumption
<1> QED BY <1>1, <1>2, <1>3, <1>4 DEF Precedes

LEMMA TrueFurther ==
    ASSUME NEW U, NEW P, NEW a, NEW c \in Bridge, NEW v \in Vec, Truthful(U, P, v, a), Beside(U, a, c)
    PROVE  Truthful(U, P, Further(v), c)
<1>1. Further(v)[1] = v[1] /\ Further(v)[2] = v[2] /\ Further(v)[3] = v[3] + 1 /\ v[3] \in Nat
  BY DEF Further, Vec
<1>2. Walk(U, v[3] + 1, v[2], c)
  BY <1>1, WalkOn DEF Truthful
<1> QED BY <1>1, <1>2 DEF Truthful

LEMMA FeedFacts ==
    ASSUME NEW U, Links(U), NEW P \in [Bridge -> Nat], NEW x, NEW n, NEW e, Feeds(U, P, x, n, e)
    PROVE  LET f == Peer(e)
           IN  /\ e \in End /\ f \in End /\ e \in U /\ f \in U /\ Peer(f) = e
               /\ e = <<e[1], e[2]>> /\ f = <<f[1], f[2]>>
               /\ e[1] \in Bridge /\ e[2] \in Port(e[1]) /\ f[1] \in Bridge /\ f[2] \in Port(f[1])
               /\ e[1] # f[1] /\ x # f[1] /\ x \in Bridge /\ n \in Nat
               /\ Beside(U, e[1], f[1]) /\ Beside(U, f[1], e[1]) /\ IsRoot(U, P, x, f[1])
               /\ Fed(P, x, n, e) \in Vec
<1> DEFINE f == Peer(e)
<1>1. e \in U /\ f \in U /\ e \in End /\ f \in End
  BY DEF Links, Feeds
<1>2. /\ Peer(f) = e /\ e = <<e[1], e[2]>> /\ f = <<f[1], f[2]>>
      /\ e[1] \in Bridge /\ e[2] \in Port(e[1]) /\ f[1] \in Bridge /\ f[2] \in Port(f[1])
  BY <1>1, PeerOfEnd
<1>3. /\ IsRoot(U, P, x, e[1]) /\ IsDist(U, x, e[1], n)
  BY DEF Feeds
<1>4. PICK k \in Nat : IsDist(U, x, f[1], k) /\ Ahead(n, e[1], k, f[1])
  BY DEF Feeds
<1> HIDE DEF f
<1>5. Beside(U, e[1], f[1])
  BY <1>1, <1>2 DEF Beside, f
<1>6. Beside(U, f[1], e[1]) /\ IsRoot(U, P, x, f[1]) /\ x \in Bridge
  BY <1>2, <1>3, <1>5, BesideBoth, RootShared DEF IsRoot
<1>7. n \in Nat /\ x \in Nat /\ P[x] \in Nat /\ e[1] \in Nat /\ f[1] \in Nat /\ e[2] \in Nat /\ f[2] \in Nat
  BY <1>2, <1>3, <1>6, BridgeFacts, BridgeAssumption DEF IsDist
<1>8. e[1] # f[1]
  <2>1. e[1] = f[1] => n = k
    BY <1>3, <1>4, DistOnce
  <2> QED BY <1>4, <1>7, <2>1 DEF Ahead
<1>9. x # f[1]
  <2>1. SUFFICES ASSUME x = f[1] PROVE FALSE
    OBVIOUS
  <2>2. k = 0
    BY <1>4, <1>6, <2>1, DistZero
  <2>3. n = 0
    BY <1>4, <1>7, <2>2 DEF Ahead
  <2> QED BY <1>3, <1>6, <1>8, <2>1, <2>3, DistZero
<1>10. Fed(P, x, n, e) \in Vec
  BY <1>7 DEF Fed, f, Vec
<1> QED BY <1>1, <1>2, <1>5, <1>6, <1>7, <1>8, <1>9, <1>10 DEF f

LEMMA FedVector ==
    ASSUME NEW P, NEW x, NEW n, NEW e
    PROVE  LET v == Fed(P, x, n, e)
           IN  v[1] = P[x] /\ v[2] = x /\ v[3] = n /\ v[4] = e[1] /\ v[5] = e[2] /\ v[6] = Peer(e)[2]
BY DEF Fed

\* The other end holds nothing better.
LEMMA FedIsBest ==
    ASSUME NEW U, Links(U), NEW P \in [Bridge -> Nat], NEW x, NEW n, NEW e, Feeds(U, P, x, n, e),
           NEW v \in Vec, Genuine(U, P, v, Peer(e)), FromPeer(v, Peer(e)[1], Peer(e)[2])
    PROVE  v = Fed(P, x, n, e) \/ Superior(Fed(P, x, n, e), v)
<1> DEFINE w == Fed(P, x, n, e)
           f == Peer(e)
<1>1. w \in Vec /\ Peer(f) = e /\ f = <<f[1], f[2]>>
  BY FeedFacts
<1>2. v[4] = e[1] /\ v[5] = e[2] /\ v[6] = f[2]
  <2>1. Peer(<<f[1], f[2]>>) = e
    BY <1>1
  <2> HIDE DEF f
  <2> QED BY <2>1 DEF FromPeer, f
<1>3. Truthful(U, P, v, e[1])
  BY <1>1 DEF Genuine
<1>4. IsRoot(U, P, x, e[1]) /\ IsDist(U, x, e[1], n) /\ n \in Nat
  BY DEF Feeds, IsDist
<1>5. \/ P[x] < v[1]
      \/ P[x] = v[1] /\ x < v[2]
      \/ P[x] = v[1] /\ x = v[2] /\ n <= v[3]
  BY <1>3, <1>4, RootFirst
<1>6. w[1] = P[x] /\ w[2] = x /\ w[3] = n /\ w[4] = e[1] /\ w[5] = e[2] /\ w[6] = f[2]
  BY FedVector
<1>7. v[3] \in Nat
  BY VecFacts
<1> HIDE DEF w, f
<1>8. CASE P[x] = v[1] /\ x = v[2] /\ n = v[3]
  BY <1>1, <1>2, <1>6, <1>8, VecEqual DEF w
<1>9. CASE ~(P[x] = v[1] /\ x = v[2] /\ n = v[3])
  <2>1. w[1] < v[1] \/ (w[1] = v[1] /\ w[2] < v[2]) \/ (w[1] = v[1] /\ w[2] = v[2] /\ w[3] < v[3])
    BY <1>4, <1>5, <1>6, <1>7, <1>9
  <2>2. Superior(w, v)
    BY <1>1, <2>1, SuperiorBy
  <2> QED BY <2>2 DEF w
<1> QED BY <1>8, <1>9

\* Nor can a GM's vector of that bridge take the port from it.
LEMMA FedStays ==
    ASSUME NEW U, Links(U), NEW P \in [Bridge -> Nat], NEW x, NEW n, NEW e, Feeds(U, P, x, n, e),
           NEW w \in Vec, Truthful(U, P, w, Peer(e)[1])
    PROVE  LET m == Master(w, Peer(e)[1], Peer(e)[2])
           IN  /\ m \in Vec /\ Superior(Fed(P, x, n, e), m)
               /\ ~Displaces(w, Fed(P, x, n, e), Peer(e)[1], Peer(e)[2])
<1> DEFINE v == Fed(P, x, n, e)
           f == Peer(e)
           m == Master(w, f[1], f[2])
<1>1. /\ v \in Vec /\ f[1] \in Bridge /\ f[2] \in Port(f[1]) /\ IsRoot(U, P, x, f[1])
      /\ e[1] \in Bridge /\ n \in Nat
  BY FeedFacts
<1>2. PICK k \in Nat : IsDist(U, x, f[1], k) /\ Ahead(n, e[1], k, f[1])
  BY DEF Feeds
<1>3. \/ P[x] < w[1]
      \/ P[x] = w[1] /\ x < w[2]
      \/ P[x] = w[1] /\ x = w[2] /\ k <= w[3]
  BY <1>1, <1>2, RootFirst
<1>4. v[1] = P[x] /\ v[2] = x /\ v[3] = n /\ v[4] = e[1]
  BY FedVector
<1>5. m \in Vec
  BY <1>1, MasterVector
<1>6. m[1] = w[1] /\ m[2] = w[2] /\ m[3] = w[3] /\ m[4] = f[1] /\ w[3] \in Nat
  BY DEF Master, Vec
<1>7. e[1] \in Nat /\ f[1] \in Nat
  BY <1>1, BridgeFacts
<1> HIDE DEF v, m, f
<1>8. \/ v[1] < m[1]
      \/ v[1] = m[1] /\ v[2] < m[2]
      \/ v[1] = m[1] /\ v[2] = m[2] /\ v[3] < m[3]
      \/ v[1] = m[1] /\ v[2] = m[2] /\ v[3] = m[3] /\ v[4] < m[4]
  BY <1>1, <1>2, <1>3, <1>4, <1>6, <1>7 DEF Ahead
<1>9. Superior(v, m)
  BY <1>1, <1>5, <1>8, SuperiorBy
<1>10. ~Superior(m, v)
  BY <1>1, <1>5, <1>9, SuperiorOnce
<1> QED BY <1>5, <1>9, <1>10 DEF Displaces, v, m, f

-----------------------------------------------------------------------------
(* A bridge's record in that network.                                        *)

\* What may compete, also when a port begins to be asCapable.
Received(r, b) == {p \in Port(b) : r.port[p].infoIs = "RECEIVED"}
Potential(r, b) == {Own(r, b)} \cup {Further(r.port[p].vec) : p \in Received(r, b)}

\* The bridge knows nothing that is not true.
AllTrue(U, P, r, b) ==
    /\ r.priority = P[b]
    /\ \A p \in Port(b) : r.port[p].infoIs = "RECEIVED" => Genuine(U, P, r.port[p].vec, <<b, p>>)

Holds(P, x, n, e, r) ==
    LET port == r.port[Peer(e)[2]] IN port.infoIs = "RECEIVED" /\ port.vec = Fed(P, x, n, e)

\* The GM's vector names the best clock and the distance.
Right(P, x, n, r) == r.gm[1] = P[x] /\ r.gm[2] = x /\ r.gm[3] = n

LEMMA EndOfPort ==
    ASSUME NEW b \in Bridge, NEW p \in Port(b)
    PROVE  LET e == <<b, p>>
           IN  /\ e \in End /\ e[1] = b /\ e[2] = p /\ Peer(e) \in End /\ Peer(Peer(e)) = e
               /\ Peer(e) = <<Peer(e)[1], Peer(e)[2]>>
               /\ Peer(e)[1] \in Bridge /\ Peer(e)[2] \in Port(Peer(e)[1])
<1>1. <<b, p>> \in End
  BY DEF Port, PortsOf
<1> QED BY <1>1, PeerOfEnd

LEMMA TruePotential ==
    ASSUME NEW U, Links(U), NEW P \in [Bridge -> Nat], NEW b \in Bridge, NEW r \in Before(b),
           AllTrue(U, P, r, b), NEW w \in Potential(r, b)
    PROVE  w \in Vec /\ Truthful(U, P, w, b)
<1>1. r \in BridgeRec(b) /\ r.priority \in Nat /\ b \in Nat
  BY BridgeAssumption DEF Before, BridgeRec
<1>2. CASE w = Own(r, b)
  <2>1. w \in Vec /\ w[1] = r.priority /\ w[2] = b /\ w[3] = 0
    BY <1>1, <1>2 DEF Own, Vec
  <2>2. Walk(U, 0, b, b)
    BY WalkZero
  <2> QED BY <2>1, <2>2 DEF Truthful, AllTrue
<1>3. ASSUME NEW p \in Port(b), r.port[p].infoIs = "RECEIVED", w = Further(r.port[p].vec)
      PROVE  w \in Vec /\ Truthful(U, P, w, b)
  <2> DEFINE e == <<b, p>>
             v == r.port[p].vec
  <2>1. v \in Vec /\ Genuine(U, P, v, e)
    BY <1>1, <1>3 DEF AllTrue, BridgeRec, PortRec
  <2>2. Beside(U, b, Peer(e)[1])
    BY <2>1 DEF Genuine, Beside
  <2>3. Beside(U, Peer(e)[1], b)
    BY <2>2, BesideBoth
  <2>4. w \in Vec
    BY <1>3, <2>1 DEF Further, Vec
  <2> HIDE DEF v, e
  <2>5. Truthful(U, P, Further(v), b)
    BY <2>1, <2>3, TrueFurther DEF Genuine
  <2> QED BY <1>3, <2>4, <2>5 DEF v
<1> QED BY <1>2, <1>3 DEF Potential, Received

LEMMA GmIsPotential ==
    ASSUME NEW b \in Bridge, NEW r \in After(b)
    PROVE  r.gm \in Potential(r, b) /\ r.gm \in Vec
<1>1. Elected(r, b) /\ r.gm \in Vec
  BY AfterIsBefore DEF After, BridgeRec
<1> QED BY <1>1 DEF Elected, Potential, Received

\* The distance to the best clock is known when the bridge is that clock or when one
\* of the bridges that are nearer has told it.
LEMMA GmRight ==
    ASSUME NEW U, Links(U), NEW P \in [Bridge -> Nat], NEW c \in Bridge, NEW x, NEW n,
           NEW r \in After(c), AllTrue(U, P, r, c), IsRoot(U, P, x, c), IsDist(U, x, c, n),
           \/ n = 0
           \/ \E e : /\ Feeds(U, P, x, n - 1, e) /\ Peer(e)[1] = c /\ Holds(P, x, n - 1, e, r)
                     /\ r.port[Peer(e)[2]].capable
    PROVE  Right(P, x, n, r)
<1>1. r \in Before(c) /\ r \in BridgeRec(c) /\ Known(r, c) /\ Elected(r, c) /\ n \in Nat /\ x \in Bridge
  BY AfterIsBefore DEF After, Before, IsDist, IsRoot
<1>2. r.gm \in Vec /\ Truthful(U, P, r.gm, c)
  BY <1>1, GmIsPotential, TruePotential
<1>3. \/ P[x] < r.gm[1]
      \/ P[x] = r.gm[1] /\ x < r.gm[2]
      \/ P[x] = r.gm[1] /\ x = r.gm[2] /\ n <= r.gm[3]
  BY <1>2, RootFirst
<1>4. \E w \in Candidates(r, c) : w \in Vec /\ w[1] = P[x] /\ w[2] = x /\ w[3] = n
  <2>1. CASE n = 0
    <3>1. x = c
      BY <1>1, <2>1, DistZero
    <3>2. Own(r, c) \in Candidates(r, c) /\ Own(r, c) \in Vec
      BY <1>1, CandidateVectors
    <3>3. Own(r, c)[1] = P[x] /\ Own(r, c)[2] = x /\ Own(r, c)[3] = 0
      BY <3>1 DEF Own, AllTrue
    <3> QED BY <2>1, <3>2, <3>3
  <2>2. CASE n # 0
    <3>1. PICK e : /\ Feeds(U, P, x, n - 1, e) /\ Peer(e)[1] = c /\ Holds(P, x, n - 1, e, r)
                   /\ r.port[Peer(e)[2]].capable
      BY <2>2
    <3> DEFINE f == Peer(e)
               v == Fed(P, x, n - 1, e)
    <3>2. f[2] \in Port(c) /\ e[1] # c /\ v \in Vec
      BY <3>1, FeedFacts
    <3>3. r.port[f[2]].infoIs = "RECEIVED" /\ r.port[f[2]].vec = v /\ r.port[f[2]].capable
      BY <3>1 DEF Holds
    <3>4. v[1] = P[x] /\ v[2] = x /\ v[3] = n - 1 /\ v[4] = e[1]
      BY FedVector
    <3> HIDE DEF f, v
    <3>5. Further(v) \in Candidates(r, c)
      BY <3>2, <3>3, <3>4 DEF Candidates
    <3>6. Further(v) \in Vec /\ Further(v)[1] = v[1] /\ Further(v)[2] = v[2] /\ Further(v)[3] = v[3] + 1
      BY <3>2 DEF Further, Vec
    <3> QED BY <1>1, <2>2, <3>4, <3>5, <3>6
  <2> QED BY <2>1, <2>2
<1>5. PICK w \in Candidates(r, c) : w \in Vec /\ w[1] = P[x] /\ w[2] = x /\ w[3] = n
  BY <1>4
<1>6. ~Superior(w, r.gm)
  BY <1>1 DEF Elected
<1>7. r.gm[3] \in Nat
  BY <1>2, VecFacts
<1>8. SUFFICES ASSUME ~Right(P, x, n, r) PROVE FALSE
  OBVIOUS
<1>9. \/ w[1] < r.gm[1]
      \/ w[1] = r.gm[1] /\ w[2] < r.gm[2]
      \/ w[1] = r.gm[1] /\ w[2] = r.gm[2] /\ w[3] < r.gm[3]
  BY <1>1, <1>3, <1>5, <1>7, <1>8 DEF Right
<1> QED BY <1>2, <1>5, <1>6, <1>9, SuperiorBy

\* Each bridge but the best clock is fed by one that is nearer to it.
LEMMA FedByParent ==
    ASSUME NEW U, Links(U), NEW P, NEW c \in Bridge, NEW x, NEW n \in Nat,
           IsRoot(U, P, x, c), IsDist(U, x, c, n + 1)
    PROVE  \E e : Feeds(U, P, x, n, e) /\ Peer(e)[1] = c
<1>1. PICK a \in Bridge : Beside(U, a, c) /\ IsDist(U, x, a, n)
  BY Parent
<1>2. Beside(U, c, a)
  BY <1>1, BesideBoth
<1>3. IsRoot(U, P, x, a)
  BY <1>2, RootShared
<1>4. PICK q \in Port(a) : <<a, q>> \in U /\ Peer(<<a, q>>)[1] = c
  BY <1>1 DEF Beside
<1> DEFINE e == <<a, q>>
<1>5. e \in U /\ e[1] = a /\ Peer(e)[1] = c
  BY <1>4
<1> HIDE DEF e
<1>6. Ahead(n, e[1], n + 1, Peer(e)[1]) /\ n + 1 \in Nat
  BY DEF Ahead
<1>7. Feeds(U, P, x, n, e)
  BY <1>1, <1>3, <1>5, <1>6 DEF Feeds
<1> QED BY <1>5, <1>7

\* The port that the right GM has come from is the far end of such a feed.
LEMMA SlaveIsFed ==
    ASSUME NEW U, Links(U), NEW P \in [Bridge -> Nat], NEW c \in Bridge, NEW x, NEW n \in Nat,
           NEW r \in After(c), AllTrue(U, P, r, c), IsRoot(U, P, x, c), IsDist(U, x, c, n + 1),
           Right(P, x, n + 1, r), NEW p \in Port(c), r.port[p].infoIs = "RECEIVED",
           r.gm = Further(r.port[p].vec)
    PROVE  Feeds(U, P, x, n, Peer(<<c, p>>)) /\ Holds(P, x, n, Peer(<<c, p>>), r)
<1> DEFINE f == <<c, p>>
           e == Peer(f)
           v == r.port[p].vec
<1>1. /\ f \in End /\ f[1] = c /\ f[2] = p /\ e \in End /\ Peer(e) = f
      /\ e = <<e[1], e[2]>> /\ e[1] \in Bridge /\ e[2] \in Port(e[1])
  BY EndOfPort
<1>2. r \in BridgeRec(c) /\ Known(r, c)
  BY AfterIsBefore DEF After, Before
<1>3. v \in Vec /\ FromPeer(v, c, p) /\ Genuine(U, P, v, f)
  BY <1>2 DEF Known, KnownPort, AllTrue, BridgeRec, PortRec
<1>4. v[4] = e[1] /\ v[5] = e[2] /\ v[6] = p
  BY <1>3 DEF FromPeer
<1>5. v[1] = P[x] /\ v[2] = x /\ v[3] = n
  BY <1>3 DEF Right, Further, Vec
<1>6. f \in U /\ Walk(U, n, x, e[1]) /\ e \in U
  BY <1>3, <1>5 DEF Genuine, Truthful, Links
<1> HIDE DEF v, e, f
<1>7. Beside(U, e[1], c) /\ Beside(U, c, e[1])
  <2>1. Beside(U, e[1], c)
    BY <1>1, <1>6 DEF Beside
  <2> QED BY <1>1, <2>1, BesideBoth
<1>8. IsDist(U, x, e[1], n)
  <2>1. ASSUME NEW m \in Nat, Walk(U, m, x, e[1]) PROVE n <= m
    <3>1. Walk(U, m + 1, x, c)
      BY <1>7, <2>1, WalkOn
    <3>2. n + 1 <= m + 1
      BY <3>1 DEF IsDist
    <3> QED BY <3>2
  <2> QED BY <1>6, <2>1 DEF IsDist
<1>9. IsRoot(U, P, x, e[1])
  BY <1>7, RootShared
<1>10. Ahead(n, e[1], n + 1, Peer(e)[1]) /\ n + 1 \in Nat /\ Peer(e)[1] = c
  BY <1>1 DEF Ahead
<1>11. Feeds(U, P, x, n, e)
  BY <1>6, <1>8, <1>9, <1>10 DEF Feeds
<1>12. Fed(P, x, n, e) \in Vec
  BY <1>11, FeedFacts
<1>13. v = Fed(P, x, n, e)
  BY <1>1, <1>3, <1>4, <1>5, <1>12, FedVector, VecEqual
<1>14. Holds(P, x, n, e, r)
  BY <1>1, <1>13 DEF Holds, v
<1> QED BY <1>11, <1>14 DEF e, f

\* The first end of a link announces: what the other end could tell is worse.
LEMMA NearIsMaster ==
    ASSUME NEW U, Links(U), NEW P \in [Bridge -> Nat], NEW x, NEW n, NEW e, Feeds(U, P, x, n, e),
           NEW r \in After(e[1]), AllTrue(U, P, r, e[1]), Right(P, x, n, r), r.port[e[2]].capable
    PROVE  r.port[e[2]].infoIs = "MINE" /\ r.port[e[2]].role = "MASTER"
<1> DEFINE a == e[1]
           q == e[2]
           c == Peer(e)[1]
           v == r.port[q].vec
<1>1. /\ e \in End /\ e = <<a, q>> /\ a \in Bridge /\ q \in Port(a) /\ c \in Bridge
      /\ x \in Bridge /\ n \in Nat /\ IsRoot(U, P, x, c)
  BY FeedFacts
<1>2. r \in BridgeRec(a) /\ Known(r, a) /\ Elected(r, a) /\ r.port[q] \in PortRec
  BY <1>1, AfterIsBefore DEF After, Before
<1>3. r.port[q].infoIs \in {"RECEIVED", "MINE"}
  BY <1>1, <1>2 DEF Elected, Known, KnownPort, PortRec
<1>4. SUFFICES ASSUME r.port[q].infoIs = "RECEIVED" PROVE FALSE
  BY <1>1, <1>2, <1>3 DEF Elected
<1>5. PICK k \in Nat : IsDist(U, x, c, k) /\ Ahead(n, a, k, c)
  BY DEF Feeds
<1>6. v \in Vec /\ FromPeer(v, a, q) /\ Genuine(U, P, v, e)
  BY <1>1, <1>2, <1>4 DEF Known, KnownPort, AllTrue, PortRec
<1>7. /\ x \in Nat /\ P[x] \in Nat
      /\ \/ P[x] < v[1]
         \/ P[x] = v[1] /\ x < v[2]
         \/ P[x] = v[1] /\ x = v[2] /\ k <= v[3]
  BY <1>1, <1>5, <1>6, RootFirst DEF Genuine
<1>8. v[4] = c /\ v[6] = q /\ q \in Nat \ {0} /\ a \in Nat /\ c \in Nat
  BY <1>1, <1>6, BridgeFacts DEF FromPeer
<1> DEFINE m == Master(r.gm, a, q)
<1>9. r.gm \in Vec /\ m \in Vec
  BY <1>1, <1>2, MasterVector DEF BridgeRec
<1>10. m[1] = P[x] /\ m[2] = x /\ m[3] = n /\ m[4] = a
  BY <1>9 DEF Master, Vec, Right
<1>11. v[3] \in Nat
  BY <1>6, VecFacts
<1>12. Superior(m, v)
  <2> HIDE DEF m, v, a, q, c
  <2>1. \/ m[1] < v[1]
        \/ m[1] = v[1] /\ m[2] < v[2]
        \/ m[1] = v[1] /\ m[2] = v[2] /\ m[3] < v[3]
        \/ m[1] = v[1] /\ m[2] = v[2] /\ m[3] = v[3] /\ m[4] < v[4]
    BY <1>1, <1>5, <1>7, <1>8, <1>10, <1>11 DEF Ahead
  <2> QED BY <1>6, <1>9, <2>1, SuperiorBy
<1>13. ~Displaces(r.gm, v, a, q)
  BY <1>1, <1>2, <1>4 DEF Elected
<1>14. v[1] = r.gm[1] /\ v[2] = r.gm[2] /\ v[6] = r.gm[6]
  BY <1>12, <1>13 DEF Displaces
<1>15. r.gm[6] # 0
  BY <1>8, <1>14
<1>16. PICK o \in Port(a) : r.port[o].infoIs = "RECEIVED" /\ r.gm = Further(r.port[o].vec)
  BY <1>2, <1>15 DEF Elected, Own
<1>17. r.port[o].vec \in Vec /\ r.port[o].vec[6] = o
  BY <1>2, <1>16 DEF Known, KnownPort, FromPeer, BridgeRec, PortRec
<1>18. r.gm[6] = o /\ r.gm[3] = r.port[o].vec[3] + 1
  BY <1>16, <1>17 DEF Further, Vec
<1>19. n = v[3] + 1
  BY <1>8, <1>14, <1>18 DEF Right
<1>20. k <= v[3]
  BY <1>7, <1>8, <1>14 DEF Right
<1> QED BY <1>1, <1>5, <1>11, <1>19, <1>20 DEF Ahead

-----------------------------------------------------------------------------
(* What a tick does to a bridge's record: it only ages.                      *)

\* Nothing that the bridge may know takes the port from what it has received.
Firm(r, b, p) ==
    /\ r.port[p].infoIs = "RECEIVED" /\ r.port[p].capable
    /\ \A w \in Potential(r, b) : ~Displaces(w, r.port[p].vec, b, p)

\* s is what time makes of r: nothing new is known, and what is firm stays for TIMEOUT.
LaterPort(r, s, b, p) ==
    LET i == r.port[p]
        j == s.port[p]
    IN  /\ j.capable = i.capable
        /\ j.infoIs = "RECEIVED" => i.infoIs = "RECEIVED" /\ j.vec = i.vec
        /\ i.infoIs = "MINE" /\ i.capable => j.infoIs = "MINE"
        /\ Firm(r, b, p) /\ i.rxTimer < TIMEOUT => j.infoIs = "RECEIVED" /\ j.vec = i.vec
Later(r, s, b) ==
    /\ s.priority = r.priority /\ (s.gmPath = r.gmPath \/ s.gmPath = {b})
    /\ \A p \in Port(b) : LaterPort(r, s, b, p)

\* What dot1asBmcaUpdateRoles leaves alone.
Kept(i, j) ==
    /\ j.capable = i.capable /\ j.rxTimer = i.rxTimer
    /\ j.infoIs = "RECEIVED" => i.infoIs = "RECEIVED" /\ j.vec = i.vec
    /\ i.infoIs = "MINE" => j.infoIs = "MINE"
    /\ i.infoIs # "AGED" /\ (i.infoIs = "MINE" => i.role = "MASTER") => j.txReset = i.txReset

LEMMA RoleEffect ==
    ASSUME NEW b \in Bridge, NEW p \in Port(b), NEW i \in PortRec, NEW v \in Vec
    PROVE  LET j == Role(i, v, b, p)
           IN  /\ Kept(i, j)
               /\ i.infoIs = "RECEIVED" /\ ~Displaces(v, i.vec, b, p) => j.infoIs = "RECEIVED" /\ j.vec = i.vec
<1>1. Master(v, b, p) \in Vec
  BY MasterVector
<1> DEFINE j == Role(i, v, b, p)
<1>2. CASE i.infoIs = "DISABLED"
  <2>1. j = [i EXCEPT !.role = "DISABLED"]
    BY <1>2 DEF Role
  <2> QED BY <1>2, <2>1 DEF PortRec, Kept
<1>3. CASE i.infoIs \in {"AGED", "MINE"}
  <2>1. j = ToMaster(i, Master(v, b, p))
    BY <1>3 DEF Role
  <2>2. j.infoIs = "MINE" /\ j.capable = i.capable /\ j.rxTimer = i.rxTimer
    BY <2>1 DEF PortRec, ToMaster
  <2>3. j.txReset = (i.txReset \/ i.role # "MASTER")
    BY <2>1 DEF PortRec, ToMaster
  <2> HIDE DEF j
  <2>4. i.role = "MASTER" => j.txReset = i.txReset
    BY <2>3 DEF PortRec
  <2> QED BY <1>3, <2>2, <2>4 DEF Kept, j
<1>4. CASE i.infoIs = "RECEIVED" /\ IsFrom(i, v)
  <2>1. j = [i EXCEPT !.role = "SLAVE"]
    BY <1>4 DEF Role
  <2> QED BY <1>4, <2>1 DEF PortRec, Kept
<1>5. CASE i.infoIs = "RECEIVED" /\ ~IsFrom(i, v) /\ Superior(Master(v, b, p), i.vec)
  <2>1. j = [i EXCEPT !.role = "MASTER", !.infoIs = "MINE", !.vec = Master(v, b, p)]
    BY <1>5 DEF Role
  <2>2. Displaces(v, i.vec, b, p)
    BY <1>5 DEF Displaces, IsFrom
  <2> QED BY <1>5, <2>1, <2>2 DEF PortRec, Kept
<1>6. CASE i.infoIs = "RECEIVED" /\ ~IsFrom(i, v) /\ ~Superior(Master(v, b, p), i.vec)
  <2>1. j = [i EXCEPT !.role = "PASSIVE"]
    BY <1>6 DEF Role
  <2> QED BY <1>6, <2>1 DEF PortRec, Kept
<1> QED BY <1>2, <1>3, <1>4, <1>5, <1>6 DEF PortRec

LEMMA RolesEffect ==
    ASSUME NEW b \in Bridge, NEW r \in Before(b)
    PROVE  LET s == UpdateRoles(r, b)
           IN  /\ s.priority = r.priority /\ (s.gmPath = r.gmPath \/ s.gmPath = {b})
               /\ s.gm \in Potential(r, b)
               /\ \A p \in Port(b) :
                     /\ Kept(r.port[p], s.port[p])
                     /\ r.port[p].infoIs = "RECEIVED" /\ ~Displaces(s.gm, r.port[p].vec, b, p)
                        => s.port[p].infoIs = "RECEIVED" /\ s.port[p].vec = r.port[p].vec
<1> DEFINE v == Best(Candidates(r, b))
           s == UpdateRoles(r, b)
<1>1. r \in BridgeRec(b) /\ \A p \in Port(b) : r.port[p] \in PortRec
  BY DEF Before, BridgeRec
<1>2. v \in Candidates(r, b) /\ v \in Vec
  BY <1>1, CandidateVectors, BestOfSome
<1>3. Candidates(r, b) \subseteq Potential(r, b)
  BY DEF Candidates, Potential, Received
<1> HIDE DEF v
<1>4. s = [r EXCEPT !.gm = v, !.gmPath = IF v[2] = b THEN {b} ELSE @,
                    !.port = [p \in Port(b) |-> Role(r.port[p], v, b, p)]]
  BY DEF UpdateRoles, v
<1>5. /\ s.priority = r.priority /\ s.gm = v /\ (s.gmPath = r.gmPath \/ s.gmPath = {b})
      /\ \A p \in Port(b) : s.port[p] = Role(r.port[p], v, b, p)
  BY <1>1, <1>4 DEF BridgeRec
<1> HIDE DEF s
<1>6. ASSUME NEW p \in Port(b)
      PROVE  /\ Kept(r.port[p], s.port[p])
             /\ r.port[p].infoIs = "RECEIVED" /\ ~Displaces(s.gm, r.port[p].vec, b, p)
                => s.port[p].infoIs = "RECEIVED" /\ s.port[p].vec = r.port[p].vec
  BY <1>1, <1>2, <1>5, RoleEffect
<1> QED BY <1>2, <1>3, <1>5, <1>6 DEF s

LEMMA LaterPotential ==
    ASSUME NEW b, NEW r, NEW s, Later(r, s, b)
    PROVE  Potential(s, b) \subseteq Potential(r, b)
<1>1. Own(s, b) = Own(r, b)
  BY DEF Later, Own
<1>2. \A p \in Received(s, b) : p \in Received(r, b) /\ s.port[p].vec = r.port[p].vec
  BY DEF Later, LaterPort, Received
<1> QED BY <1>1, <1>2 DEF Potential

LEMMA LaterRoles ==
    ASSUME NEW b \in Bridge, NEW r, NEW s \in Before(b), Later(r, s, b)
    PROVE  Later(r, UpdateRoles(s, b), b)
<1> DEFINE u == UpdateRoles(s, b)
<1>1. /\ u.priority = s.priority /\ (u.gmPath = s.gmPath \/ u.gmPath = {b})
      /\ u.gm \in Potential(s, b)
      /\ \A p \in Port(b) :
            /\ Kept(s.port[p], u.port[p])
            /\ s.port[p].infoIs = "RECEIVED" /\ ~Displaces(u.gm, s.port[p].vec, b, p)
               => u.port[p].infoIs = "RECEIVED" /\ u.port[p].vec = s.port[p].vec
  BY RolesEffect
<1> HIDE DEF u
<1>2. u.gm \in Potential(r, b)
  BY <1>1, LaterPotential
<1>3. ASSUME NEW p \in Port(b) PROVE LaterPort(r, u, b, p)
  <2>1. LaterPort(r, s, b, p)
    BY DEF Later
  <2>2. Firm(r, b, p) => ~Displaces(u.gm, r.port[p].vec, b, p)
    BY <1>2 DEF Firm
  <2>3. Kept(s.port[p], u.port[p])
    BY <1>1
  <2>4. s.port[p].infoIs = "RECEIVED" /\ ~Displaces(u.gm, s.port[p].vec, b, p)
        => u.port[p].infoIs = "RECEIVED" /\ u.port[p].vec = s.port[p].vec
    BY <1>1
  <2> QED BY <2>1, <2>2, <2>3, <2>4 DEF LaterPort, Kept
<1> QED BY <1>1, <1>3 DEF Later, u

LEMMA LaterSelf ==
    ASSUME NEW b, NEW r
    PROVE  Later(r, r, b)
BY DEF Later, LaterPort, Firm

\* A change of port p.
LEMMA LaterSetPort ==
    ASSUME NEW b \in Bridge, NEW r, NEW s \in BridgeRec(b), Later(r, s, b), NEW p \in Port(b),
           NEW q \in PortRec, q.capable = s.port[p].capable,
           q.infoIs = "RECEIVED" => s.port[p].infoIs = "RECEIVED" /\ q.vec = s.port[p].vec,
           r.port[p].infoIs = "MINE" /\ r.port[p].capable => q.infoIs = "MINE",
           Firm(r, b, p) /\ r.port[p].rxTimer < TIMEOUT => q.infoIs = "RECEIVED"
    PROVE  Later(r, [s EXCEPT !.port = [s.port EXCEPT ![p] = q]], b)
<1> DEFINE t == [s EXCEPT !.port = [s.port EXCEPT ![p] = q]]
<1>1. /\ t \in BridgeRec(b)
      /\ t.priority = s.priority /\ t.gm = s.gm /\ t.gmPath = s.gmPath
      /\ t.port[p] = q /\ \A o \in Port(b) : o # p => t.port[o] = s.port[o]
  BY SetPort
<1> HIDE DEF t
<1>2. ASSUME NEW o \in Port(b) PROVE LaterPort(r, t, b, o)
  <2>1. LaterPort(r, s, b, o)
    BY DEF Later
  <2> QED BY <1>1, <2>1 DEF LaterPort
<1> QED BY <1>1, <1>2 DEF Later, t

\* What the check of a port does to it, before the roles are updated.
Checked(i, q) ==
    /\ q.capable = i.capable
    /\ q.infoIs = "RECEIVED" =>
          i.infoIs = "RECEIVED" /\ i.capable /\ q.vec = i.vec /\ q.rxTimer = i.rxTimer + 1
    /\ i.infoIs = "RECEIVED" /\ i.capable /\ i.rxTimer < TIMEOUT => q.infoIs = "RECEIVED"
    /\ i.infoIs = "MINE" /\ i.capable => q.infoIs = "MINE"
    /\ q.infoIs = "MINE" => i.infoIs = "MINE" /\ q.role = i.role
    /\ i.capable => ~q.txReset

WithPort(r, p, q) == [r EXCEPT !.port = [r.port EXCEPT ![p] = q]]

LEMMA SamePort ==
    ASSUME NEW b, NEW r \in BridgeRec(b), NEW p \in Port(b)
    PROVE  WithPort(r, p, r.port[p]) = r
<1>1. [r.port EXCEPT ![p] = r.port[p]] = r.port
  BY DEF BridgeRec
<1> QED BY <1>1 DEF WithPort, BridgeRec

LEMMA CheckPortEffect ==
    ASSUME NEW b \in Bridge, NEW s \in Ticked(b), NEW p \in Port(b)
    PROVE  \E q \in PortRec :
             LET t == CheckPort(s, b, p).r
             IN  /\ WithPort(s.r, p, q) \in Before(b)
                 /\ t = WithPort(s.r, p, q) \/ t = UpdateRoles(WithPort(s.r, p, q), b)
                 /\ Checked(s.r.port[p], q)
<1> DEFINE r == s.r
           i == r.port[p]
<1>1. /\ s \in [r : BridgeRec(b), out : Out(b)] /\ r \in After(b) /\ r \in BridgeRec(b)
      /\ r \in Pending(b, p) /\ i \in PortRec /\ KnownPort(i, b, p) /\ Elected(r, b)
  BY AfterIsBefore, BeforeIsPending DEF Ticked, After, Before, Known
<1>2. i.rxTimer \in 0 .. TIMEOUT /\ 0 \in 0 .. TIMEOUT /\ TIMEOUT \in Nat /\ i.infoIs # "AGED"
  BY <1>1, NumberAssumption DEF PortRec, Elected
<1>3. CASE ~i.capable /\ i.infoIs = "DISABLED"
  <2>1. CheckPort(s, b, p) = s
    BY <1>3 DEF CheckPort
  <2>2. WithPort(r, p, i) = r
    BY <1>1, SamePort
  <2>3. Checked(i, i)
    BY <1>3 DEF Checked
  <2>4. r \in Before(b)
    BY <1>1, AfterIsBefore
  <2> HIDE DEF r, i
  <2> QED BY <1>1, <2>1, <2>2, <2>3, <2>4 DEF r, i
<1>4. CASE ~i.capable /\ i.infoIs # "DISABLED"
  <2> DEFINE q == [i EXCEPT !.infoIs = "DISABLED"]
             r1 == [r EXCEPT !.port[p].infoIs = "DISABLED"]
             t == CheckPort(s, b, p)
  <2>1. q \in PortRec /\ KnownPort(q, b, p) /\ Checked(i, q)
    BY <1>1, <1>4 DEF PortRec, KnownPort, Checked
  <2>2. r1 = WithPort(r, p, q)
    BY <1>1 DEF BridgeRec, WithPort
  <2>3. IntfEvent(r, b, p) = UpdateRoles(r1, b)
    BY <1>4 DEF IntfEvent
  <2>4. t = [s EXCEPT !.r = IntfEvent(r, b, p)]
    BY <1>4 DEF CheckPort
  <2> HIDE DEF r1, q
  <2>5. WithPort(r, p, q) \in Before(b)
    BY <1>1, <2>1, SetPortBefore DEF WithPort
  <2>6. t.r = IntfEvent(r, b, p)
    BY <1>1, <2>4
  <2> HIDE DEF t
  <2>7. t.r = UpdateRoles(WithPort(r, p, q), b)
    BY <2>2, <2>3, <2>6
  <2> QED BY <2>1, <2>5, <2>7 DEF t
<1>5. CASE i.capable
  <2> DEFINE u == [r EXCEPT !.port[p].txReset = FALSE]
             j == [i EXCEPT !.txReset = FALSE]
             t == CheckPort(s, b, p)
  <2>1. j \in PortRec /\ u = [r EXCEPT !.port = [r.port EXCEPT ![p] = j]]
    BY <1>1 DEF PortRec, BridgeRec
  <2>2. t.r = Receipt(u, b, p)
    BY <1>5 DEF CheckPort
  <2> HIDE DEF u, t
  <2>3. u \in BridgeRec(b) /\ u.port[p] = j
    <3> HIDE DEF j
    <3> QED BY <1>1, <2>1, SetPort
  <2>4. j.infoIs = i.infoIs /\ j.rxTimer = i.rxTimer /\ j.vec = i.vec /\ j.role = i.role /\ j.capable /\ ~j.txReset
    BY <1>1, <1>5 DEF PortRec
  <2>5. CASE i.infoIs # "RECEIVED"
    <3> DEFINE q == [j EXCEPT !.rxTimer = 0]
    <3>1. q \in PortRec /\ KnownPort(q, b, p) /\ Checked(i, q)
      <4>1. q \in PortRec /\ q.capable /\ q.vec = i.vec /\ q.role = i.role /\ ~q.txReset /\ q.infoIs = i.infoIs
        <5> HIDE DEF i, j
        <5> QED BY <1>2, <2>1, <2>4, <2>5 DEF PortRec
      <4> HIDE DEF i, q
      <4> QED BY <1>1, <1>2, <1>5, <2>5, <4>1 DEF KnownPort, Checked
    <3>2. Receipt(u, b, p) = [u EXCEPT !.port[p].rxTimer = 0]
      BY <2>3, <2>4, <2>5 DEF Receipt
    <3>3. Receipt(u, b, p) = WithPort(r, p, q)
      <4> HIDE DEF j
      <4> QED BY <1>1, <2>1, <2>3, <3>2 DEF BridgeRec, WithPort
    <3> HIDE DEF q, j, r, i
    <3>4. WithPort(r, p, q) \in Before(b)
      BY <1>1, <3>1, SetPortBefore DEF WithPort
    <3> QED BY <2>2, <3>1, <3>3, <3>4 DEF t, r, i
  <2>6. CASE i.infoIs = "RECEIVED" /\ i.rxTimer < TIMEOUT
    <3> DEFINE q == [j EXCEPT !.rxTimer = i.rxTimer + 1]
    <3>1. q \in PortRec /\ KnownPort(q, b, p) /\ Checked(i, q)
      <4>1. /\ q \in PortRec /\ q.capable /\ q.vec = i.vec /\ q.role = i.role /\ ~q.txReset
            /\ q.infoIs = i.infoIs /\ q.rxTimer = i.rxTimer + 1
        <5> HIDE DEF i, j
        <5> QED BY <1>2, <2>1, <2>4, <2>6 DEF PortRec
      <4> HIDE DEF i, q
      <4> QED BY <1>1, <1>2, <1>5, <2>6, <4>1 DEF KnownPort, Checked
    <3>2. Receipt(u, b, p) = [u EXCEPT !.port[p].rxTimer = @ + 1]
      BY <2>3, <2>4, <2>6 DEF Receipt
    <3>3. Receipt(u, b, p) = WithPort(r, p, q)
      <4>1. [u EXCEPT !.port[p].rxTimer = @ + 1]
            = [u EXCEPT !.port = [u.port EXCEPT ![p] = [j EXCEPT !.rxTimer = j.rxTimer + 1]]]
        <5> HIDE DEF j
        <5> QED BY <2>3 DEF BridgeRec
      <4>2. q = [j EXCEPT !.rxTimer = j.rxTimer + 1]
        BY <2>4
      <4> HIDE DEF j, q
      <4> QED BY <1>1, <2>1, <2>3, <3>2, <4>1, <4>2 DEF BridgeRec, WithPort
    <3> HIDE DEF q, j, r, i
    <3>4. WithPort(r, p, q) \in Before(b)
      BY <1>1, <3>1, SetPortBefore DEF WithPort
    <3> QED BY <2>2, <3>1, <3>3, <3>4 DEF t, r, i
  <2>7. CASE i.infoIs = "RECEIVED" /\ ~(i.rxTimer < TIMEOUT)
    <3> DEFINE q == [j EXCEPT !.rxTimer = 0, !.infoIs = "AGED"]
               u1 == [u EXCEPT !.port[p].rxTimer = 0]
               u2 == [u1 EXCEPT !.port[p].infoIs = "AGED"]
    <3>1. q \in PortRec /\ KnownPort(q, b, p) /\ Checked(i, q)
      <4>1. q \in PortRec /\ q.capable /\ q.vec = i.vec /\ q.role = i.role /\ ~q.txReset /\ q.infoIs = "AGED"
        <5> HIDE DEF i, j
        <5>1. q \in PortRec
          BY <1>2, <2>1 DEF PortRec
        <5>2. /\ q.capable = j.capable /\ q.vec = j.vec /\ q.role = j.role /\ q.txReset = j.txReset
              /\ q.infoIs = "AGED"
          BY <2>1 DEF PortRec
        <5> HIDE DEF q
        <5> QED BY <2>4, <5>1, <5>2
      <4> HIDE DEF i, q
      <4> QED BY <1>1, <1>2, <1>5, <2>7, <4>1 DEF KnownPort, Checked
    <3>2. Receipt(u, b, p) = Aged(u1, b, p)
      BY <2>3, <2>4, <2>7 DEF Receipt
    <3>3. Receipt(u, b, p) = UpdateRoles(u2, b)
      BY <3>2 DEF Aged
    <3>4. u2 = WithPort(r, p, q)
      <4> HIDE DEF j
      <4> QED BY <1>1, <2>1, <2>3 DEF BridgeRec, WithPort
    <3> HIDE DEF q, j, r, i, u2
    <3>5. WithPort(r, p, q) \in Before(b)
      BY <1>1, <3>1, SetPortBefore DEF WithPort
    <3> QED BY <2>2, <3>1, <3>3, <3>4, <3>5 DEF t, r, i
  <2> QED BY <2>5, <2>6, <2>7
<1> QED BY <1>3, <1>4, <1>5

LEMMA CheckPortSends ==
    ASSUME NEW b, NEW s \in [r : BridgeRec(b), out : Out(b)], NEW p
    PROVE  LET i == s.r.port[p]
           IN  CheckPort(s, b, p).out = IF i.capable /\ ~i.txReset /\ i.role = "MASTER"
                                        THEN [s.out EXCEPT ![p] = Announce(s.r, b, p)] ELSE s.out
BY DEF CheckPort

\* A port before and after its check in a tick that begins with r, and what it sends.
Unchecked(r, s, b, p) ==
    LET i == r.port[p]
        j == s.r.port[p]
    IN  /\ j.infoIs = "RECEIVED" => j.rxTimer = i.rxTimer
        /\ i.infoIs = "MINE" /\ i.capable => j.txReset = i.txReset
        /\ s.out[p] = NULL
HasChecked(r, s, b, p) ==
    LET i == r.port[p]
        j == s.r.port[p]
    IN  /\ j.infoIs = "RECEIVED" => i.capable /\ j.rxTimer = i.rxTimer + 1
        /\ i.infoIs = "MINE" /\ i.capable => ~j.txReset
        /\ i.infoIs = "MINE" /\ i.capable /\ ~i.txReset => s.out[p] # NULL
        /\ s.out[p] # NULL =>
              i.capable /\ \E t \in After(b) : Later(r, t, b) /\ s.out[p] = Announce(t, b, p)

\* The ports up to n have been checked.
Halfway(r, s, b, n) ==
    /\ s \in Ticked(b) /\ Later(r, s.r, b)
    /\ \A p \in Port(b) : IF p <= n THEN HasChecked(r, s, b, p) ELSE Unchecked(r, s, b, p)

LEMMA NextPort ==
    ASSUME NEW b \in Bridge, NEW r, NEW n \in Port(b), NEW s, Halfway(r, s, b, n - 1)
    PROVE  Halfway(r, CheckPort(s, b, n), b, n)
<1> DEFINE i == s.r.port[n]
           t == CheckPort(s, b, n)
<1>1. /\ s \in [r : BridgeRec(b), out : Out(b)] /\ s \in Ticked(b) /\ s.r \in After(b) /\ s.r \in BridgeRec(b)
      /\ s.out \in Out(b) /\ i \in PortRec /\ Elected(s.r, b) /\ Later(r, s.r, b)
  BY AfterIsBefore DEF Ticked, After, Halfway
<1>2. n \in Nat /\ \A o \in Port(b) : o \in Nat
  BY BridgeFacts
<1>3. Unchecked(r, s, b, n) /\ LaterPort(r, s.r, b, n)
  BY <1>1, <1>2 DEF Halfway, Later
<1>4. PICK q \in PortRec :
        /\ WithPort(s.r, n, q) \in Before(b)
        /\ t.r = WithPort(s.r, n, q) \/ t.r = UpdateRoles(WithPort(s.r, n, q), b)
        /\ Checked(i, q)
  BY <1>1, CheckPortEffect
<1> DEFINE s1 == WithPort(s.r, n, q)
<1>5. /\ s1 \in BridgeRec(b)
      /\ s1.priority = s.r.priority /\ s1.gm = s.r.gm /\ s1.gmPath = s.r.gmPath
      /\ s1.port[n] = q /\ \A o \in Port(b) : o # n => s1.port[o] = s.r.port[o]
  BY <1>1, SetPort DEF WithPort
<1>6. Later(r, s1, b)
  <2>1. q.capable = i.capable /\ (q.infoIs = "RECEIVED" => i.infoIs = "RECEIVED" /\ q.vec = i.vec)
    BY <1>4 DEF Checked
  <2>2. r.port[n].infoIs = "MINE" /\ r.port[n].capable => q.infoIs = "MINE"
    BY <1>3, <1>4 DEF Checked, LaterPort
  <2>3. Firm(r, b, n) /\ r.port[n].rxTimer < TIMEOUT => q.infoIs = "RECEIVED"
    <3>1. Firm(r, b, n) => r.port[n].capable
      BY DEF Firm
    <3> QED BY <1>3, <1>4, <3>1 DEF Checked, LaterPort, Unchecked
  <2> HIDE DEF i
  <2>4. Later(r, [s.r EXCEPT !.port = [s.r.port EXCEPT ![n] = q]], b)
    BY <1>1, <2>1, <2>2, <2>3, LaterSetPort DEF i
  <2> QED BY <2>4 DEF WithPort
<1>7. Later(r, t.r, b)
  <2> HIDE DEF t, s1
  <2>1. s1 \in Before(b) /\ (t.r = s1 \/ t.r = UpdateRoles(s1, b))
    BY <1>4 DEF s1
  <2> QED BY <1>6, <2>1, LaterRoles
<1>8. \A o \in Port(b) : Kept(s1.port[o], t.r.port[o])
  <2> HIDE DEF t, s1
  <2>1. s1 \in Before(b) /\ (t.r = s1 \/ t.r = UpdateRoles(s1, b))
    BY <1>4 DEF s1
  <2>2. CASE t.r = s1
    BY <2>2 DEF Kept
  <2>3. CASE t.r = UpdateRoles(s1, b)
    BY <2>1, <2>3, RolesEffect
  <2> QED BY <2>1, <2>2, <2>3
<1>9. /\ t.out = IF i.capable /\ ~i.txReset /\ i.role = "MASTER"
                 THEN [s.out EXCEPT ![n] = Announce(s.r, b, n)] ELSE s.out
      /\ Announce(s.r, b, n) # NULL /\ t \in Ticked(b)
  <2>1. Announce(s.r, b, n) # NULL /\ t \in Ticked(b)
    BY <1>1, AnnounceSound, CheckPortSound
  <2> QED BY <1>1, <2>1, CheckPortSends
<1>10. \A o \in Port(b) : o # n => t.out[o] = s.out[o]
  BY <1>1, <1>9 DEF Out
<1>11. t.out[n] = IF i.capable /\ ~i.txReset /\ i.role = "MASTER" THEN Announce(s.r, b, n) ELSE NULL
  BY <1>1, <1>3, <1>9 DEF Out, Unchecked
<1> HIDE DEF t, s1
<1>12. HasChecked(r, t, b, n)
  <2>1. Kept(q, t.r.port[n])
    BY <1>5, <1>8
  <2>2. i.infoIs = "MINE" => i.role = "MASTER"
    BY <1>1 DEF Elected
  <2>3. t.r.port[n].infoIs = "RECEIVED" => r.port[n].capable /\ t.r.port[n].rxTimer = r.port[n].rxTimer + 1
    BY <1>3, <1>4, <2>1 DEF Kept, Checked, LaterPort, Unchecked
  <2>4. r.port[n].infoIs = "MINE" /\ r.port[n].capable =>
          i.infoIs = "MINE" /\ i.capable /\ i.role = "MASTER" /\ i.txReset = r.port[n].txReset
    BY <1>3, <2>2 DEF LaterPort, Unchecked
  <2>5. i.infoIs = "MINE" /\ i.capable => q.infoIs = "MINE" /\ q.role = "MASTER" /\ ~q.txReset
    BY <1>4, <2>2 DEF Checked
  <2>6. q.infoIs = "MINE" /\ q.role = "MASTER" => t.r.port[n].txReset = q.txReset
    BY <2>1 DEF Kept
  <2>7. r.port[n].infoIs = "MINE" /\ r.port[n].capable => ~t.r.port[n].txReset
    BY <2>4, <2>5, <2>6
  <2>8. r.port[n].infoIs = "MINE" /\ r.port[n].capable /\ ~r.port[n].txReset => t.out[n] # NULL
    BY <1>9, <1>11, <2>4
  <2>9. t.out[n] # NULL => i.capable /\ t.out[n] = Announce(s.r, b, n)
    BY <1>11
  <2>10. i.capable = r.port[n].capable
    BY <1>3 DEF LaterPort
  <2> HIDE DEF i
  <2> QED BY <1>1, <2>3, <2>7, <2>8, <2>9, <2>10 DEF HasChecked
<1>13. ASSUME NEW o \in Port(b), o # n
       PROVE  IF o <= n THEN HasChecked(r, t, b, o) ELSE Unchecked(r, t, b, o)
  <2> DEFINE j == s.r.port[o]
             k == t.r.port[o]
  <2>1. IF o <= n THEN HasChecked(r, s, b, o) ELSE Unchecked(r, s, b, o)
    BY <1>2, <1>13 DEF Halfway
  <2>2. Kept(j, k) /\ t.out[o] = s.out[o]
    BY <1>5, <1>8, <1>10, <1>13
  <2>3. j.infoIs # "AGED" /\ (j.infoIs = "MINE" => j.role = "MASTER") /\ LaterPort(r, s.r, b, o)
    BY <1>1 DEF Elected, Later
  <2>4. k.infoIs = "RECEIVED" => j.infoIs = "RECEIVED" /\ k.rxTimer = j.rxTimer
    BY <2>2 DEF Kept
  <2>5. r.port[o].infoIs = "MINE" /\ r.port[o].capable => k.txReset = j.txReset
    BY <2>2, <2>3 DEF Kept, LaterPort
  <2>6. HasChecked(r, s, b, o) => HasChecked(r, t, b, o)
    BY <2>2, <2>4, <2>5 DEF HasChecked
  <2>7. Unchecked(r, s, b, o) => Unchecked(r, t, b, o)
    BY <2>2, <2>4, <2>5 DEF Unchecked
  <2> QED BY <2>1, <2>6, <2>7
<1>14. \A o \in Port(b) : IF o <= n THEN HasChecked(r, t, b, o) ELSE Unchecked(r, t, b, o)
  <2>1. n <= n
    BY <1>2
  <2> QED BY <1>12, <1>13, <2>1
<1> QED BY <1>7, <1>9, <1>14 DEF Halfway, t

\* After a tick all ports have been checked.
LEMMA CheckPortsEffect ==
    ASSUME NEW b \in Bridge, NEW r \in After(b)
    PROVE  LET s == CheckPorts(r, b)
           IN  /\ s \in Ticked(b) /\ Later(r, s.r, b)
               /\ \A p \in Port(b) : HasChecked(r, s, b, p)
<1> DEFINE X == Ticked(b)
           x == [r |-> r, out |-> [q \in Port(b) |-> NULL]]
           Check(p, s) == IF p \in Port(b) THEN CheckPort(s, b, p) ELSE s
           Step == [p \in 1 .. Ports |-> [s \in X |-> Check(p, s)]]
           done[p \in 0 .. Ports] ==
               IF p = 0 THEN [r |-> r, out |-> [q \in Port(b) |-> NULL]]
               ELSE IF p \in Port(b) THEN CheckPort(done[p - 1], b, p) ELSE done[p - 1]
<1>1. Ports \in Nat /\ Port(b) \subseteq 1 .. Ports
  BY BridgeFacts
<1>2. \A p \in 1 .. Ports : \A s \in X : Check(p, s) \in X
  BY CheckPortSound
<1>3. x \in X /\ Keeps(Step, Ports, X)
  <2>1. x \in X
    BY AfterIsBefore DEF Ticked, Out
  <2>2. Keeps(Step, Ports, X)
    BY <1>2 DEF Keeps
  <2> QED BY <2>1, <2>2
<1>4. PICK f : Follows(f, Step, Ports, X, x)
  <2> HIDE DEF X, x, Step, Check
  <2> QED BY <1>1, <1>3, ByPredecessor
<1>5. f = [p \in 0 .. Ports |->
             IF p = 0 THEN x ELSE IF p \in Port(b) THEN CheckPort(f[p - 1], b, p) ELSE f[p - 1]]
  <2>1. ASSUME NEW p \in 1 .. Ports
        PROVE  f[p] = IF p \in Port(b) THEN CheckPort(f[p - 1], b, p) ELSE f[p - 1]
    <3>1. f[p] = Step[p][f[p - 1]] /\ f[p - 1] \in X
      <4> HIDE DEF X, x, Step
      <4> QED BY <1>1, <1>4 DEF Follows
    <3>2. f[p] = Check(p, f[p - 1])
      <4> HIDE DEF X, Check
      <4> QED BY <3>1
    <3> QED BY <3>2
  <2> HIDE DEF X, x, Step
  <2> QED BY <1>1, <1>4, <2>1 DEF Follows
<1>6. done = [p \in 0 .. Ports |->
             IF p = 0 THEN x ELSE IF p \in Port(b) THEN CheckPort(done[p - 1], b, p) ELSE done[p - 1]]
  BY <1>5
<1>7. CheckPorts(r, b) = done[Ports]
  BY DEF CheckPorts
<1> HIDE DEF done
<1> DEFINE S == {n \in 0 .. Ports : Halfway(r, done[n], b, n)}
<1>8. 0 \in S
  <2>1. done[0] = x
    BY <1>1, <1>6
  <2>2. ASSUME NEW p \in Port(b) PROVE ~(p <= 0) /\ Unchecked(r, x, b, p)
    BY <1>1 DEF Unchecked
  <2>3. x.r = r
    OBVIOUS
  <2> HIDE DEF x
  <2>4. Halfway(r, x, b, 0)
    BY <1>3, <2>2, <2>3, LaterSelf DEF Halfway
  <2> QED BY <1>1, <2>1, <2>4
<1> HIDE DEF x
<1>9. ASSUME NEW p \in 1 .. Ports, p - 1 \in S PROVE p \in S
  <2>1. CASE p \in Port(b)
    <3>1. done[p] = CheckPort(done[p - 1], b, p)
      BY <1>1, <1>6, <2>1
    <3>2. Halfway(r, done[p], b, p)
      BY <1>9, <2>1, <3>1, NextPort
    <3> QED BY <3>2
  <2>2. CASE p \notin Port(b)
    <3>1. done[p] = done[p - 1]
      BY <1>1, <1>6, <2>2
    <3>2. \A q \in Port(b) : q <= p <=> q <= p - 1
      BY <1>1, <2>2
    <3>3. Halfway(r, done[p], b, p)
      BY <1>9, <3>1, <3>2 DEF Halfway
    <3> QED BY <3>3
  <2> QED BY <2>1, <2>2
<1>10. Ports \in S
  <2> HIDE DEF S
  <2> QED BY <1>1, <1>8, <1>9, Upwards
<1>11. Halfway(r, CheckPorts(r, b), b, Ports)
  BY <1>7, <1>10
<1>12. \A p \in Port(b) : p <= Ports
  BY <1>1
<1> QED BY <1>11, <1>12 DEF Halfway

-----------------------------------------------------------------------------
(* What the receipt of an Announce does to a bridge's record.                *)

\* v is or stays what a port has received, and its time begins again.
Fresh(j, v) == j.infoIs = "RECEIVED" /\ j.vec = v /\ j.rxTimer = 0
SameReceived(i, j) == i.infoIs = "RECEIVED" /\ j.vec = i.vec /\ j.rxTimer = i.rxTimer

Receives(r, s, b, p, v) ==
    /\ s.priority = r.priority
    /\ \A o \in Port(b) :
          LET i == r.port[o]
              j == s.port[o]
          IN  /\ j.capable = i.capable /\ j.txReset = i.txReset
              /\ j.infoIs = "RECEIVED" => SameReceived(i, j) \/ (o = p /\ Fresh(j, v))
              /\ /\ o # p /\ i.infoIs = "RECEIVED"
                 /\ \A w \in Potential(r, b) \cup {Further(v)} : ~Displaces(w, i.vec, b, o)
                 => j.infoIs = "RECEIVED" /\ SameReceived(i, j)
    /\ /\ Superior(v, r.port[p].vec) \/ (r.port[p].infoIs = "RECEIVED" /\ v = r.port[p].vec)
       /\ \A w \in Potential(r, b) \cup {Further(v)} : ~Displaces(w, v, b, p)
       => Fresh(s.port[p], v)

\* The path to the GM behind it.
ReceivesPath(r, s, b, p, v, path) ==
    /\ r.port[p].infoIs = "RECEIVED" /\ v = r.port[p].vec => s.gmPath = path
    /\ r.port[p].role # "SLAVE" => s.gmPath = r.gmPath \/ s.gmPath = {b}

LEMMA TakePathEffect ==
    ASSUME NEW b \in Bridge, NEW r \in BridgeRec(b), NEW p, NEW m \in Msg
    PROVE  LET s == TakePath(m, r, b, p)
           IN  /\ s.priority = r.priority /\ s.gm = r.gm /\ s.port = r.port
               /\ s.gmPath = IF r.port[p].role = "SLAVE" /\ r.gm[2] = m.vec[2]
                             THEN IF Cardinality(m.path) < MaxHops THEN m.path \cup {b} ELSE m.path
                             ELSE r.gmPath
<1> DEFINE path == IF Cardinality(m.path) < MaxHops THEN m.path \cup {b} ELSE m.path
           s == [r EXCEPT !.gmPath = path]
<1>1. TakePath(m, r, b, p) = IF r.port[p].role = "SLAVE" /\ r.gm[2] = m.vec[2] THEN s ELSE r
  BY DEF TakePath
<1> HIDE DEF path
<1>2. s.priority = r.priority /\ s.gm = r.gm /\ s.port = r.port /\ s.gmPath = path
  BY DEF BridgeRec
<1> HIDE DEF s
<1> QED BY <1>1, <1>2 DEF path

\* dot1asInvokeBmca for an Announce; r is the record with the path already taken.
LEMMA AnnounceRxEffect ==
    ASSUME NEW b \in Bridge, NEW r \in After(b), NEW p \in Port(b), NEW v \in Vec, FromPeer(v, b, p)
    PROVE  LET s == AnnounceRx(r, b, p, v)
           IN  Receives(r, s, b, p, v) /\ ReceivesPath(r, s, b, p, v, r.gmPath)
<1> DEFINE s == AnnounceRx(r, b, p, v)
           i == r.port[p]
<1>1. /\ r \in Before(b) /\ r \in BridgeRec(b) /\ i \in PortRec /\ 0 \in 0 .. TIMEOUT
      /\ Elected(r, b)
  BY AfterIsBefore, NumberAssumption DEF After
<1>2. CASE Superior(v, i.vec)
  <2> DEFINE q == [i EXCEPT !.vec = v, !.infoIs = "RECEIVED", !.rxTimer = 0]
             s1 == [r EXCEPT !.port[p].vec = v, !.port[p].infoIs = "RECEIVED", !.port[p].rxTimer = 0]
  <2>1. /\ q \in PortRec /\ q.vec = v /\ q.infoIs = "RECEIVED" /\ q.rxTimer = 0 /\ q.txReset = i.txReset
        /\ q.capable = i.capable
    BY <1>1 DEF PortRec
  <2>2. KnownPort(q, b, p)
    BY <2>1 DEF KnownPort
  <2>3. s1 = [r EXCEPT !.port = [r.port EXCEPT ![p] = q]]
    BY <1>1 DEF BridgeRec
  <2> HIDE DEF q
  <2>4. s1 \in Before(b)
    BY <1>1, <2>1, <2>2, <2>3, BeforeIsPending, SetPortBefore
  <2>5. v # i.vec
    BY <1>1, <1>2, SuperiorOnce DEF PortRec
  <2>6. s = UpdateRoles(s1, b)
    BY <1>2, <2>5 DEF AnnounceRx
  <2> HIDE DEF s1, s, i
  <2>7. /\ s1 \in BridgeRec(b) /\ s1.priority = r.priority /\ s1.gm = r.gm /\ s1.gmPath = r.gmPath
        /\ s1.port[p] = q /\ \A o \in Port(b) : o # p => s1.port[o] = r.port[o]
    BY <1>1, <2>1, <2>3, SetPort
  <2>8. /\ s.priority = s1.priority /\ (s.gmPath = s1.gmPath \/ s.gmPath = {b})
        /\ s.gm \in Potential(s1, b)
        /\ \A o \in Port(b) :
              /\ Kept(s1.port[o], s.port[o])
              /\ s1.port[o].infoIs = "RECEIVED" /\ ~Displaces(s.gm, s1.port[o].vec, b, o)
                 => s.port[o].infoIs = "RECEIVED" /\ s.port[o].vec = s1.port[o].vec
    BY <2>4, <2>6, RolesEffect
  <2>9. s.gm \in Potential(r, b) \cup {Further(v)}
    <3>1. Own(s1, b) = Own(r, b)
      BY <2>7 DEF Own
    <3>2. \A o \in Received(s1, b) : o = p \/ (o \in Received(r, b) /\ s1.port[o].vec = r.port[o].vec)
      BY <2>7 DEF Received
    <3>3. Potential(s1, b) \subseteq Potential(r, b) \cup {Further(v)}
      BY <2>1, <2>7, <3>1, <3>2 DEF Potential
    <3> QED BY <2>8, <3>3
  <2>10. Receives(r, s, b, p, v)
    <3>1. ASSUME NEW o \in Port(b)
          PROVE  LET k == r.port[o]
                     j == s.port[o]
                 IN  /\ j.capable = k.capable /\ j.txReset = k.txReset
                     /\ j.infoIs = "RECEIVED" => SameReceived(k, j) \/ (o = p /\ Fresh(j, v))
                     /\ /\ o # p /\ k.infoIs = "RECEIVED"
                        /\ \A w \in Potential(r, b) \cup {Further(v)} : ~Displaces(w, k.vec, b, o)
                        => j.infoIs = "RECEIVED" /\ SameReceived(k, j)
      <4>1. Kept(s1.port[o], s.port[o])
        BY <2>8
      <4>2. s1.port[o].infoIs # "AGED" /\ (s1.port[o].infoIs = "MINE" => s1.port[o].role = "MASTER")
        BY <1>1, <2>1, <2>7 DEF Elected
      <4>3. s.port[o].capable = s1.port[o].capable /\ s.port[o].txReset = s1.port[o].txReset
        BY <4>1, <4>2 DEF Kept
      <4>4. s1.port[o].capable = r.port[o].capable /\ s1.port[o].txReset = r.port[o].txReset
        BY <2>1, <2>7 DEF i
      <4>5. CASE o = p
        BY <2>1, <2>7, <4>1, <4>3, <4>4, <4>5 DEF Kept, Fresh
      <4>6. CASE o # p
        <5>1. s1.port[o] = r.port[o]
          BY <2>7, <4>6
        <5>2. s.port[o].infoIs = "RECEIVED" => SameReceived(r.port[o], s.port[o])
          BY <4>1, <5>1 DEF Kept, SameReceived
        <5>3. ASSUME r.port[o].infoIs = "RECEIVED",
                     \A w \in Potential(r, b) \cup {Further(v)} : ~Displaces(w, r.port[o].vec, b, o)
              PROVE  s.port[o].infoIs = "RECEIVED"
          BY <2>8, <2>9, <5>1, <5>3
        <5> QED BY <4>3, <4>4, <4>6, <5>2, <5>3
      <4> QED BY <4>5, <4>6
    <3>2. ASSUME \A w \in Potential(r, b) \cup {Further(v)} : ~Displaces(w, v, b, p)
          PROVE  Fresh(s.port[p], v)
      <4>1. ~Displaces(s.gm, v, b, p)
        BY <2>9, <3>2
      <4>2. s.port[p].infoIs = "RECEIVED" /\ s.port[p].vec = v
        BY <2>1, <2>7, <2>8, <4>1
      <4>3. Kept(q, s.port[p])
        BY <2>7, <2>8
      <4> QED BY <2>1, <4>2, <4>3 DEF Fresh, Kept
    <3>3. s.priority = r.priority
      BY <2>7, <2>8
    <3> QED BY <3>1, <3>2, <3>3 DEF Receives
  <2>11. ReceivesPath(r, s, b, p, v, r.gmPath)
    BY <2>5, <2>7, <2>8 DEF ReceivesPath, i
  <2> QED BY <2>10, <2>11 DEF s
<1>3. CASE ~Superior(v, i.vec) /\ v = i.vec
  <2> DEFINE q == [i EXCEPT !.rxTimer = 0]
             s1 == [r EXCEPT !.port[p].rxTimer = 0]
  <2>1. /\ q \in PortRec /\ q.capable = i.capable /\ q.infoIs = i.infoIs /\ q.txReset = i.txReset
        /\ q.vec = i.vec /\ q.role = i.role /\ q.rxTimer = 0
    BY <1>1 DEF PortRec
  <2>2. s1 = [r EXCEPT !.port = [r.port EXCEPT ![p] = q]]
    BY <1>1 DEF BridgeRec
  <2>3. s = s1
    BY <1>3 DEF AnnounceRx
  <2> HIDE DEF q, s1, s, i
  <2>4. /\ s \in BridgeRec(b) /\ s.priority = r.priority /\ s.gm = r.gm /\ s.gmPath = r.gmPath
        /\ s.port[p] = q /\ \A o \in Port(b) : o # p => s.port[o] = r.port[o]
    BY <1>1, <2>1, <2>2, <2>3, SetPort
  <2>5. v = i.vec /\ v = r.port[p].vec /\ ~Superior(v, r.port[p].vec)
    BY <1>3 DEF i
  <2>6. ASSUME NEW o \in Port(b)
        PROVE  LET k == r.port[o]
                   j == s.port[o]
               IN  /\ j.capable = k.capable /\ j.txReset = k.txReset
                   /\ j.infoIs = "RECEIVED" => SameReceived(k, j) \/ (o = p /\ Fresh(j, v))
                   /\ o # p /\ k.infoIs = "RECEIVED" => j.infoIs = "RECEIVED" /\ SameReceived(k, j)
    <3>1. CASE o = p
      BY <2>1, <2>4, <2>5, <3>1 DEF Fresh, i
    <3>2. CASE o # p
      BY <2>4, <3>2 DEF SameReceived
    <3> QED BY <3>1, <3>2
  <2>7. r.port[p].infoIs = "RECEIVED" => Fresh(s.port[p], v)
    BY <2>1, <2>4, <2>5 DEF Fresh, i
  <2>8. Receives(r, s, b, p, v)
    BY <2>4, <2>5, <2>6, <2>7 DEF Receives
  <2>9. ReceivesPath(r, s, b, p, v, r.gmPath)
    BY <2>4 DEF ReceivesPath
  <2> QED BY <2>8, <2>9 DEF s
<1>4. CASE ~Superior(v, i.vec) /\ v # i.vec
  <2>1. s = r
    BY <1>4 DEF AnnounceRx
  <2>2. Receives(r, r, b, p, v)
    BY <1>4 DEF Receives, SameReceived, i
  <2>3. ReceivesPath(r, r, b, p, v, r.gmPath)
    BY DEF ReceivesPath
  <2> HIDE DEF s
  <2> QED BY <2>1, <2>2, <2>3 DEF s
<1> QED BY <1>2, <1>3, <1>4

\* dot1asAnnounceReceive for an Announce m that it does not discard.
LEMMA ReceiveEffect ==
    ASSUME NEW b \in Bridge, NEW r \in After(b), NEW p \in Port(b), NEW m \in Msg, NEW v \in Vec,
           FromPeer(v, b, p)
    PROVE  LET t == TakePath(m, r, b, p)
               s == AnnounceRx(t, b, p, v)
           IN  s \in After(b) /\ Receives(r, s, b, p, v) /\ ReceivesPath(r, s, b, p, v, t.gmPath)
<1> DEFINE t == TakePath(m, r, b, p)
           s == AnnounceRx(t, b, p, v)
<1>1. t \in After(b) /\ r \in BridgeRec(b)
  BY TakePathSound, AfterIsBefore
<1>2. /\ t.priority = r.priority /\ t.gm = r.gm /\ t.port = r.port
      /\ r.port[p].role # "SLAVE" => t.gmPath = r.gmPath
  BY <1>1, TakePathEffect
<1> HIDE DEF t
<1>3. s \in After(b) /\ Receives(t, s, b, p, v) /\ ReceivesPath(t, s, b, p, v, t.gmPath)
  BY <1>1, AnnounceRxSound, AnnounceRxEffect
<1> HIDE DEF s
<1>4. Potential(t, b) = Potential(r, b)
  BY <1>2 DEF Potential, Own, Received
<1>5. Receives(r, s, b, p, v)
  BY <1>2, <1>3, <1>4 DEF Receives
<1>6. ReceivesPath(r, s, b, p, v, t.gmPath)
  BY <1>2, <1>3 DEF ReceivesPath
<1> QED BY <1>3, <1>5, <1>6 DEF t, s

-----------------------------------------------------------------------------
(* The GM and the slave port of a record that knows only what is true.       *)

\* The bridges that the path from x to a may name.
Near(U, x, a, n) == {y \in Bridge : \E m \in 0 .. n - 1 : IsDist(U, x, y, m)} \cup {a}

LEMMA SlaveGm ==
    ASSUME NEW b \in Bridge, NEW r \in After(b), NEW p \in Port(b), r.port[p].role = "SLAVE"
    PROVE  /\ r.port[p].infoIs = "RECEIVED" /\ r.gm = Further(r.port[p].vec)
           /\ \A o \in Port(b) : r.port[o].role = "SLAVE" => o = p
<1>1. Known(r, b) /\ Elected(r, b) /\ r \in BridgeRec(b) /\ p # 0
  BY AfterIsBefore, BridgeFacts DEF After, Before
<1>2. \A o \in Port(b) : r.port[o].vec \in Vec /\ (r.port[o].infoIs = "RECEIVED" => r.port[o].vec[6] = o)
  BY <1>1 DEF Known, KnownPort, FromPeer, BridgeRec, PortRec
<1>3. r.port[p].infoIs = "RECEIVED" /\ r.gm[6] = p
  BY <1>1, <1>2 DEF Elected, IsFrom
<1>4. r.gm # Own(r, b)
  BY <1>1, <1>3 DEF Own
<1>5. PICK q \in Port(b) : r.port[q].infoIs = "RECEIVED" /\ r.gm = Further(r.port[q].vec)
  BY <1>1, <1>4 DEF Elected
<1>6. r.gm[6] = q
  BY <1>2, <1>5 DEF Further, Vec
<1>7. \A o \in Port(b) : r.port[o].role = "SLAVE" => o = p
  BY <1>1, <1>2, <1>3 DEF Elected, IsFrom
<1> QED BY <1>3, <1>5, <1>6, <1>7

\* What a port that is fed holds stays.
LEMMA FedIsFirm ==
    ASSUME NEW U, Links(U), NEW P \in [Bridge -> Nat], NEW x, NEW n, NEW e, Feeds(U, P, x, n, e),
           NEW r \in Before(Peer(e)[1]), AllTrue(U, P, r, Peer(e)[1]), Holds(P, x, n, e, r),
           r.port[Peer(e)[2]].capable
    PROVE  Firm(r, Peer(e)[1], Peer(e)[2])
<1> DEFINE c == Peer(e)[1]
           p == Peer(e)[2]
<1>1. c \in Bridge /\ p \in Port(c)
  BY FeedFacts
<1>2. ASSUME NEW w \in Potential(r, c) PROVE ~Displaces(w, Fed(P, x, n, e), c, p)
  <2>1. w \in Vec /\ Truthful(U, P, w, c)
    BY <1>1, TruePotential
  <2> QED BY <2>1, FedStays
<1> QED BY <1>2 DEF Firm, Holds

LEMMA LaterTrue ==
    ASSUME NEW U, NEW P, NEW b, NEW r, NEW s, Later(r, s, b), AllTrue(U, P, r, b)
    PROVE  AllTrue(U, P, s, b)
BY DEF Later, LaterPort, AllTrue

\* A candidate: what a port that is fed holds.
LEMMA FedCompetes ==
    ASSUME NEW U, Links(U), NEW P \in [Bridge -> Nat], NEW x, NEW n, NEW e, Feeds(U, P, x, n, e),
           NEW r, Holds(P, x, n, e, r), r.port[Peer(e)[2]].capable
    PROVE  Further(Fed(P, x, n, e)) \in Candidates(r, Peer(e)[1])
<1> DEFINE f == Peer(e)
           v == Fed(P, x, n, e)
<1>1. f[2] \in Port(f[1]) /\ e[1] # f[1]
  BY FeedFacts
<1>2. v[4] = e[1]
  BY FedVector
<1>3. r.port[f[2]].infoIs = "RECEIVED" /\ r.port[f[2]].vec = v /\ r.port[f[2]].capable
  BY DEF Holds
<1> HIDE DEF v, f
<1>4. Further(v) \in Candidates(r, f[1])
  BY <1>1, <1>2, <1>3 DEF Candidates
<1> QED BY <1>4 DEF v, f

\* As long as all that are nearer feed c, its GM and slave port do not change.
LEMMA SlaveStays ==
    ASSUME NEW U, Links(U), NEW P \in [Bridge -> Nat], NEW x, NEW n \in Nat, NEW e, Feeds(U, P, x, n, e),
           IsDist(U, x, Peer(e)[1], n + 1),
           NEW r \in After(Peer(e)[1]), NEW s \in After(Peer(e)[1]), AllTrue(U, P, r, Peer(e)[1]),
           Right(P, x, n + 1, r),
           \A p \in Port(Peer(e)[1]) : <<Peer(e)[1], p>> \in U => r.port[p].capable /\ s.port[p].capable,
           \A d : Feeds(U, P, x, n, d) /\ Peer(d)[1] = Peer(e)[1] => Holds(P, x, n, d, s),
           Holds(P, x, n, e, r), s.port[Peer(e)[2]].role = "SLAVE"
    PROVE  s.gm = r.gm /\ r.port[Peer(e)[2]].role = "SLAVE"
<1> DEFINE c == Peer(e)[1]
           p == Peer(e)[2]
           v == Fed(P, x, n, e)
<1>1. /\ c \in Bridge /\ p \in Port(c) /\ IsRoot(U, P, x, c) /\ Peer(e) = <<c, p>> /\ Peer(e) \in U
      /\ v \in Vec
  BY FeedFacts
<1>2. Elected(r, c) /\ Elected(s, c) /\ r.gm \in Vec /\ s.gm \in Vec
  BY <1>1, AfterIsBefore DEF After, BridgeRec
<1>3. s.gm = Further(v)
  <2>1. s.gm = Further(s.port[p].vec)
    BY <1>1, SlaveGm
  <2> QED BY <2>1 DEF Holds
<1>4. r.port[p].capable /\ s.port[p].capable
  BY <1>1
<1>5. ~Superior(s.gm, r.gm)
  <2>1. Further(v) \in Candidates(r, c)
    BY <1>4, FedCompetes
  <2> QED BY <1>2, <1>3, <2>1 DEF Elected
<1>6. r.gm # Own(r, c)
  BY DEF Right, Own
<1>7. PICK o \in Port(c) : r.port[o].infoIs = "RECEIVED" /\ r.gm = Further(r.port[o].vec)
  BY <1>2, <1>6 DEF Elected
<1> DEFINE d == Peer(<<c, o>>)
<1>8. Feeds(U, P, x, n, d) /\ Holds(P, x, n, d, r)
  BY <1>1, <1>7, SlaveIsFed
<1>9. Peer(d) = <<c, o>> /\ Peer(d) \in U
  BY <1>1, <1>8, EndOfPort, FeedFacts
<1> HIDE DEF d
<1>10. Holds(P, x, n, d, s)
  BY <1>8, <1>9
<1>11. s.port[o].capable /\ r.gm = Further(Fed(P, x, n, d))
  BY <1>7, <1>8, <1>9 DEF Holds
<1>12. r.gm \in Candidates(s, c)
  BY <1>8, <1>9, <1>10, <1>11, FedCompetes
<1>13. ~Superior(r.gm, s.gm)
  BY <1>2, <1>12 DEF Elected
<1>14. s.gm = r.gm
  BY <1>2, <1>5, <1>13, SuperiorOrEqual
<1>15. r.port[p].infoIs = "RECEIVED" /\ r.port[p].vec = v
  BY DEF Holds
<1>16. IsFrom(r.port[p], r.gm)
  <2>1. \A i \in {1, 2, 4, 5, 6} : Further(v)[i] = v[i]
    <3> HIDE DEF v
    <3> QED BY <1>1 DEF Further, Vec
  <2> HIDE DEF v, p
  <2> QED BY <1>3, <1>14, <1>15, <2>1 DEF IsFrom
<1>17. r.port[p].role = "SLAVE"
  BY <1>1, <1>2, <1>15, <1>16 DEF Elected
<1> QED BY <1>14, <1>17

-----------------------------------------------------------------------------
(* The network when nothing changes any more.                                *)

Ups == {e \in End : Up(e)}
Prio == [b \in Bridge |-> br[b].priority]

\* How often b has ticked since then.
Again(b) == IF b \in ticked THEN 1 ELSE 0
Ticks(b) == quiet + Again(b)

CalmInv == quiet \in Nat /\ calm \in BOOLEAN /\ (quiet > 0 => calm)

\* Untrue information of n steps is at most as old as that.
Age(n) == n * (TIMEOUT + 2)

\* From then on the GM of a bridge at distance n from the best clock is right.
Start(n) == Age(MaxSteps) + 1 + 5 * n

LEMMA Ages ==
    /\ \A n \in Nat : Age(n) \in Nat /\ Age(n + 1) = Age(n) + TIMEOUT + 2 /\ Start(n) \in Nat
                      /\ Start(n + 1) = Start(n) + 5 /\ Start(n) >= Age(MaxSteps) + 1
    /\ \A n \in Nat : n < MaxSteps => Age(n) + TIMEOUT + 2 <= Age(MaxSteps)
    /\ Start(0) = Age(MaxSteps) + 1 /\ Age(MaxSteps) \in Nat /\ Age(MaxSteps) >= 3 /\ TIMEOUT \in Nat \ {0}
<1> DEFINE s == TIMEOUT + 2
<1>1. TIMEOUT \in Nat \ {0} /\ MaxSteps \in Nat \ {0} /\ s \in Nat /\ s >= 3
  BY NumberAssumption
<1> HIDE DEF s
<1>2. ASSUME NEW n \in Nat PROVE n * s \in Nat /\ (n + 1) * s = n * s + s
  BY <1>1
<1>3. ASSUME NEW n \in Nat, n < MaxSteps PROVE n * s + s <= MaxSteps * s
  <2>1. PICK k \in Nat : MaxSteps = (n + 1) + k
    <3>1. MaxSteps - (n + 1) \in Nat /\ MaxSteps = (n + 1) + (MaxSteps - (n + 1))
      BY <1>1, <1>3
    <3> QED BY <3>1
  <2>2. MaxSteps * s = (n + 1) * s + k * s
    BY <1>1, <2>1
  <2>3. k * s \in Nat /\ (n + 1) * s = n * s + s /\ n * s \in Nat
    BY <1>1, <1>2
  <2> QED BY <1>1, <2>2, <2>3
<1>4. MaxSteps * s \in Nat /\ MaxSteps * s >= 3
  <2>1. 0 * s + s <= MaxSteps * s
    BY <1>1, <1>3
  <2>2. 0 * s = 0
    BY <1>1
  <2> QED BY <1>1, <1>2, <2>1, <2>2
<1>5. \A n : Age(n) = n * s
  BY DEF Age, s
<1>6. s = TIMEOUT + 2
  BY DEF s
<1>7. ASSUME NEW n \in Nat
      PROVE  /\ Age(n) \in Nat /\ Age(n + 1) = Age(n) + TIMEOUT + 2
             /\ n < MaxSteps => Age(n) + TIMEOUT + 2 <= Age(MaxSteps)
  <2>1. Age(n) = n * s /\ Age(n + 1) = (n + 1) * s /\ Age(MaxSteps) = MaxSteps * s
    BY <1>5
  <2> DEFINE x == n * s
             y == (n + 1) * s
             z == MaxSteps * s
  <2>2. x \in Nat /\ y = x + s /\ (n < MaxSteps => x + s <= z) /\ z \in Nat
    BY <1>2, <1>3, <1>4
  <2> HIDE DEF x, y, z
  <2>3. Age(n) = x /\ Age(n + 1) = y /\ Age(MaxSteps) = z
    BY <2>1 DEF x, y, z
  <2> QED BY <1>1, <1>6, <2>2, <2>3
<1>8. Age(MaxSteps) \in Nat /\ Age(MaxSteps) >= 3
  BY <1>4, <1>5
<1>9. ASSUME NEW n \in Nat
      PROVE  Start(n) \in Nat /\ Start(n + 1) = Start(n) + 5 /\ Start(n) >= Age(MaxSteps) + 1
  BY <1>8 DEF Start
<1>10. Start(0) = Age(MaxSteps) + 1
  BY <1>8 DEF Start
<1> QED BY <1>1, <1>7, <1>8, <1>9, <1>10

LEMMA NetworkType ==
    ASSUME BmcaInv
    PROVE  Links(Ups) /\ Prio \in [Bridge -> Nat] /\ \A b \in Bridge : br[b] \in After(b)
<1>1. \A b \in Bridge : br[b] \in After(b)
  BY DEF BmcaInv
<1>2. Prio \in [Bridge -> Nat]
  <2>1. \A b \in Bridge : br[b] \in BridgeRec(b)
    BY <1>1, AfterIsBefore
  <2>2. \A b \in Bridge : br[b].priority \in Nat
    BY <2>1, BridgeAssumption DEF BridgeRec
  <2> QED BY <2>2 DEF Prio
<1>3. ASSUME NEW e \in Ups PROVE Peer(e) \in Ups
  <2>1. e \in End /\ Up(e) /\ Peer(e) \in End /\ Peer(Peer(e)) = e
    BY PeerOfEnd DEF Ups
  <2> QED BY <2>1 DEF Ups, Up
<1> QED BY <1>1, <1>2, <1>3 DEF Links, Ups

LEMMA UpCapable ==
    ASSUME NEW e \in Ups
    PROVE  br[e[1]].port[e[2]].capable /\ e \in End
BY DEF Ups, Up

\* The network is the same if no priority and no port's asCapable changes.
LEMMA SameNetwork ==
    ASSUME \A b \in Bridge : /\ br'[b].priority = br[b].priority
                             /\ \A p \in Port(b) : br'[b].port[p].capable = br[b].port[p].capable
    PROVE  Ups' = Ups /\ Prio' = Prio
<1>1. ASSUME NEW e \in End PROVE Up(e)' <=> Up(e)
  <2>1. e[1] \in Bridge /\ e[2] \in Port(e[1]) /\ Peer(e)[1] \in Bridge /\ Peer(e)[2] \in Port(Peer(e)[1])
    BY PeerOfEnd
  <2> QED BY <2>1 DEF Up
<1>2. Ups' = Ups
  BY <1>1 DEF Ups
<1>3. Prio' = Prio
  BY DEF Prio
<1> QED BY <1>2, <1>3

-----------------------------------------------------------------------------
(* The steps that are still taken.                                          *)

Taken(b, p, m) == TakePath(m, br[b], b, p).gmPath

LEMMA ReceiveStep ==
    ASSUME BmcaInv, NEW b \in Bridge, NEW p \in Port(b), AnnounceReceive(b, p)
    PROVE  LET m == announce[<<b, p>>]
               v == Append(m.vec, p)
           IN  /\ UNCHANGED <<quiet, ticked, calm>> /\ Ups' = Ups /\ Prio' = Prio
               /\ m # NULL /\ m \in Msg /\ announce' = [announce EXCEPT ![<<b, p>>] = NULL]
               /\ \A c \in Bridge : br'[c] \in After(c) /\ (c # b => br'[c] = br[c])
               /\ \/ ~Qualified(m, br[b], b, p) /\ br'[b] = br[b]
                  \/ /\ Qualified(m, br[b], b, p) /\ v \in Vec /\ FromPeer(v, b, p)
                     /\ v[1] = m.vec[1] /\ v[2] = m.vec[2] /\ v[3] = m.vec[3]
                     /\ v[4] = m.vec[4] /\ v[5] = m.vec[5] /\ v[6] = p
                     /\ Receives(br[b], br'[b], b, p, v)
                     /\ ReceivesPath(br[b], br'[b], b, p, v, Taken(b, p, m))
<1> DEFINE e == <<b, p>>
           m == announce[e]
           v == Append(m.vec, p)
           s == AnnounceRx(TakePath(m, br[b], b, p), b, p, v)
<1>1. /\ m # NULL /\ announce' = [announce EXCEPT ![e] = NULL]
      /\ br' = IF Qualified(m, br[b], b, p) THEN [br EXCEPT ![b] = s] ELSE br
      /\ UNCHANGED <<quiet, ticked, calm>>
  BY DEF AnnounceReceive, environment
<1>2. br \in [Bridge -> Rec] /\ br[b] \in After(b) /\ announce \in Addressed /\ \A c \in Bridge : br[c] \in After(c)
  BY DEF BmcaInv
<1>3. m \in Msg
  BY <1>1, <1>2, EndOfPort DEF Addressed
<1>4. CASE ~Qualified(m, br[b], b, p)
  <2>1. br' = br
    BY <1>1, <1>4
  <2>2. Ups' = Ups /\ Prio' = Prio
    BY <2>1, SameNetwork
  <2> HIDE DEF m, s
  <2> QED BY <1>1, <1>2, <1>3, <1>4, <2>1, <2>2 DEF m
<1>5. CASE Qualified(m, br[b], b, p)
  <2>1. v \in Vec /\ FromPeer(v, b, p) /\ \A i \in 1 .. 5 : v[i] = m.vec[i]
    BY <1>1, <1>2, <1>5, ReceivedVector
  <2>2. br' = [br EXCEPT ![b] = s]
    BY <1>1, <1>5
  <2> HIDE DEF v
  <2>3. s \in After(b) /\ Receives(br[b], s, b, p, v) /\ ReceivesPath(br[b], s, b, p, v, Taken(b, p, m))
    BY <1>2, <1>3, <2>1, ReceiveEffect DEF Taken
  <2> HIDE DEF s, m
  <2>4. br'[b] = s /\ \A c \in Bridge : c # b => br'[c] = br[c]
    BY <1>2, <2>2
  <2>5. s.priority = br[b].priority /\ \A o \in Port(b) : s.port[o].capable = br[b].port[o].capable
    BY <2>3 DEF Receives
  <2>6. Ups' = Ups /\ Prio' = Prio
    BY <2>4, <2>5, SameNetwork
  <2>7. v[1] = m.vec[1] /\ v[2] = m.vec[2] /\ v[3] = m.vec[3] /\ v[4] = m.vec[4] /\ v[5] = m.vec[5] /\ v[6] = p
    BY <2>1 DEF FromPeer
  <2>8. \A c \in Bridge : br'[c] \in After(c) /\ (c # b => br'[c] = br[c])
    BY <1>2, <2>3, <2>4
  <2> QED BY <1>1, <1>3, <1>5, <2>1, <2>3, <2>4, <2>6, <2>7, <2>8 DEF m, v
<1> QED BY <1>4, <1>5

\* The intervals: b has ticked once more, the others count from a new interval if
\* all have ticked.
NextTick(b) ==
    /\ b \notin ticked /\ quiet' \in Nat /\ quiet' <= quiet + 1 /\ Ticks(b) = quiet /\ Again(b) = 0
    /\ Ticks(b)' \in Nat /\ Ticks(b)' <= quiet + 1
    /\ \A c \in Bridge : c # b => Ticks(c)' \in Nat /\ Ticks(c)' <= Ticks(c)
    /\ \/ Again(b)' = 1 /\ \A c \in Bridge : c # b => Again(c)' = Again(c)
       \/ Again(b)' = 0 /\ \A c \in Bridge : c # b => Again(c) = 1 /\ Again(c)' = 0

LEMMA TickCounts ==
    ASSUME CalmInv, NEW b \in Bridge, Tick(b)
    PROVE  NextTick(b)
<1>1. b \notin ticked /\ quiet \in Nat
  BY DEF Tick, CalmInv
<1>2. CASE ticked \cup {b} = Bridge
  <2>1. ticked' = {} /\ (quiet' = quiet \/ quiet' = quiet + 1)
    BY <1>2 DEF Tick
  <2>2. \A c \in Bridge : c # b => c \in ticked
    BY <1>2
  <2> QED BY <1>1, <2>1, <2>2 DEF NextTick, Ticks, Again
<1>3. CASE ticked \cup {b} # Bridge
  <2>1. ticked' = ticked \cup {b} /\ quiet' = quiet
    BY <1>3 DEF Tick
  <2> QED BY <1>1, <2>1 DEF NextTick, Ticks, Again
<1> QED BY <1>2, <1>3

LEMMA TickStep ==
    ASSUME BmcaInv, CalmInv, calm, NEW b \in Bridge, Tick(b)
    PROVE  /\ NextTick(b) /\ calm' = calm /\ Ups' = Ups /\ Prio' = Prio
           /\ \A e \in End : announce[e] = NULL
           /\ \A c \in Bridge : br'[c] \in After(c) /\ (c # b => br'[c] = br[c])
           /\ \E s \in Ticked(b) :
                 /\ br'[b] = s.r /\ Later(br[b], s.r, b) /\ \A p \in Port(b) : HasChecked(br[b], s, b, p)
                 /\ \A e \in End : announce'[e] = IF Peer(e)[1] = b THEN s.out[Peer(e)[2]] ELSE NULL
<1> DEFINE s == CheckPorts(br[b], b)
<1>1. br \in [Bridge -> Rec] /\ br[b] \in After(b) /\ \A c \in Bridge : br[c] \in After(c)
  BY DEF BmcaInv
<1>2. s \in Ticked(b) /\ Later(br[b], s.r, b) /\ \A p \in Port(b) : HasChecked(br[b], s, b, p)
  BY <1>1, CheckPortsEffect
<1>3. /\ \A e \in End : announce[e] = NULL
      /\ br' = [br EXCEPT ![b] = s.r] /\ calm' = calm
      /\ announce' = [e \in End |-> IF Peer(e)[1] = b THEN s.out[Peer(e)[2]] ELSE announce[e]]
  BY DEF Tick
<1> HIDE DEF s
<1>4. br'[b] = s.r /\ \A c \in Bridge : c # b => br'[c] = br[c]
  BY <1>1, <1>3
<1>5. \A c \in Bridge : br'[c] \in After(c)
  BY <1>1, <1>2, <1>4 DEF Ticked
<1>6. s.r.priority = br[b].priority /\ \A o \in Port(b) : s.r.port[o].capable = br[b].port[o].capable
  BY <1>2 DEF Later, LaterPort
<1>7. Ups' = Ups /\ Prio' = Prio
  BY <1>4, <1>6, SameNetwork
<1>8. \A e \in End : announce'[e] = IF Peer(e)[1] = b THEN s.out[Peer(e)[2]] ELSE NULL
  BY <1>3
<1>9. NextTick(b)
  BY TickCounts
<1> QED BY <1>2, <1>3, <1>4, <1>5, <1>7, <1>8, <1>9

\* Before that only the end of the changes matters.
LEMMA CalmNext ==
    ASSUME CalmInv, [Next]_vars
    PROVE  /\ CalmInv'
           /\ \/ quiet' = 0
              \/ calm /\ \E b \in Bridge : \E p \in Port(b) : AnnounceReceive(b, p)
              \/ calm /\ \E b \in Bridge : Tick(b)
              \/ UNCHANGED vars
<1> USE DEF CalmInv
<1>1. ASSUME NEW b \in Bridge, NEW p \in Port(b), NEW told \in BOOLEAN, CapableChange(b, p, told)
      PROVE  CalmInv' /\ quiet' = 0
  BY <1>1 DEF CapableChange, Change, clock
<1>2. ASSUME NEW b \in Bridge, NEW p \in Port(b), SyncTimeout(b, p) PROVE CalmInv' /\ quiet' = 0
  BY <1>2 DEF SyncTimeout, Change, clock
<1>3. ASSUME NEW b \in Bridge, NEW p \in Port(b), AnnounceReceive(b, p)
      PROVE  CalmInv' /\ (calm \/ quiet' = 0)
  BY <1>3 DEF AnnounceReceive, environment
<1>4. ASSUME NEW b \in Bridge, NEW prio \in Priority, PrioritySet(b, prio) PROVE CalmInv' /\ quiet' = 0
  BY <1>4 DEF PrioritySet, Change, clock
<1>5. ASSUME NEW e \in End, Lose(e) PROVE CalmInv' /\ quiet' = 0
  BY <1>5 DEF Lose, Change, clock
<1>6. CASE CalmDown
  BY <1>6 DEF CalmDown
<1>7. ASSUME NEW b \in Bridge, Tick(b) PROVE CalmInv' /\ (calm \/ quiet' = 0)
  <2>1. calm' = calm /\ (quiet' = quiet \/ (calm /\ quiet' = quiet + 1))
    BY <1>7 DEF Tick
  <2> QED BY <2>1
<1>8. CASE UNCHANGED vars
  BY <1>8 DEF vars
<1> QED BY <1>1, <1>2, <1>3, <1>4, <1>5, <1>6, <1>7, <1>8 DEF Next

-----------------------------------------------------------------------------
(* What is not true dies out: information that has come n steps is younger   *)
(* than Age(n), or true.                                                     *)

AgedPort(b, p) ==
    LET i == br[b].port[p]
    IN  i.infoIs = "RECEIVED" =>
            Genuine(Ups, Prio, i.vec, <<b, p>>) \/ Ticks(b) <= Age(i.vec[3]) + i.rxTimer + 1
AgedMessage(e) ==
    LET m == announce[e]
    IN  m # NULL /\ br[e[1]].port[e[2]].capable =>
            Genuine(Ups, Prio, m.vec, e) \/ quiet <= Age(m.vec[3])
AgeInv ==
    /\ \A b \in Bridge : \A p \in Port(b) : AgedPort(b, p)
    /\ \A e \in End : AgedMessage(e)

LEMMA RecordFacts ==
    ASSUME NEW b \in Bridge, NEW r \in After(b), NEW p \in Port(b)
    PROVE  LET i == r.port[p]
           IN  /\ i \in PortRec /\ i.vec \in Vec /\ i.vec[3] \in Nat
               /\ i.rxTimer \in Nat /\ i.rxTimer <= TIMEOUT
               /\ i.infoIs = "RECEIVED" => FromPeer(i.vec, b, p)
<1>1. r.port[p] \in PortRec /\ KnownPort(r.port[p], b, p)
  BY AfterIsBefore DEF Before, Known
<1>2. r.port[p].vec \in Vec /\ r.port[p].rxTimer \in 0 .. TIMEOUT
  BY <1>1 DEF PortRec
<1> QED BY <1>1, <1>2, VecFacts, NumberAssumption DEF KnownPort

LEMMA MessageFacts ==
    ASSUME NEW A \in Addressed, NEW e \in End, A[e] # NULL
    PROVE  LET m == A[e]
           IN  /\ m \in Msg /\ m.vec[1] \in Nat /\ m.vec[2] \in Bridge /\ m.vec[3] \in Nat
               /\ m.vec[4] = Peer(e)[1] /\ m.vec[5] = Peer(e)[2]
<1>1. A[e] \in Msg /\ A[e].vec[4] = Peer(e)[1] /\ A[e].vec[5] = Peer(e)[2]
  BY DEF Addressed
<1>2. A[e].vec \in Seq(Nat) /\ Len(A[e].vec) = 5 /\ A[e].vec[2] \in Bridge
  BY <1>1 DEF Msg
<1>3. A[e].vec[1] \in Nat /\ A[e].vec[3] \in Nat
  BY <1>2, ElementOfSeq
<1> QED BY <1>1, <1>2, <1>3

LEMMA CountFacts ==
    ASSUME CalmInv, NEW b
    PROVE  /\ quiet \in Nat /\ Ticks(b) \in Nat /\ Again(b) \in Nat /\ Again(b) <= 1
           /\ quiet <= Ticks(b) /\ Ticks(b) <= quiet + 1
BY DEF CalmInv, Ticks, Again

\* What a bridge has received and believes competes with the true clocks.
LEMMA AgedGm ==
    ASSUME BmcaInv, CalmInv, AgeInv, NEW b \in Bridge, b \notin ticked, NEW t \in After(b), Later(br[b], t, b)
    PROVE  Truthful(Ups, Prio, t.gm, b) \/ quiet + 1 <= Age(t.gm[3])
<1>1. Links(Ups) /\ Prio \in [Bridge -> Nat] /\ br[b] \in After(b)
  BY NetworkType
<1>2. t.gm \in Potential(t, b)
  BY GmIsPotential
<1>3. t.gm \in Potential(br[b], b)
  BY <1>2, LaterPotential
<1>4. CASE t.gm = Own(br[b], b)
  <2>1. br[b].priority \in Nat /\ b \in Nat
    BY <1>1, AfterIsBefore, BridgeAssumption DEF BridgeRec
  <2>2. t.gm[1] = Prio[b] /\ t.gm[2] = b /\ t.gm[3] = 0
    BY <1>4, <2>1 DEF Own, Prio
  <2> QED BY <2>2, WalkZero DEF Truthful
<1>5. ASSUME NEW p \in Port(b), br[b].port[p].infoIs = "RECEIVED", t.gm = Further(br[b].port[p].vec)
      PROVE  Truthful(Ups, Prio, t.gm, b) \/ quiet + 1 <= Age(t.gm[3])
  <2> DEFINE i == br[b].port[p]
             e == <<b, p>>
  <2>1. i.vec \in Vec /\ i.vec[3] \in Nat /\ i.rxTimer \in Nat /\ i.rxTimer <= TIMEOUT
    BY <1>1, RecordFacts
  <2>2. Genuine(Ups, Prio, i.vec, e) \/ Ticks(b) <= Age(i.vec[3]) + i.rxTimer + 1
    BY <1>5 DEF AgeInv, AgedPort
  <2>3. CASE Genuine(Ups, Prio, i.vec, e)
    <3>1. e \in Ups /\ Truthful(Ups, Prio, i.vec, Peer(e)[1])
      BY <2>3 DEF Genuine
    <3>2. Peer(e)[1] \in Bridge /\ Beside(Ups, b, Peer(e)[1])
      BY <3>1, EndOfPort DEF Beside
    <3>3. Beside(Ups, Peer(e)[1], b)
      BY <1>1, <3>2, BesideBoth
    <3> HIDE DEF i, e
    <3>4. Truthful(Ups, Prio, Further(i.vec), b)
      BY <2>1, <3>1, <3>3, TrueFurther
    <3> QED BY <1>5, <3>4 DEF i
  <2>4. CASE Ticks(b) <= Age(i.vec[3]) + i.rxTimer + 1
    <3>1. Ticks(b) = quiet /\ quiet \in Nat
      BY DEF Ticks, Again, CalmInv
    <3>2. t.gm[3] = i.vec[3] + 1
      BY <1>5, <2>1 DEF Further, Vec
    <3>3. Age(i.vec[3]) \in Nat /\ Age(i.vec[3] + 1) = Age(i.vec[3]) + TIMEOUT + 2 /\ TIMEOUT \in Nat
      BY <2>1, Ages
    <3> HIDE DEF i
    <3>4. quiet + 1 <= Age(i.vec[3] + 1)
      BY <2>1, <2>4, <3>1, <3>3
    <3> QED BY <3>2, <3>4
  <2> QED BY <2>2, <2>3, <2>4
<1> QED BY <1>3, <1>4, <1>5 DEF Potential, Received

LEMMA AgeReceive ==
    ASSUME BmcaInv, BmcaInv', CalmInv, AgeInv, NEW b \in Bridge, NEW p \in Port(b), AnnounceReceive(b, p)
    PROVE  AgeInv'
<1> DEFINE m == announce[<<b, p>>]
           v == Append(m.vec, p)
<1>1. /\ UNCHANGED <<quiet, ticked, calm>> /\ Ups' = Ups /\ Prio' = Prio
      /\ m # NULL /\ m \in Msg /\ announce' = [announce EXCEPT ![<<b, p>>] = NULL]
      /\ \A c \in Bridge : br'[c] \in After(c) /\ (c # b => br'[c] = br[c])
      /\ \/ ~Qualified(m, br[b], b, p) /\ br'[b] = br[b]
         \/ /\ Qualified(m, br[b], b, p) /\ v \in Vec
            /\ v[1] = m.vec[1] /\ v[2] = m.vec[2] /\ v[3] = m.vec[3]
            /\ Receives(br[b], br'[b], b, p, v)
  BY ReceiveStep
<1> HIDE DEF v
<1>2. \A c \in Bridge : Ticks(c)' = Ticks(c)
  BY <1>1 DEF Ticks, Again
<1>3. \A c \in Bridge : \A o \in Port(c) : br'[c].port[o].capable = br[c].port[o].capable
  BY <1>1 DEF Receives
<1>4. ASSUME NEW c \in Bridge, NEW o \in Port(c) PROVE AgedPort(c, o)'
  <2>1. AgedPort(c, o)
    BY DEF AgeInv
  <2>2. CASE br'[c] = br[c]
    BY <1>1, <1>2, <2>1, <2>2 DEF AgedPort
  <2>3. CASE c = b /\ br'[b] # br[b]
    <3>1. Qualified(m, br[b], b, p) /\ v \in Vec /\ v[1] = m.vec[1] /\ v[2] = m.vec[2] /\ v[3] = m.vec[3]
          /\ Receives(br[b], br'[b], b, p, v)
      BY <1>1, <2>3
    <3>2. br[b].port[p].capable
      BY <3>1 DEF Qualified
    <3>3. Genuine(Ups, Prio, m.vec, <<b, p>>) \/ quiet <= Age(m.vec[3])
      BY <1>1, <3>2, EndOfPort DEF AgeInv, AgedMessage
    <3>4. Genuine(Ups, Prio, v, <<b, p>>) \/ quiet <= Age(v[3])
      BY <3>1, <3>3 DEF Genuine, Truthful
    <3>5. Age(v[3]) \in Nat
      BY <3>1, VecFacts, Ages
    <3>6. quiet \in Nat /\ Ticks(b) \in Nat /\ Ticks(b) <= quiet + 1
      BY CountFacts
    <3> HIDE DEF m
    <3> DEFINE i == br[b].port[o]
               j == br'[b].port[o]
    <3>7. j.infoIs = "RECEIVED" => SameReceived(i, j) \/ (o = p /\ Fresh(j, v))
      BY <2>3, <3>1 DEF Receives
    <3>8. i.infoIs = "RECEIVED" =>
              Genuine(Ups, Prio, i.vec, <<b, o>>) \/ Ticks(b) <= Age(i.vec[3]) + i.rxTimer + 1
      BY <2>1, <2>3 DEF AgedPort
    <3> HIDE DEF i, j
    <3>9. j.infoIs = "RECEIVED" =>
              Genuine(Ups, Prio, j.vec, <<b, o>>) \/ Ticks(b) <= Age(j.vec[3]) + j.rxTimer + 1
      <4>1. CASE j.infoIs = "RECEIVED" /\ SameReceived(i, j)
        BY <3>8, <4>1 DEF SameReceived
      <4>2. CASE o = p /\ Fresh(j, v)
        <5>1. j.vec = v /\ j.rxTimer = 0
          BY <4>2 DEF Fresh
        <5> QED BY <3>4, <3>5, <3>6, <4>2, <5>1
      <4> QED BY <3>7, <4>1, <4>2
    <3> QED BY <1>1, <1>2, <2>3, <3>9 DEF AgedPort, j
  <2> QED BY <1>1, <2>2, <2>3
<1>5. ASSUME NEW e \in End PROVE AgedMessage(e)'
  <2>1. AgedMessage(e)
    BY DEF AgeInv
  <2>2. e[1] \in Bridge /\ e[2] \in Port(e[1])
    BY PeerOfEnd
  <2>3. announce'[e] = announce[e] \/ announce'[e] = NULL
    BY <1>1 DEF BmcaInv, Addressed
  <2> QED BY <1>1, <1>3, <2>1, <2>2, <2>3 DEF AgedMessage
<1> QED BY <1>4, <1>5 DEF AgeInv

LEMMA AgeTick ==
    ASSUME BmcaInv, BmcaInv', CalmInv, AgeInv, calm, NEW b \in Bridge, Tick(b)
    PROVE  AgeInv'
<1>1. PICK s \in Ticked(b) :
         /\ br'[b] = s.r /\ Later(br[b], s.r, b) /\ \A p \in Port(b) : HasChecked(br[b], s, b, p)
         /\ \A e \in End : announce'[e] = IF Peer(e)[1] = b THEN s.out[Peer(e)[2]] ELSE NULL
  BY TickStep
<1>2. /\ NextTick(b) /\ Ups' = Ups /\ Prio' = Prio
      /\ \A c \in Bridge : br'[c] \in After(c) /\ (c # b => br'[c] = br[c])
  BY TickStep
<1>3. ASSUME NEW c \in Bridge, NEW o \in Port(c) PROVE AgedPort(c, o)'
  <2>1. AgedPort(c, o) /\ br[c] \in After(c)
    BY NetworkType DEF AgeInv
  <2> DEFINE i == br[c].port[o]
             j == br'[c].port[o]
  <2>2. i.vec[3] \in Nat /\ i.rxTimer \in Nat
    BY <2>1, RecordFacts
  <2>3. i.infoIs = "RECEIVED" =>
            Genuine(Ups, Prio, i.vec, <<c, o>>) \/ Ticks(c) <= Age(i.vec[3]) + i.rxTimer + 1
    BY <2>1 DEF AgedPort
  <2>4. Age(i.vec[3]) \in Nat
    BY <2>2, Ages
  <2>5. CASE c # b
    <3>1. j = i /\ Ticks(c)' \in Nat /\ Ticks(c)' <= Ticks(c) /\ Ticks(c) \in Nat
      BY <1>2, <2>5, CountFacts DEF NextTick
    <3> HIDE DEF i, j
    <3>2. j.infoIs = "RECEIVED" =>
              Genuine(Ups, Prio, j.vec, <<c, o>>) \/ Ticks(c)' <= Age(j.vec[3]) + j.rxTimer + 1
      BY <2>2, <2>3, <2>4, <3>1
    <3> QED BY <1>2, <3>2 DEF AgedPort, j
  <2>6. CASE c = b
    <3>1. Ticks(c) = quiet /\ Ticks(c)' \in Nat /\ Ticks(c)' <= quiet + 1 /\ quiet \in Nat
      BY <1>2, <2>6, CountFacts DEF NextTick
    <3>2. j.infoIs = "RECEIVED" => i.infoIs = "RECEIVED" /\ j.vec = i.vec /\ j.rxTimer = i.rxTimer + 1
      BY <1>1, <2>6 DEF HasChecked, Later, LaterPort
    <3> HIDE DEF i, j
    <3>3. j.infoIs = "RECEIVED" =>
              Genuine(Ups, Prio, j.vec, <<c, o>>) \/ Ticks(c)' <= Age(j.vec[3]) + j.rxTimer + 1
      BY <2>2, <2>3, <2>4, <3>1, <3>2
    <3> QED BY <1>2, <3>3 DEF AgedPort, j
  <2> QED BY <2>5, <2>6
<1>4. ASSUME NEW e \in End, announce'[e] # NULL, br'[e[1]].port[e[2]].capable
      PROVE  Genuine(Ups, Prio, announce'[e].vec, e) \/ quiet' <= Age(announce'[e].vec[3])
  <2> DEFINE f == Peer(e)
  <2>1. f[1] = b /\ announce'[e] = s.out[f[2]] /\ s.out[f[2]] # NULL
    BY <1>1, <1>4
  <2>2. f[2] \in Port(b) /\ f \in End /\ Peer(f) = e /\ e[1] \in Bridge /\ e[2] \in Port(e[1])
        /\ f = <<f[1], f[2]>>
    BY <2>1, PeerOfEnd
  <2>3. /\ br[b].port[f[2]].capable
        /\ \E t \in After(b) : Later(br[b], t, b) /\ s.out[f[2]] = Announce(t, b, f[2])
    BY <1>1, <2>1, <2>2 DEF HasChecked
  <2>4. PICK t \in After(b) : Later(br[b], t, b) /\ s.out[f[2]] = Announce(t, b, f[2])
    BY <2>3
  <2>5. announce'[e].vec[1] = t.gm[1] /\ announce'[e].vec[2] = t.gm[2] /\ announce'[e].vec[3] = t.gm[3]
    BY <2>1, <2>4 DEF Announce
  <2>6. br'[b].port[f[2]].capable
    BY <1>1, <2>2, <2>3 DEF Later, LaterPort
  <2>7. e \in Ups'
    BY <1>4, <2>1, <2>2, <2>6 DEF Ups, Up
  <2>8. b \notin ticked /\ quiet' \in Nat /\ quiet' <= quiet + 1 /\ quiet \in Nat
    BY <1>2, CountFacts DEF NextTick
  <2>9. Truthful(Ups, Prio, t.gm, b) \/ quiet + 1 <= Age(t.gm[3])
    BY <2>4, <2>8, AgedGm
  <2>10. Age(t.gm[3]) \in Nat
    BY GmIsPotential, VecFacts, Ages
  <2>11. CASE Truthful(Ups, Prio, t.gm, b)
    BY <1>2, <2>1, <2>5, <2>7, <2>11 DEF Genuine, Truthful
  <2>12. CASE quiet + 1 <= Age(t.gm[3])
    BY <2>5, <2>8, <2>10, <2>12
  <2> QED BY <2>9, <2>11, <2>12
<1>5. \A e \in End : AgedMessage(e)'
  BY <1>2, <1>4 DEF AgedMessage
<1> QED BY <1>3, <1>5 DEF AgeInv

LEMMA SameAll ==
    ASSUME UNCHANGED vars
    PROVE  /\ Ups' = Ups /\ Prio' = Prio /\ \A b : Ticks(b)' = Ticks(b) /\ Again(b)' = Again(b)
           /\ UNCHANGED <<br, announce, quiet>>
<1>1. br' = br /\ announce' = announce /\ quiet' = quiet /\ ticked' = ticked
  BY DEF vars
<1>2. Ups' = Ups /\ Prio' = Prio
  BY <1>1, SameNetwork
<1> QED BY <1>1, <1>2 DEF Ticks, Again

LEMMA AgeNext ==
    ASSUME BmcaInv, BmcaInv', CalmInv, AgeInv, [Next]_vars
    PROVE  AgeInv'
<1>1. CASE quiet' = 0
  <2>1. ASSUME NEW b \in Bridge, NEW p \in Port(b) PROVE AgedPort(b, p)'
    <3>1. br'[b] \in After(b)
      BY DEF BmcaInv
    <3>2. br'[b].port[p].vec[3] \in Nat /\ br'[b].port[p].rxTimer \in Nat
      BY <3>1, RecordFacts
    <3>3. Ticks(b)' = 0 \/ Ticks(b)' = 1
      BY <1>1 DEF Ticks, Again
    <3>4. Age(br'[b].port[p].vec[3]) \in Nat
      BY <3>2, Ages
    <3>5. Ticks(b)' <= Age(br'[b].port[p].vec[3]) + br'[b].port[p].rxTimer + 1
      BY <3>2, <3>3, <3>4
    <3> QED BY <3>5 DEF AgedPort
  <2>2. ASSUME NEW e \in End, announce'[e] # NULL PROVE quiet' <= Age(announce'[e].vec[3])
    <3>1. announce' \in Addressed
      BY DEF BmcaInv
    <3>2. announce'[e].vec[3] \in Nat
      BY <2>2, <3>1, MessageFacts
    <3> QED BY <1>1, <3>2, Ages
  <2> QED BY <2>1, <2>2 DEF AgeInv, AgedMessage
<1>2. CASE UNCHANGED vars
  BY <1>2, SameAll DEF AgeInv, AgedPort, AgedMessage
<1> QED BY <1>1, <1>2, CalmNext, AgeReceive, AgeTick

-----------------------------------------------------------------------------
(* The truth spreads: what holds of an end e that feeds the other end of its  *)
(* link, n links from the best clock x.                                       *)

\* What is sent over the link.
RightMessage(P, U, x, n, e, m) ==
    m.vec[1] = P[x] /\ m.vec[2] = x /\ m.vec[3] = n /\ m.path \subseteq Near(U, x, e[1], n)

Ready(x, n, e) == Ticks(e[1]) >= Start(n) => ~br[e[1]].port[e[2]].txReset
Sent(x, n, e) ==
    LET m == announce[Peer(e)]
    IN  Ticks(e[1]) >= Start(n) + 1 /\ m # NULL => RightMessage(Prio, Ups, x, n, e, m)
Held(x, n, e) ==
    Ticks(e[1]) >= Start(n) + 1 =>
        \/ Holds(Prio, x, n, e, br[Peer(e)[1]])
        \/ announce[Peer(e)] # NULL /\ Ticks(e[1]) <= Start(n) + 1
Recent(x, n, e) ==
    LET f == Peer(e)
    IN  Ticks(e[1]) >= Start(n) + 1 /\ announce[f] = NULL =>
            br[f[1]].port[f[2]].rxTimer + Again(e[1]) <= Again(f[1]) + 1
ShortPath(x, n, e) ==
    LET f == Peer(e)
    IN  /\ IsDist(Ups, x, f[1], n + 1) /\ Ticks(e[1]) >= Start(n) + 3
        /\ br[f[1]].port[f[2]].role = "SLAVE"
        => \/ br[f[1]].gmPath \subseteq Near(Ups, x, f[1], n + 1)
           \/ announce[f] # NULL /\ Ticks(e[1]) <= Start(n) + 3

Spread(x, n, e) == Ready(x, n, e) /\ Sent(x, n, e) /\ Held(x, n, e) /\ Recent(x, n, e) /\ ShortPath(x, n, e)
FeedInv == \A e \in End, x \in Bridge, n \in Nat : Feeds(Ups, Prio, x, n, e) => Spread(x, n, e)

SettleInv == BmcaInv /\ CalmInv /\ AgeInv /\ FeedInv

\* The constants under which all that holds: a port waits for more than one Announce,
\* and no bridge is as far as the steps that are discarded.
WithinLimits == TIMEOUT >= 2 /\ Cardinality(Bridge) <= MaxSteps

LEMMA FeedSpread ==
    ASSUME SettleInv, NEW x, NEW n, NEW e, Feeds(Ups, Prio, x, n, e)
    PROVE  Spread(x, n, e)
<1>1. Links(Ups) /\ Prio \in [Bridge -> Nat]
  BY NetworkType DEF SettleInv
<1>2. e \in End /\ x \in Bridge /\ n \in Nat
  BY <1>1, FeedFacts
<1> QED BY <1>2 DEF SettleInv, FeedInv

\* Nothing untrue is left.
LEMMA AllTrueAt ==
    ASSUME SettleInv, NEW b \in Bridge, Ticks(b) >= Age(MaxSteps)
    PROVE  AllTrue(Ups, Prio, br[b], b)
<1>1. br[b] \in After(b)
  BY NetworkType DEF SettleInv
<1>2. br[b].priority = Prio[b]
  BY DEF Prio
<1>3. ASSUME NEW p \in Port(b), br[b].port[p].infoIs = "RECEIVED"
      PROVE  Genuine(Ups, Prio, br[b].port[p].vec, <<b, p>>)
  <2> DEFINE i == br[b].port[p]
  <2>1. i.vec[3] \in Nat /\ i.rxTimer \in Nat /\ i.rxTimer <= TIMEOUT /\ i.vec[3] < MaxSteps
    BY <1>1, <1>3, RecordFacts DEF FromPeer
  <2>2. Genuine(Ups, Prio, i.vec, <<b, p>>) \/ Ticks(b) <= Age(i.vec[3]) + i.rxTimer + 1
    BY <1>3 DEF SettleInv, AgeInv, AgedPort
  <2>3. Age(i.vec[3]) \in Nat /\ Age(i.vec[3]) + TIMEOUT + 2 <= Age(MaxSteps) /\ TIMEOUT \in Nat
        /\ Age(MaxSteps) \in Nat
    BY <2>1, Ages
  <2>4. Ticks(b) \in Nat
    BY CountFacts DEF SettleInv
  <2> HIDE DEF i
  <2>5. ~(Ticks(b) <= Age(i.vec[3]) + i.rxTimer + 1)
    BY <2>1, <2>3, <2>4
  <2> QED BY <2>2, <2>5 DEF i
<1> QED BY <1>2, <1>3 DEF AllTrue

LEMMA MessageTrue ==
    ASSUME SettleInv, NEW e \in End, announce[e] # NULL, br[e[1]].port[e[2]].capable,
           announce[e].vec[3] < MaxSteps, quiet >= Age(MaxSteps)
    PROVE  Genuine(Ups, Prio, announce[e].vec, e)
<1> DEFINE m == announce[e]
<1>1. m.vec[3] \in Nat
  BY MessageFacts DEF SettleInv, BmcaInv
<1>2. Genuine(Ups, Prio, m.vec, e) \/ quiet <= Age(m.vec[3])
  BY DEF SettleInv, AgeInv, AgedMessage
<1>3. /\ Age(m.vec[3]) \in Nat /\ Age(m.vec[3]) + TIMEOUT + 2 <= Age(MaxSteps) /\ TIMEOUT \in Nat
      /\ Age(MaxSteps) \in Nat /\ quiet \in Nat
  BY <1>1, Ages, CountFacts DEF SettleInv
<1> HIDE DEF m
<1>4. ~(quiet <= Age(m.vec[3]))
  BY <1>3
<1> QED BY <1>2, <1>4 DEF m

\* The time from which the GM of a bridge at distance n is right.
RightFrom(n) == IF n = 0 THEN quiet + 1 >= Start(n) ELSE quiet + 3 >= Start(n)

LEMMA RightFromFacts ==
    ASSUME CalmInv, NEW n \in Nat, RightFrom(n), NEW b
    PROVE  Ticks(b) >= Age(MaxSteps) /\ quiet >= Age(MaxSteps)
<1>1. quiet \in Nat /\ Ticks(b) \in Nat /\ Ticks(b) >= quiet
  BY CountFacts
<1>2. Start(0) = Age(MaxSteps) + 1 /\ Age(MaxSteps) \in Nat
  BY Ages
<1>3. CASE n = 0
  BY <1>1, <1>2, <1>3 DEF RightFrom
<1>4. CASE n # 0
  <2>1. n - 1 \in Nat /\ (n - 1) + 1 = n
    BY <1>4
  <2>2. Start(n) = Start(n - 1) + 5 /\ Start(n - 1) >= Age(MaxSteps) + 1 /\ Start(n - 1) \in Nat
    BY <2>1, Ages
  <2> QED BY <1>1, <1>2, <1>4, <2>2 DEF RightFrom
<1> QED BY <1>3, <1>4

\* Each end that feeds a bridge at distance n is held by then.
LEMMA HeldAt ==
    ASSUME SettleInv, NEW n \in Nat, RightFrom(n + 1), NEW x, NEW e, Feeds(Ups, Prio, x, n, e)
    PROVE  Holds(Prio, x, n, e, br[Peer(e)[1]])
<1>1. Held(x, n, e)
  BY FeedSpread DEF Spread
<1>2. quiet \in Nat /\ Ticks(e[1]) \in Nat /\ Ticks(e[1]) >= quiet
  BY CountFacts DEF SettleInv
<1>3. Start(n) \in Nat /\ Start(n + 1) = Start(n) + 5 /\ n + 1 # 0
  BY Ages
<1>4. Ticks(e[1]) >= Start(n) + 2
  BY <1>2, <1>3 DEF RightFrom
<1> QED BY <1>1, <1>2, <1>3, <1>4 DEF Held

LEMMA FeedCapable ==
    ASSUME BmcaInv, NEW x, NEW n, NEW e, Feeds(Ups, Prio, x, n, e)
    PROVE  br[e[1]].port[e[2]].capable /\ br[Peer(e)[1]].port[Peer(e)[2]].capable
<1>1. Links(Ups) /\ Prio \in [Bridge -> Nat]
  BY NetworkType
<1>2. e \in Ups /\ Peer(e) \in Ups
  BY <1>1, FeedFacts
<1> QED BY <1>2, UpCapable

LEMMA RightAt ==
    ASSUME SettleInv, NEW b \in Bridge, NEW x, NEW n \in Nat, IsRoot(Ups, Prio, x, b), IsDist(Ups, x, b, n),
           RightFrom(n)
    PROVE  Right(Prio, x, n, br[b]) /\ AllTrue(Ups, Prio, br[b], b)
<1>1. Links(Ups) /\ Prio \in [Bridge -> Nat] /\ br[b] \in After(b)
  BY NetworkType DEF SettleInv
<1>2. AllTrue(Ups, Prio, br[b], b)
  BY AllTrueAt, RightFromFacts DEF SettleInv
<1>3. CASE n = 0
  BY <1>1, <1>2, <1>3, GmRight
<1>4. CASE n # 0
  <2>1. n - 1 \in Nat /\ (n - 1) + 1 = n
    BY <1>4
  <2>2. PICK e : Feeds(Ups, Prio, x, n - 1, e) /\ Peer(e)[1] = b
    BY <1>1, <2>1, FedByParent
  <2>3. Holds(Prio, x, n - 1, e, br[b])
    BY <2>1, <2>2, HeldAt
  <2>4. br[b].port[Peer(e)[2]].capable
    BY <2>2, FeedCapable DEF SettleInv
  <2> QED BY <1>1, <1>2, <2>2, <2>3, <2>4, GmRight
<1> QED BY <1>2, <1>3, <1>4

\* The path to the GM names only bridges that are nearer to it.
LEMMA PathAt ==
    ASSUME SettleInv, \A e \in End : announce[e] = NULL, NEW b \in Bridge, NEW x, NEW n \in Nat,
           IsRoot(Ups, Prio, x, b), IsDist(Ups, x, b, n), quiet >= Start(n)
    PROVE  br[b].gmPath \subseteq Near(Ups, x, b, n)
<1>1. Links(Ups) /\ Prio \in [Bridge -> Nat] /\ br[b] \in After(b) /\ quiet \in Nat /\ Start(n) \in Nat
  BY NetworkType, CountFacts, Ages DEF SettleInv
<1>2. RightFrom(n)
  BY <1>1 DEF RightFrom
<1>3. Right(Prio, x, n, br[b]) /\ AllTrue(Ups, Prio, br[b], b)
  BY <1>2, RightAt
<1>4. CASE n = 0
  <2>1. x = b
    <3>1. x \in Bridge
      BY DEF IsRoot
    <3> QED BY <1>4, <3>1, DistZero
  <2>2. br[b].gm[2] = b /\ Elected(br[b], b)
    BY <1>1, <1>3, <2>1 DEF Right, After
  <2>3. br[b].gmPath = {b}
    BY <2>2 DEF Elected
  <2> QED BY <2>3 DEF Near
<1>5. CASE n # 0
  <2>1. n - 1 \in Nat /\ (n - 1) + 1 = n
    BY <1>5
  <2>2. x # b /\ Elected(br[b], b) /\ br[b].gm[2] = x
    BY <1>1, <1>3, <1>5, DistZero DEF Right, After
  <2>3. br[b].gm # Own(br[b], b)
    BY <2>2 DEF Own
  <2>4. PICK p \in Port(b) : br[b].port[p].infoIs = "RECEIVED" /\ br[b].gm = Further(br[b].port[p].vec)
    BY <2>2, <2>3 DEF Elected
  <2> DEFINE f == <<b, p>>
             e == Peer(f)
  <2>5. Feeds(Ups, Prio, x, n - 1, e)
    BY <1>1, <1>3, <2>1, <2>4, SlaveIsFed
  <2>6. ShortPath(x, n - 1, e)
    BY <2>5, FeedSpread DEF Spread
  <2>7. Peer(e) = f /\ f[1] = b /\ f[2] = p /\ f \in End
    BY EndOfPort
  <2>8. br[b].port[p].role = "SLAVE"
    <3>1. br[b].port[p].vec \in Vec
      BY <1>1, RecordFacts
    <3>2. IsFrom(br[b].port[p], br[b].gm)
      BY <2>4, <3>1 DEF IsFrom, Further, Vec
    <3> QED BY <2>2, <2>4, <3>2 DEF Elected
  <2> HIDE DEF e, f
  <2>9. Start(n) = Start(n - 1) + 5 /\ Start(n - 1) \in Nat /\ Ticks(e[1]) \in Nat /\ Ticks(e[1]) >= quiet
    BY <2>1, Ages, CountFacts DEF SettleInv
  <2>10. Ticks(e[1]) >= Start(n - 1) + 3 /\ announce[f] = NULL
    BY <1>1, <2>7, <2>9
  <2> QED BY <2>1, <2>6, <2>7, <2>8, <2>10 DEF ShortPath
<1> QED BY <1>4, <1>5

-----------------------------------------------------------------------------
(* The receipt of an Announce spreads the truth.                             *)

LEMMA FeedTime ==
    ASSUME CalmInv, NEW n \in Nat, NEW a, Ticks(a) >= Start(n) + 1, NEW b
    PROVE  /\ quiet \in Nat /\ Ticks(a) \in Nat /\ Start(n) \in Nat /\ Ticks(a) <= quiet + 1 /\ quiet >= Start(n)
           /\ quiet >= Age(MaxSteps) /\ Ticks(b) >= Age(MaxSteps)
<1>1. quiet \in Nat /\ Ticks(a) \in Nat /\ Ticks(a) <= quiet + 1 /\ Ticks(b) \in Nat /\ Ticks(b) >= quiet
  BY CountFacts
<1>2. Start(n) \in Nat /\ Start(n) >= Age(MaxSteps) + 1 /\ Age(MaxSteps) \in Nat
  BY Ages
<1> QED BY <1>1, <1>2

\* What is sent to the other end is not discarded.
LEMMA FedArrives ==
    ASSUME SettleInv, WithinLimits, NEW x, NEW n, NEW e, Feeds(Ups, Prio, x, n, e), NEW m,
           m = announce[Peer(e)], m # NULL, Ticks(e[1]) >= Start(n) + 1
    PROVE  /\ Qualified(m, br[Peer(e)[1]], Peer(e)[1], Peer(e)[2])
           /\ Append(m.vec, Peer(e)[2]) = Fed(Prio, x, n, e)
<1> DEFINE f == Peer(e)
<1>1. Links(Ups) /\ Prio \in [Bridge -> Nat]
  BY NetworkType DEF SettleInv
<1>2. /\ f \in End /\ Peer(f) = e /\ f[1] \in Bridge /\ f[2] \in Port(f[1]) /\ e[1] \in Bridge
      /\ e[1] # f[1] /\ x # f[1] /\ n \in Nat /\ Fed(Prio, x, n, e) \in Vec
  BY <1>1, FeedFacts
<1>3. RightMessage(Prio, Ups, x, n, e, m)
  BY FeedSpread DEF Spread, Sent
<1>4. m \in Msg /\ m.vec[4] = e[1] /\ m.vec[5] = e[2]
  BY <1>2, MessageFacts DEF SettleInv, BmcaInv
<1>5. m.vec[1] = Prio[x] /\ m.vec[2] = x /\ m.vec[3] = n /\ m.path \subseteq Near(Ups, x, e[1], n)
  BY <1>3 DEF RightMessage
<1>6. n < MaxSteps
  <2>1. IsDist(Ups, x, e[1], n)
    BY DEF Feeds
  <2>2. n + 1 <= Cardinality(Bridge) /\ Cardinality(Bridge) \in Nat /\ MaxSteps \in Nat
    BY <1>2, <2>1, DistBound, NumberAssumption
  <2> QED BY <1>2, <2>2 DEF WithinLimits
<1>7. f[1] \notin Near(Ups, x, e[1], n)
  <2>1. PICK k \in Nat : IsDist(Ups, x, f[1], k) /\ Ahead(n, e[1], k, f[1])
    BY DEF Feeds
  <2>2. k >= n
    BY <1>2, <2>1 DEF Ahead
  <2>3. ASSUME NEW l \in 0 .. n - 1, IsDist(Ups, x, f[1], l) PROVE FALSE
    <3>1. l = k
      BY <2>1, <2>3, DistOnce
    <3> QED BY <1>2, <2>2, <3>1
  <2> HIDE DEF f
  <2> QED BY <1>2, <2>3 DEF Near
<1>8. br[f[1]].port[f[2]].capable
  BY FeedCapable DEF SettleInv
<1>9. Append(m.vec, f[2]) = Fed(Prio, x, n, e)
  <2> DEFINE v == Append(m.vec, f[2])
             w == Fed(Prio, x, n, e)
  <2>1. f[2] \in Nat
    BY <1>2, BridgeFacts
  <2>2. m.vec \in Seq(Nat) /\ Len(m.vec) = 5
    BY <1>4 DEF Msg
  <2>3. v \in Vec /\ v[6] = f[2] /\ \A i \in 1 .. 5 : v[i] = m.vec[i]
    BY <2>1, <2>2, AppendPort
  <2> HIDE DEF v
  <2>4. v[1] = Prio[x] /\ v[2] = x /\ v[3] = n /\ v[4] = e[1] /\ v[5] = e[2]
    BY <1>4, <1>5, <2>3
  <2>5. w[1] = Prio[x] /\ w[2] = x /\ w[3] = n /\ w[4] = e[1] /\ w[5] = e[2] /\ w[6] = f[2]
    BY FedVector
  <2> HIDE DEF w
  <2>6. v = w
    BY <1>2, <2>3, <2>4, <2>5, VecEqual DEF w
  <2> QED BY <2>6 DEF v, w
<1> HIDE DEF f
<1>10. f[1] \notin m.path
  BY <1>5, <1>7
<1>11. Qualified(m, br[f[1]], f[1], f[2])
  BY <1>2, <1>4, <1>5, <1>6, <1>8, <1>10 DEF Qualified
<1> QED BY <1>9, <1>11 DEF f

\* Nothing that is true takes the port from what it is fed.
LEMMA FedNotDisplaced ==
    ASSUME SettleInv, NEW x, NEW n, NEW e, Feeds(Ups, Prio, x, n, e), NEW c, c = Peer(e)[1],
           AllTrue(Ups, Prio, br[c], c), NEW v \in Vec, NEW g \in End, g[1] = c, Genuine(Ups, Prio, v, g),
           NEW w \in Potential(br[c], c) \cup {Further(v)}
    PROVE  ~Displaces(w, Fed(Prio, x, n, e), c, Peer(e)[2])
<1>1. Links(Ups) /\ Prio \in [Bridge -> Nat]
  BY NetworkType DEF SettleInv
<1>2. c \in Bridge /\ Peer(e)[2] \in Port(c)
  BY <1>1, FeedFacts
<1>3. br[c] \in Before(c)
  BY <1>2, NetworkType, AfterIsBefore DEF SettleInv
<1>4. CASE w \in Potential(br[c], c)
  BY <1>1, <1>2, <1>3, <1>4, TruePotential, FedStays
<1>5. CASE w = Further(v)
  <2>1. g \in Ups /\ Truthful(Ups, Prio, v, Peer(g)[1]) /\ g = <<c, g[2]>> /\ g[2] \in Port(c)
        /\ Peer(g)[1] \in Bridge
    BY PeerOfEnd DEF Genuine
  <2>2. Beside(Ups, c, Peer(g)[1])
    BY <2>1 DEF Beside
  <2>3. Beside(Ups, Peer(g)[1], c)
    BY <1>1, <1>2, <2>2, BesideBoth
  <2>4. Truthful(Ups, Prio, w, c)
    BY <1>2, <1>5, <2>1, <2>3, TrueFurther
  <2>5. w \in Vec
    BY <1>5 DEF Further, Vec
  <2> QED BY <1>1, <2>4, <2>5, FedStays
<1> QED BY <1>4, <1>5

LEMMA FedTruthful ==
    ASSUME NEW U, NEW P, NEW x, NEW n, NEW e, Feeds(U, P, x, n, e)
    PROVE  Truthful(U, P, Fed(P, x, n, e), e[1])
BY FedVector DEF Truthful, Feeds, IsRoot, IsDist

\* It is taken, or its time begins again.
LEMMA FedComes ==
    ASSUME SettleInv, WithinLimits, NEW x, NEW n, NEW e, Feeds(Ups, Prio, x, n, e), NEW c, c = Peer(e)[1],
           NEW p, p = Peer(e)[2], Ticks(e[1]) >= Start(n) + 1, AnnounceReceive(c, p)
    PROVE  /\ Fresh(br'[c].port[p], Fed(Prio, x, n, e))
           /\ ReceivesPath(br[c], br'[c], c, p, Fed(Prio, x, n, e), Taken(c, p, announce[Peer(e)]))
<1> DEFINE m == announce[<<c, p>>]
           v == Fed(Prio, x, n, e)
           i == br[c].port[p]
<1>1. Links(Ups) /\ Prio \in [Bridge -> Nat]
  BY NetworkType DEF SettleInv
<1>2. /\ c \in Bridge /\ p \in Port(c) /\ e[1] \in Bridge /\ n \in Nat /\ v \in Vec /\ Peer(e) = <<c, p>>
      /\ Peer(e) \in End /\ Peer(Peer(e)) = e /\ Beside(Ups, e[1], c) /\ Peer(e) \in Ups
  BY <1>1, FeedFacts
<1>3. m # NULL
  BY <1>2, ReceiveStep DEF SettleInv
<1>4. Qualified(m, br[c], c, p) /\ Append(m.vec, p) = v
  BY <1>2, <1>3, FedArrives
<1> HIDE DEF v
<1>5. Receives(br[c], br'[c], c, p, v) /\ ReceivesPath(br[c], br'[c], c, p, v, Taken(c, p, m))
  <2>1. /\ Receives(br[c], br'[c], c, p, Append(m.vec, p))
        /\ ReceivesPath(br[c], br'[c], c, p, Append(m.vec, p), Taken(c, p, m))
    BY <1>2, <1>4, ReceiveStep DEF SettleInv
  <2> HIDE DEF m
  <2> QED BY <1>4, <2>1
<1> HIDE DEF m
<1>6. br[c] \in After(c) /\ AllTrue(Ups, Prio, br[c], c)
  BY <1>2, NetworkType, FeedTime, AllTrueAt DEF SettleInv
<1>7. Truthful(Ups, Prio, v, e[1])
  BY FedTruthful DEF v
<1>8. Genuine(Ups, Prio, v, Peer(e))
  BY <1>2, <1>7 DEF Genuine
<1>9. \A w \in Potential(br[c], c) \cup {Further(v)} : ~Displaces(w, v, c, p)
  BY <1>2, <1>6, <1>8, FedNotDisplaced DEF v
<1>10. Superior(v, i.vec) \/ (i.infoIs = "RECEIVED" /\ v = i.vec)
  <2>1. i \in PortRec /\ i.vec \in Vec /\ (i.infoIs = "RECEIVED" => FromPeer(i.vec, c, p))
        /\ Elected(br[c], c) /\ Known(br[c], c)
    BY <1>2, <1>6, RecordFacts DEF After, Before
  <2>2. i.capable
    BY FeedCapable DEF SettleInv
  <2>3. i.infoIs \in {"RECEIVED", "MINE"}
    BY <1>2, <2>1, <2>2 DEF Elected, Known, KnownPort, PortRec
  <2>4. CASE i.infoIs = "RECEIVED"
    <3>1. Genuine(Ups, Prio, i.vec, Peer(e))
      BY <1>2, <1>6, <2>4 DEF AllTrue
    <3> HIDE DEF i
    <3> QED BY <1>1, <1>2, <2>1, <2>4, <3>1, FedIsBest DEF v
  <2>5. CASE i.infoIs = "MINE"
    <3>1. i.vec = Master(br[c].gm, c, p)
      BY <1>2, <2>1, <2>5 DEF Elected
    <3>2. br[c].gm \in Potential(br[c], c) /\ br[c] \in Before(c)
      BY <1>2, <1>6, GmIsPotential, AfterIsBefore
    <3>3. br[c].gm \in Vec /\ Truthful(Ups, Prio, br[c].gm, c)
      BY <1>1, <1>2, <1>6, <3>2, TruePotential
    <3>4. Superior(v, Master(br[c].gm, c, p))
      BY <1>1, <1>2, <3>3, FedStays DEF v
    <3> QED BY <3>1, <3>4
  <2> QED BY <2>3, <2>4, <2>5
<1>11. Fresh(br'[c].port[p], v)
  BY <1>5, <1>9, <1>10 DEF Receives
<1> QED BY <1>2, <1>5, <1>11 DEF v, m

LEMMA ReceiveChange ==
    ASSUME BmcaInv, NEW b \in Bridge, NEW p \in Port(b), AnnounceReceive(b, p), br'[b] # br[b]
    PROVE  LET m == announce[<<b, p>>]
               v == Append(m.vec, p)
           IN  /\ m # NULL /\ m \in Msg /\ Qualified(m, br[b], b, p) /\ v \in Vec
               /\ v[1] = m.vec[1] /\ v[2] = m.vec[2] /\ v[3] = m.vec[3]
               /\ Receives(br[b], br'[b], b, p, v)
BY ReceiveStep

\* And stays when another port receives.
LEMMA FedKept ==
    ASSUME SettleInv, NEW x, NEW n, NEW e, Feeds(Ups, Prio, x, n, e), NEW c, c = Peer(e)[1],
           NEW p, p = Peer(e)[2], NEW o \in Port(c), o # p, Ticks(e[1]) >= Start(n) + 1,
           Holds(Prio, x, n, e, br[c]), AnnounceReceive(c, o)
    PROVE  br'[c].port[p].infoIs = "RECEIVED" /\ SameReceived(br[c].port[p], br'[c].port[p])
<1> DEFINE g == <<c, o>>
           m == announce[g]
           v == Append(m.vec, o)
           i == br[c].port[p]
           j == br'[c].port[p]
<1>1. Links(Ups) /\ Prio \in [Bridge -> Nat]
  BY NetworkType DEF SettleInv
<1>2. c \in Bridge /\ p \in Port(c) /\ n \in Nat
  BY <1>1, FeedFacts
<1>3. i.infoIs = "RECEIVED" /\ i.vec = Fed(Prio, x, n, e)
  BY DEF Holds
<1>4. CASE br'[c] = br[c]
  BY <1>3, <1>4 DEF SameReceived
<1>5. CASE br'[c] # br[c]
  <2>1. /\ m # NULL /\ m \in Msg /\ Qualified(m, br[c], c, o) /\ v \in Vec
        /\ v[1] = m.vec[1] /\ v[2] = m.vec[2] /\ v[3] = m.vec[3]
        /\ Receives(br[c], br'[c], c, o, v)
    BY <1>2, <1>5, ReceiveChange DEF SettleInv
  <2>2. g \in End /\ g[1] = c /\ g[2] = o
    BY <1>2, EndOfPort
  <2> HIDE DEF v
  <2>3. AllTrue(Ups, Prio, br[c], c) /\ quiet >= Age(MaxSteps)
    BY <1>2, FeedTime, AllTrueAt DEF SettleInv
  <2>4. Genuine(Ups, Prio, m.vec, g)
    <3> HIDE DEF g
    <3>1. br[g[1]].port[g[2]].capable /\ announce[g].vec[3] < MaxSteps
      BY <2>1, <2>2 DEF Qualified
    <3> QED BY <2>1, <2>2, <2>3, <3>1, MessageTrue
  <2>5. Genuine(Ups, Prio, v, g)
    BY <2>1, <2>4 DEF Genuine, Truthful
  <2> HIDE DEF g, m
  <2>6. \A w \in Potential(br[c], c) \cup {Further(v)} : ~Displaces(w, i.vec, c, p)
    BY <1>3, <2>1, <2>2, <2>3, <2>5, FedNotDisplaced
  <2> QED BY <1>2, <1>3, <2>1, <2>6 DEF Receives
<1> QED BY <1>4, <1>5

LEMMA ReceiveRest ==
    ASSUME BmcaInv, NEW b \in Bridge, NEW p \in Port(b), AnnounceReceive(b, p)
    PROVE  /\ quiet' = quiet /\ \A d : Ticks(d)' = Ticks(d) /\ Again(d)' = Again(d)
           /\ Ups' = Ups /\ Prio' = Prio /\ announce'[<<b, p>>] = NULL
           /\ \A g \in End : g # <<b, p>> => announce'[g] = announce[g]
           /\ \A d \in Bridge : br'[d] \in After(d) /\ (d # b => br'[d] = br[d])
           /\ \A d \in Bridge : \A o \in Port(d) : /\ br'[d].port[o].capable = br[d].port[o].capable
                                                   /\ br'[d].port[o].txReset = br[d].port[o].txReset
<1> DEFINE m == announce[<<b, p>>]
           v == Append(m.vec, p)
<1>1. /\ UNCHANGED <<quiet, ticked, calm>> /\ Ups' = Ups /\ Prio' = Prio
      /\ announce' = [announce EXCEPT ![<<b, p>>] = NULL]
      /\ \A c \in Bridge : br'[c] \in After(c) /\ (c # b => br'[c] = br[c])
      /\ br'[b] = br[b] \/ Receives(br[b], br'[b], b, p, v)
  BY ReceiveStep
<1> HIDE DEF v
<1>2. \A d : Ticks(d)' = Ticks(d) /\ Again(d)' = Again(d)
  BY <1>1 DEF Ticks, Again
<1>3. announce'[<<b, p>>] = NULL /\ \A g \in End : g # <<b, p>> => announce'[g] = announce[g]
  BY <1>1, EndOfPort DEF BmcaInv, Addressed
<1>4. \A d \in Bridge : \A o \in Port(d) : /\ br'[d].port[o].capable = br[d].port[o].capable
                                           /\ br'[d].port[o].txReset = br[d].port[o].txReset
  BY <1>1 DEF Receives
<1> QED BY <1>1, <1>2, <1>3, <1>4

LEMMA HeldReceive ==
    ASSUME SettleInv, WithinLimits, NEW b \in Bridge, NEW p \in Port(b), AnnounceReceive(b, p),
           NEW x, NEW n, NEW e, Feeds(Ups, Prio, x, n, e)
    PROVE  Held(x, n, e)' /\ Recent(x, n, e)'
<1> DEFINE f == Peer(e)
           c == f[1]
           q == f[2]
<1>1. Links(Ups) /\ Prio \in [Bridge -> Nat] /\ BmcaInv /\ CalmInv
  BY NetworkType DEF SettleInv
<1>2. c \in Bridge /\ q \in Port(c) /\ n \in Nat /\ f \in End /\ f = <<c, q>>
  BY <1>1, FeedFacts
<1>3. /\ Ticks(e[1])' = Ticks(e[1]) /\ Again(e[1])' = Again(e[1]) /\ Again(c)' = Again(c) /\ Prio' = Prio
      /\ announce'[<<b, p>>] = NULL /\ (f # <<b, p>> => announce'[f] = announce[f])
      /\ c # b => br'[c] = br[c]
  BY <1>1, <1>2, ReceiveRest
<1>4. Held(x, n, e) /\ Recent(x, n, e)
  BY FeedSpread DEF Spread
<1>5. Again(e[1]) \in Nat /\ Again(e[1]) <= 1 /\ Again(c) \in Nat
  BY <1>1, CountFacts
<1>6. CASE ~(Ticks(e[1]) >= Start(n) + 1)
  BY <1>3, <1>6 DEF Held, Recent
<1>7. CASE Ticks(e[1]) >= Start(n) + 1 /\ f = <<b, p>>
  <2>1. c = b /\ q = p
    BY <1>7
  <2>2. AnnounceReceive(c, q)
    BY <2>1
  <2>3. Fresh(br'[c].port[q], Fed(Prio, x, n, e))
    BY <1>7, <2>2, FedComes
  <2>4. Holds(Prio, x, n, e, br'[c]) /\ br'[c].port[q].rxTimer = 0
    BY <2>3 DEF Fresh, Holds
  <2>5. Held(x, n, e)'
    BY <1>3, <2>4 DEF Held
  <2>6. 0 + Again(e[1]) <= Again(c) + 1
    BY <1>5
  <2>7. Recent(x, n, e)'
    BY <1>3, <2>4, <2>6 DEF Recent
  <2> QED BY <2>5, <2>7
<1>8. CASE Ticks(e[1]) >= Start(n) + 1 /\ f # <<b, p>> /\ c # b
  BY <1>3, <1>4, <1>8 DEF Held, Recent
<1>9. CASE Ticks(e[1]) >= Start(n) + 1 /\ f # <<b, p>> /\ c = b
  <2>1. announce'[f] = announce[f]
    BY <1>3, <1>9
  <2>2. CASE Holds(Prio, x, n, e, br[c])
    <3>1. p \in Port(c) /\ p # q /\ AnnounceReceive(c, p)
      BY <1>2, <1>9
    <3>2. br'[c].port[q].infoIs = "RECEIVED" /\ SameReceived(br[c].port[q], br'[c].port[q])
      BY <1>9, <2>2, <3>1, FedKept
    <3>3. Holds(Prio, x, n, e, br'[c]) /\ br'[c].port[q].rxTimer = br[c].port[q].rxTimer
      BY <2>2, <3>2 DEF SameReceived, Holds
    <3>4. Held(x, n, e)'
      BY <1>3, <3>3 DEF Held
    <3>5. Recent(x, n, e)'
      BY <1>3, <1>4, <2>1, <3>3 DEF Recent
    <3> QED BY <3>4, <3>5
  <2>3. CASE ~Holds(Prio, x, n, e, br[c])
    <3>1. announce[f] # NULL /\ Ticks(e[1]) <= Start(n) + 1
      BY <1>4, <1>9, <2>3 DEF Held
    <3> QED BY <1>3, <2>1, <3>1 DEF Held, Recent
  <2> QED BY <2>2, <2>3
<1> QED BY <1>6, <1>7, <1>8, <1>9

LEMMA LateTime ==
    ASSUME CalmInv, NEW n \in Nat, NEW a, Ticks(a) >= Start(n) + 3
    PROVE  RightFrom(n + 1) /\ quiet >= Start(n) + 2 /\ Ticks(a) >= Start(n) + 1
<1>1. quiet \in Nat /\ Ticks(a) \in Nat /\ Ticks(a) <= quiet + 1
  BY CountFacts
<1>2. Start(n) \in Nat /\ Start(n + 1) = Start(n) + 5 /\ n + 1 # 0
  BY Ages
<1> QED BY <1>1, <1>2 DEF RightFrom

\* The slave port was the slave port before.
LEMMA WasSlave ==
    ASSUME SettleInv, NEW x, NEW n, NEW e, Feeds(Ups, Prio, x, n, e), NEW c, c = Peer(e)[1],
           IsDist(Ups, x, c, n + 1), RightFrom(n + 1), NEW s \in After(c),
           \A p \in Port(c) : s.port[p].capable = br[c].port[p].capable,
           \A d : Feeds(Ups, Prio, x, n, d) /\ Peer(d)[1] = c => Holds(Prio, x, n, d, s),
           s.port[Peer(e)[2]].role = "SLAVE"
    PROVE  br[c].port[Peer(e)[2]].role = "SLAVE" /\ br[c].gm[2] = x /\ Holds(Prio, x, n, e, br[c])
<1>1. Links(Ups) /\ Prio \in [Bridge -> Nat] /\ BmcaInv /\ CalmInv
  BY NetworkType DEF SettleInv
<1>2. c \in Bridge /\ n \in Nat /\ n + 1 \in Nat /\ IsRoot(Ups, Prio, x, c)
  BY <1>1, FeedFacts
<1>3. Right(Prio, x, n + 1, br[c]) /\ AllTrue(Ups, Prio, br[c], c) /\ br[c] \in After(c)
  BY <1>1, <1>2, RightAt, NetworkType
<1>4. Holds(Prio, x, n, e, br[c])
  BY <1>2, HeldAt
<1>5. \A p \in Port(c) : <<c, p>> \in Ups => br[c].port[p].capable /\ s.port[p].capable
  BY UpCapable
<1>6. br[c].port[Peer(e)[2]].role = "SLAVE"
  BY <1>1, <1>2, <1>3, <1>4, <1>5, SlaveStays
<1> QED BY <1>3, <1>4, <1>6 DEF Right

LEMMA NearFacts ==
    ASSUME NEW U, NEW x, NEW a, NEW c, NEW n \in Nat, IsDist(U, x, a, n), a \in Bridge
    PROVE  Near(U, x, a, n) \cup {c} \subseteq Near(U, x, c, n + 1) /\ {c} \subseteq Near(U, x, c, n + 1)
<1>1. ASSUME NEW y \in Near(U, x, a, n) PROVE y \in Near(U, x, c, n + 1)
  <2>1. CASE y = a
    <3>1. n \in 0 .. (n + 1) - 1
      OBVIOUS
    <3> QED BY <2>1, <3>1 DEF Near
  <2>2. CASE y \in Bridge /\ \E m \in 0 .. n - 1 : IsDist(U, x, y, m)
    <3>1. 0 .. n - 1 \subseteq 0 .. (n + 1) - 1
      OBVIOUS
    <3> QED BY <2>2, <3>1 DEF Near
  <2> QED BY <2>1, <2>2 DEF Near
<1> QED BY <1>1 DEF Near

LEMMA TakenPath ==
    ASSUME NEW b \in Bridge, NEW p \in Port(b), NEW m \in Msg, br[b] \in BridgeRec(b),
           br[b].port[p].role = "SLAVE", br[b].gm[2] = m.vec[2]
    PROVE  Taken(b, p, m) = m.path \cup {b} \/ Taken(b, p, m) = m.path
<1> DEFINE r == br[b]
           s == TakePath(m, r, b, p)
<1>1. r \in BridgeRec(b) /\ r.port[p].role = "SLAVE" /\ r.gm[2] = m.vec[2]
  OBVIOUS
<1>2. s.gmPath = IF r.port[p].role = "SLAVE" /\ r.gm[2] = m.vec[2]
                 THEN IF Cardinality(m.path) < MaxHops THEN m.path \cup {b} ELSE m.path
                 ELSE r.gmPath
  <2> HIDE DEF r
  <2> QED BY <1>1, TakePathEffect
<1> HIDE DEF r
<1>3. s.gmPath = IF Cardinality(m.path) < MaxHops THEN m.path \cup {b} ELSE m.path
  BY <1>1, <1>2
<1> HIDE DEF s
<1>4. s.gmPath = m.path \cup {b} \/ s.gmPath = m.path
  BY <1>3
<1> QED BY <1>4 DEF s, r, Taken

LEMMA ShortReceive ==
    ASSUME SettleInv, WithinLimits, NEW b \in Bridge, NEW p \in Port(b), AnnounceReceive(b, p),
           NEW x, NEW n, NEW e, Feeds(Ups, Prio, x, n, e)
    PROVE  ShortPath(x, n, e)'
<1> DEFINE f == Peer(e)
           c == f[1]
           q == f[2]
<1>1. Links(Ups) /\ Prio \in [Bridge -> Nat] /\ BmcaInv /\ CalmInv
  BY NetworkType DEF SettleInv
<1>2. /\ c \in Bridge /\ q \in Port(c) /\ n \in Nat /\ f \in End /\ f = <<c, q>> /\ e[1] \in Bridge
      /\ IsDist(Ups, x, e[1], n)
  <2>1. IsDist(Ups, x, e[1], n)
    BY DEF Feeds
  <2> QED BY <1>1, <2>1, FeedFacts
<1>3. /\ Ticks(e[1])' = Ticks(e[1]) /\ Ups' = Ups
      /\ (f # <<b, p>> => announce'[f] = announce[f])
      /\ c # b => br'[c] = br[c]
  BY <1>1, <1>2, ReceiveRest
<1>4. ShortPath(x, n, e)
  BY FeedSpread DEF Spread
<1>5. CASE c # b
  <2>1. f # <<b, p>>
    BY <1>5
  <2> QED BY <1>3, <1>4, <1>5, <2>1 DEF ShortPath
<1>6. ASSUME c = b, IsDist(Ups, x, c, n + 1), Ticks(e[1]) >= Start(n) + 3, br'[c].port[q].role = "SLAVE"
      PROVE  \/ br'[c].gmPath \subseteq Near(Ups, x, c, n + 1)
             \/ announce'[f] # NULL /\ Ticks(e[1]) <= Start(n) + 3
  <2>1. RightFrom(n + 1) /\ quiet >= Start(n) + 2 /\ Ticks(e[1]) >= Start(n) + 1
    BY <1>1, <1>2, <1>6, LateTime
  <2>2. br'[c] \in After(c) /\ \A o \in Port(c) : br'[c].port[o].capable = br[c].port[o].capable
    BY <1>1, <1>2, ReceiveRest
  <2>3. ASSUME NEW d, Feeds(Ups, Prio, x, n, d), Peer(d)[1] = c PROVE Holds(Prio, x, n, d, br'[c])
    <3>1. Held(x, n, d)'
      BY <2>3, HeldReceive
    <3>2. Ticks(d[1])' = Ticks(d[1]) /\ Prio' = Prio
      BY <1>1, ReceiveRest
    <3>3. quiet \in Nat /\ Ticks(d[1]) \in Nat /\ Ticks(d[1]) >= quiet /\ Start(n) \in Nat
      BY <1>1, <1>2, CountFacts, Ages
    <3>4. Ticks(d[1]) >= Start(n) + 1 /\ ~(Ticks(d[1]) <= Start(n) + 1)
      BY <2>1, <3>3
    <3> QED BY <2>3, <3>1, <3>2, <3>4 DEF Held
  <2>4. br[c].port[q].role = "SLAVE" /\ br[c].gm[2] = x /\ Holds(Prio, x, n, e, br[c])
    BY <1>6, <2>1, <2>2, <2>3, WasSlave
  <2>5. Near(Ups, x, e[1], n) \cup {c} \subseteq Near(Ups, x, c, n + 1) /\ {c} \subseteq Near(Ups, x, c, n + 1)
    BY <1>2, NearFacts
  <2>6. CASE f = <<b, p>>
    <3> DEFINE m == announce[f]
    <3>1. p = q /\ AnnounceReceive(c, q)
      BY <1>2, <2>6
    <3>2. ReceivesPath(br[c], br'[c], c, q, Fed(Prio, x, n, e), Taken(c, q, m))
      BY <2>1, <3>1, FedComes
    <3>3. br'[c].gmPath = Taken(c, q, m)
      BY <2>4, <3>2 DEF ReceivesPath, Holds
    <3>4. m # NULL /\ m \in Msg
      BY <1>1, <1>2, <2>6, ReceiveStep
    <3>5. m.vec[2] = x /\ m.path \subseteq Near(Ups, x, e[1], n)
      BY <2>1, <3>4, FeedSpread DEF Spread, Sent, RightMessage
    <3>6. br[c] \in BridgeRec(c)
      BY <1>1, <1>2, AfterIsBefore, NetworkType
    <3> HIDE DEF m, c, q
    <3>7. Taken(c, q, m) = m.path \cup {c} \/ Taken(c, q, m) = m.path
      <4>1. br[c].port[q].role = "SLAVE" /\ br[c].gm[2] = m.vec[2]
        BY <2>4, <3>5
      <4> QED BY <1>2, <3>4, <3>6, <4>1, TakenPath
    <3> QED BY <2>5, <3>3, <3>5, <3>7
  <2>7. CASE f # <<b, p>>
    <3>1. p \in Port(c) /\ p # q /\ br[c] \in After(c)
      BY <1>1, <1>2, <1>6, <2>7, NetworkType
    <3>2. br[c].port[p].role # "SLAVE"
      BY <1>2, <2>4, <3>1, SlaveGm
    <3>3. br'[c].gmPath = br[c].gmPath \/ br'[c].gmPath = {c}
      <4> DEFINE v == Append(announce[<<b, p>>].vec, p)
      <4>1. br'[b] = br[b] \/ ReceivesPath(br[b], br'[b], b, p, v, Taken(b, p, announce[<<b, p>>]))
        BY <1>1, ReceiveStep
      <4> HIDE DEF v
      <4> QED BY <1>6, <3>2, <4>1 DEF ReceivesPath
    <3>4. announce'[f] = announce[f]
      BY <1>3, <2>7
    <3>5. br[c].gmPath \subseteq Near(Ups, x, c, n + 1) \/ (announce[f] # NULL /\ Ticks(e[1]) <= Start(n) + 3)
      BY <1>4, <1>6, <2>4 DEF ShortPath
    <3> QED BY <2>5, <3>3, <3>4, <3>5
  <2> QED BY <2>6, <2>7
<1> QED BY <1>3, <1>5, <1>6 DEF ShortPath

LEMMA FeedReceive ==
    ASSUME SettleInv, WithinLimits, NEW b \in Bridge, NEW p \in Port(b), AnnounceReceive(b, p)
    PROVE  FeedInv'
<1>1. Links(Ups) /\ Prio \in [Bridge -> Nat] /\ BmcaInv
  BY NetworkType DEF SettleInv
<1>2. Ups' = Ups /\ Prio' = Prio
  BY <1>1, ReceiveRest
<1>3. ASSUME NEW e \in End, NEW x \in Bridge, NEW n \in Nat, Feeds(Ups, Prio, x, n, e)
      PROVE  Spread(x, n, e)'
  <2>1. Ready(x, n, e) /\ Sent(x, n, e)
    BY <1>3, FeedSpread DEF Spread
  <2>2. e[1] \in Bridge /\ e[2] \in Port(e[1]) /\ Peer(e) \in End
    BY PeerOfEnd
  <2>3. Ready(x, n, e)'
    BY <1>1, <2>1, <2>2, ReceiveRest DEF Ready
  <2>4. announce'[Peer(e)] = announce[Peer(e)] \/ announce'[Peer(e)] = NULL
    BY <1>1, <2>2, ReceiveRest
  <2>5. Sent(x, n, e)'
    BY <1>1, <2>1, <2>4, ReceiveRest DEF Sent
  <2> QED BY <1>3, <2>3, <2>5, HeldReceive, ShortReceive DEF Spread
<1> QED BY <1>2, <1>3 DEF FeedInv

-----------------------------------------------------------------------------
(* So does a tick.                                                          *)

Idle == calm /\ \A e \in End : announce[e] = NULL

\* What a port is fed outlives the bridge's tick.
LEMMA FedSurvives ==
    ASSUME SettleInv, WithinLimits, Idle, NEW x, NEW n, NEW e, Feeds(Ups, Prio, x, n, e), NEW c, c = Peer(e)[1],
           c \notin ticked, Ticks(e[1]) >= Start(n) + 1, NEW t, Later(br[c], t, c)
    PROVE  /\ Holds(Prio, x, n, e, br[c]) => Holds(Prio, x, n, e, t)
           /\ br[c].port[Peer(e)[2]].rxTimer + Again(e[1]) <= 1
<1> DEFINE p == Peer(e)[2]
           i == br[c].port[p]
<1>1. Links(Ups) /\ Prio \in [Bridge -> Nat] /\ BmcaInv /\ CalmInv
  BY NetworkType DEF SettleInv
<1>2. c \in Bridge /\ p \in Port(c) /\ n \in Nat /\ Peer(e) \in End
  BY <1>1, FeedFacts
<1>3. i.rxTimer \in Nat /\ br[c] \in Before(c)
  BY <1>1, <1>2, NetworkType, RecordFacts, AfterIsBefore
<1>4. i.rxTimer + Again(e[1]) <= Again(c) + 1 /\ Again(c) = 0 /\ Again(e[1]) \in Nat
  BY <1>1, <1>2, FeedSpread, CountFacts DEF Spread, Recent, Idle, Again
<1>5. i.rxTimer + Again(e[1]) <= 1 /\ i.rxTimer < TIMEOUT
  <2> HIDE DEF i
  <2> QED BY <1>3, <1>4, NumberAssumption DEF WithinLimits
<1>6. AllTrue(Ups, Prio, br[c], c)
  BY <1>1, <1>2, FeedTime, AllTrueAt
<1>7. ASSUME Holds(Prio, x, n, e, br[c]) PROVE Holds(Prio, x, n, e, t)
  <2>1. i.capable
    BY <1>1, FeedCapable
  <2>2. Firm(br[c], c, p)
    BY <1>1, <1>3, <1>6, <1>7, <2>1, FedIsFirm
  <2>3. LaterPort(br[c], t, c, p)
    BY <1>2 DEF Later
  <2> QED BY <1>5, <1>7, <2>2, <2>3 DEF LaterPort, Holds
<1> QED BY <1>5, <1>7

\* During its tick a bridge's GM is right if it was right before.
LEMMA TickRight ==
    ASSUME SettleInv, WithinLimits, Idle, NEW b \in Bridge, b \notin ticked, NEW x, NEW n \in Nat,
           IsRoot(Ups, Prio, x, b), IsDist(Ups, x, b, n), RightFrom(n), NEW t \in After(b), Later(br[b], t, b)
    PROVE  Right(Prio, x, n, t)
<1>1. Links(Ups) /\ Prio \in [Bridge -> Nat] /\ BmcaInv /\ CalmInv
  BY NetworkType DEF SettleInv
<1>2. AllTrue(Ups, Prio, br[b], b)
  BY RightAt
<1>3. AllTrue(Ups, Prio, t, b)
  BY <1>2, LaterTrue
<1>4. CASE n = 0
  BY <1>1, <1>3, <1>4, GmRight
<1>5. CASE n # 0
  <2>1. n - 1 \in Nat /\ (n - 1) + 1 = n
    BY <1>5
  <2>2. PICK e : Feeds(Ups, Prio, x, n - 1, e) /\ Peer(e)[1] = b
    BY <1>1, <2>1, FedByParent
  <2>3. Holds(Prio, x, n - 1, e, br[b])
    BY <2>1, <2>2, HeldAt
  <2>4. Ticks(e[1]) >= Start(n - 1) + 1
    <3>1. quiet \in Nat /\ Ticks(e[1]) \in Nat /\ Ticks(e[1]) >= quiet
      BY <1>1, CountFacts
    <3>2. Start(n) = Start(n - 1) + 5 /\ Start(n - 1) \in Nat
      BY <2>1, Ages
    <3> QED BY <1>5, <3>1, <3>2 DEF RightFrom
  <2>5. Holds(Prio, x, n - 1, e, t)
    BY <2>2, <2>3, <2>4, FedSurvives
  <2>6. Peer(e)[2] \in Port(b) /\ br[b].port[Peer(e)[2]].capable
    BY <1>1, <2>2, FeedFacts, FeedCapable
  <2>7. t.port[Peer(e)[2]].capable
    BY <2>6 DEF Later, LaterPort
  <2> QED BY <1>1, <1>3, <2>2, <2>5, <2>7, GmRight
<1> QED BY <1>4, <1>5

LEMMA TickTime ==
    ASSUME CalmInv, NEW b \in Bridge, NextTick(b), NEW n \in Nat, NEW i \in Nat, Ticks(b)' >= Start(n) + i
    PROVE  /\ RightFrom(n) /\ quiet \in Nat /\ Start(n) \in Nat /\ quiet + 1 >= Start(n) + i
           /\ Ticks(b) = quiet /\ Ticks(b)' \in Nat /\ Ticks(b)' <= quiet + 1
<1>1. quiet \in Nat /\ Ticks(b) = quiet /\ Ticks(b)' \in Nat /\ Ticks(b)' <= quiet + 1 /\ Start(n) \in Nat
  BY CountFacts, Ages DEF NextTick
<1>2. quiet + 1 >= Start(n) + i
  BY <1>1
<1>3. quiet + 1 >= Start(n) /\ quiet + 3 >= Start(n)
  BY <1>1, <1>2
<1> QED BY <1>1, <1>2, <1>3 DEF RightFrom

\* The bridge that ticks feeds others.
LEMMA TickNear ==
    ASSUME SettleInv, WithinLimits, calm, NEW b \in Bridge, Tick(b),
           NEW x, NEW n, NEW e, Feeds(Ups, Prio, x, n, e), e[1] = b
    PROVE  Spread(x, n, e)'
<1> DEFINE q == e[2]
           f == Peer(e)
           c == f[1]
<1>1. Links(Ups) /\ Prio \in [Bridge -> Nat] /\ BmcaInv /\ CalmInv
  BY NetworkType DEF SettleInv
<1>2. PICK s \in Ticked(b) :
         /\ br'[b] = s.r /\ Later(br[b], s.r, b) /\ \A p \in Port(b) : HasChecked(br[b], s, b, p)
         /\ \A g \in End : announce'[g] = IF Peer(g)[1] = b THEN s.out[Peer(g)[2]] ELSE NULL
  BY <1>1, TickStep
<1>3. /\ NextTick(b) /\ Ups' = Ups /\ Prio' = Prio /\ Idle /\ b \notin ticked
      /\ \A d \in Bridge : d # b => br'[d] = br[d]
  BY <1>1, TickStep DEF Idle, NextTick
<1>4. /\ f \in End /\ Peer(f) = e /\ c \in Bridge /\ c # b /\ q \in Port(b) /\ n \in Nat
  BY <1>1, FeedFacts
<1>5. IsRoot(Ups, Prio, x, b) /\ IsDist(Ups, x, b, n)
  BY DEF Feeds
<1>6. br'[c] = br[c] /\ announce'[f] = s.out[q] /\ announce[f] = NULL
  BY <1>2, <1>3, <1>4 DEF Idle
<1>7. Spread(x, n, e)
  BY FeedSpread
<1>8. ASSUME Ticks(b)' >= Start(n)
      PROVE  br[b].port[q].infoIs = "MINE" /\ br[b].port[q].capable /\ ~br'[b].port[q].txReset
  <2>1. Ticks(b)' >= Start(n) + 0
    BY <1>4, <1>8, Ages
  <2>2. RightFrom(n)
    BY <1>1, <1>3, <1>4, <2>1, TickTime
  <2>3. Right(Prio, x, n, br[b]) /\ AllTrue(Ups, Prio, br[b], b) /\ br[b] \in After(b)
    BY <1>1, <1>4, <1>5, <2>2, RightAt, NetworkType
  <2>4. br[b].port[q].capable
    BY <1>1, FeedCapable
  <2>5. br[b].port[q].infoIs = "MINE"
    BY <1>1, <2>3, <2>4, NearIsMaster
  <2> QED BY <1>2, <1>4, <2>4, <2>5 DEF HasChecked
<1>9. Ready(x, n, e)'
  BY <1>8 DEF Ready
<1>10. ASSUME Ticks(b)' >= Start(n) + 1
       PROVE  announce'[f] # NULL /\ RightMessage(Prio, Ups, x, n, e, announce'[f])
  <2>1. /\ RightFrom(n) /\ quiet \in Nat /\ Start(n) \in Nat /\ quiet + 1 >= Start(n) + 1
        /\ Ticks(b) = quiet /\ Ticks(b)' \in Nat
    BY <1>1, <1>3, <1>4, <1>10, TickTime
  <2>2. Ticks(b)' >= Start(n) /\ quiet >= Start(n)
    BY <1>10, <2>1
  <2>3. ~br[b].port[q].txReset
    BY <1>7, <2>1, <2>2 DEF Spread, Ready
  <2>4. announce'[f] # NULL
    BY <1>2, <1>4, <1>6, <1>8, <2>2, <2>3 DEF HasChecked
  <2>5. \E t \in After(b) : Later(br[b], t, b) /\ s.out[q] = Announce(t, b, q)
    BY <1>2, <1>4, <1>6, <2>4 DEF HasChecked
  <2>6. PICK t \in After(b) : Later(br[b], t, b) /\ s.out[q] = Announce(t, b, q)
    BY <2>5
  <2>7. Right(Prio, x, n, t)
    BY <1>3, <1>4, <1>5, <2>1, <2>6, TickRight
  <2>8. br[b].gmPath \subseteq Near(Ups, x, b, n)
    BY <1>3, <1>4, <1>5, <2>2, PathAt DEF Idle
  <2>9. t.gmPath \subseteq Near(Ups, x, b, n)
    BY <2>6, <2>8 DEF Later, Near
  <2>10. announce'[f] = [vec |-> <<t.gm[1], t.gm[2], t.gm[3], b, q>>, path |-> t.gmPath]
    BY <1>6, <2>6 DEF Announce
  <2> QED BY <2>4, <2>7, <2>9, <2>10 DEF RightMessage, Right
<1>11. Sent(x, n, e)' /\ Recent(x, n, e)'
  BY <1>3, <1>10 DEF Sent, Recent
<1>12. Held(x, n, e)'
  <2>1. CASE Ticks(b)' <= Start(n) + 1
    BY <1>10, <2>1 DEF Held
  <2>2. CASE Ticks(b)' >= Start(n) + 2
    <3>1. quiet \in Nat /\ Start(n) \in Nat /\ quiet + 1 >= Start(n) + 2 /\ Ticks(b) = quiet
      BY <1>1, <1>3, <1>4, <2>2, TickTime
    <3>2. Ticks(b) >= Start(n) + 1
      BY <3>1
    <3>3. Holds(Prio, x, n, e, br[c])
      BY <1>6, <1>7, <3>2 DEF Spread, Held
    <3> QED BY <1>3, <1>6, <3>3 DEF Held
  <2>3. Ticks(b)' \in Nat /\ Start(n) \in Nat
    BY <1>3, <1>4, Ages DEF NextTick
  <2> QED BY <2>1, <2>2, <2>3
<1>13. ShortPath(x, n, e)'
  <2>1. CASE Ticks(b)' <= Start(n) + 3
    <3>1. Ticks(b)' \in Nat /\ Start(n) \in Nat
      BY <1>3, <1>4, Ages DEF NextTick
    <3>2. Ticks(b)' >= Start(n) + 3 => Ticks(b)' >= Start(n) + 1
      BY <3>1
    <3> QED BY <1>10, <2>1, <3>2 DEF ShortPath
  <2>2. CASE Ticks(b)' >= Start(n) + 4
    <3>1. quiet \in Nat /\ Start(n) \in Nat /\ quiet + 1 >= Start(n) + 4 /\ Ticks(b) = quiet
      BY <1>1, <1>3, <1>4, <2>2, TickTime
    <3>2. Ticks(b) >= Start(n) + 3
      BY <3>1
    <3>3. IsDist(Ups, x, c, n + 1) /\ br[c].port[f[2]].role = "SLAVE" => br[c].gmPath \subseteq Near(Ups, x, c, n + 1)
      BY <1>6, <1>7, <3>2 DEF Spread, ShortPath
    <3> QED BY <1>3, <1>6, <3>3 DEF ShortPath
  <2>3. Ticks(b)' \in Nat /\ Start(n) \in Nat
    BY <1>3, <1>4, Ages DEF NextTick
  <2> QED BY <2>1, <2>2, <2>3
<1> QED BY <1>9, <1>11, <1>12, <1>13 DEF Spread

\* It is fed by others.
LEMMA TickFar ==
    ASSUME SettleInv, WithinLimits, calm, NEW b \in Bridge, Tick(b),
           NEW x, NEW n, NEW e, Feeds(Ups, Prio, x, n, e), Peer(e)[1] = b
    PROVE  Spread(x, n, e)'
<1> DEFINE a == e[1]
           f == Peer(e)
           p == f[2]
<1>1. Links(Ups) /\ Prio \in [Bridge -> Nat] /\ BmcaInv /\ CalmInv
  BY NetworkType DEF SettleInv
<1>2. PICK s \in Ticked(b) :
         /\ br'[b] = s.r /\ Later(br[b], s.r, b) /\ \A o \in Port(b) : HasChecked(br[b], s, b, o)
         /\ \A g \in End : announce'[g] = IF Peer(g)[1] = b THEN s.out[Peer(g)[2]] ELSE NULL
  BY <1>1, TickStep
<1>3. /\ NextTick(b) /\ Ups' = Ups /\ Prio' = Prio /\ Idle /\ b \notin ticked
      /\ \A d \in Bridge : d # b => br'[d] = br[d]
  BY <1>1, TickStep DEF Idle, NextTick
<1>4. /\ f \in End /\ Peer(f) = e /\ a \in Bridge /\ a # b /\ p \in Port(b) /\ n \in Nat
  BY <1>1, FeedFacts
<1>5. br'[a] = br[a] /\ announce'[f] = NULL /\ announce[f] = NULL
  BY <1>2, <1>3, <1>4 DEF Idle
<1>6. Spread(x, n, e)
  BY FeedSpread
<1>7. Ticks(a)' \in Nat /\ Ticks(a)' <= Ticks(a) /\ Ticks(a) \in Nat /\ Start(n) \in Nat
  BY <1>1, <1>3, <1>4, CountFacts, Ages DEF NextTick
<1>8. Ready(x, n, e)' /\ Sent(x, n, e)'
  <2>1. Ticks(a)' >= Start(n) => Ticks(a) >= Start(n)
    BY <1>7
  <2> QED BY <1>5, <1>6, <2>1 DEF Ready, Sent, Spread
<1>9. ASSUME Ticks(a)' >= Start(n) + 1
      PROVE  Holds(Prio, x, n, e, s.r) /\ br[b].port[p].rxTimer + Again(a) <= 1
  <2>1. Ticks(a) >= Start(n) + 1
    BY <1>7, <1>9
  <2>2. Holds(Prio, x, n, e, br[b])
    BY <1>5, <1>6, <2>1 DEF Held, Spread
  <2> QED BY <1>2, <1>3, <2>1, <2>2, FedSurvives
<1>10. Held(x, n, e)'
  BY <1>2, <1>3, <1>9 DEF Held
<1>11. Recent(x, n, e)'
  <2>1. ASSUME Ticks(a)' >= Start(n) + 1 PROVE br'[b].port[p].rxTimer + Again(a)' <= Again(b)' + 1
    <3> DEFINE i == br[b].port[p]
               j == br'[b].port[p]
    <3>1. j.infoIs = "RECEIVED"
      BY <1>2, <1>9, <2>1 DEF Holds
    <3>2. j.rxTimer = i.rxTimer + 1
      BY <1>2, <1>4, <3>1 DEF HasChecked
    <3>3. i.rxTimer + Again(a) <= 1
      BY <1>9, <2>1
    <3>4. i.rxTimer \in Nat /\ Again(a) \in Nat
      BY <1>1, <1>4, NetworkType, RecordFacts, CountFacts
    <3>5. \/ Again(b)' = 1 /\ Again(a)' = Again(a)
          \/ Again(b)' = 0 /\ Again(a) = 1 /\ Again(a)' = 0
      BY <1>3, <1>4 DEF NextTick
    <3> HIDE DEF i, j
    <3>6. j.rxTimer + Again(a)' <= Again(b)' + 1
      BY <3>2, <3>3, <3>4, <3>5
    <3> QED BY <3>6 DEF j
  <2> QED BY <2>1 DEF Recent
<1>12. ASSUME IsDist(Ups, x, b, n + 1), Ticks(a)' >= Start(n) + 3, s.r.port[p].role = "SLAVE"
       PROVE  s.r.gmPath \subseteq Near(Ups, x, b, n + 1)
  <2>1. Ticks(a) >= Start(n) + 3
    BY <1>7, <1>12
  <2>2. RightFrom(n + 1) /\ quiet >= Start(n) + 2
    BY <1>1, <1>4, <2>1, LateTime
  <2>3. ASSUME NEW d, Feeds(Ups, Prio, x, n, d), Peer(d)[1] = b PROVE Holds(Prio, x, n, d, s.r)
    <3>1. Holds(Prio, x, n, d, br[b])
      BY <1>4, <2>2, <2>3, HeldAt
    <3>2. quiet \in Nat /\ Ticks(d[1]) \in Nat /\ Ticks(d[1]) >= quiet
      BY <1>1, CountFacts
    <3>3. Ticks(d[1]) >= Start(n) + 1
      BY <1>7, <2>2, <3>2
    <3> QED BY <1>2, <1>3, <2>3, <3>1, <3>3, FedSurvives
  <2>4. s.r \in After(b) /\ \A o \in Port(b) : s.r.port[o].capable = br[b].port[o].capable
    BY <1>2 DEF Ticked, Later, LaterPort
  <2>5. br[b].port[p].role = "SLAVE"
    BY <1>12, <2>2, <2>3, <2>4, WasSlave
  <2>6. br[b].gmPath \subseteq Near(Ups, x, b, n + 1)
    BY <1>5, <1>6, <1>12, <2>1, <2>5 DEF Spread, ShortPath
  <2> QED BY <1>2, <2>6 DEF Later, Near
<1>13. ShortPath(x, n, e)'
  BY <1>2, <1>3, <1>12 DEF ShortPath
<1> QED BY <1>8, <1>10, <1>11, <1>13 DEF Spread

LEMMA TickOther ==
    ASSUME SettleInv, calm, NEW b \in Bridge, Tick(b),
           NEW x, NEW n, NEW e, Feeds(Ups, Prio, x, n, e), e[1] # b, Peer(e)[1] # b
    PROVE  Spread(x, n, e)'
<1> DEFINE a == e[1]
           f == Peer(e)
           c == f[1]
           p == f[2]
<1>1. Links(Ups) /\ Prio \in [Bridge -> Nat] /\ BmcaInv /\ CalmInv
  BY NetworkType DEF SettleInv
<1>2. /\ NextTick(b) /\ Ups' = Ups /\ Prio' = Prio /\ Idle
      /\ \A d \in Bridge : d # b => br'[d] = br[d]
      /\ \A g \in End : Peer(g)[1] # b => announce'[g] = NULL
  BY <1>1, TickStep DEF Idle
<1>3. /\ f \in End /\ Peer(f) = e /\ a \in Bridge /\ c \in Bridge /\ p \in Port(c) /\ n \in Nat
  BY <1>1, FeedFacts
<1>4. br'[a] = br[a] /\ br'[c] = br[c] /\ announce'[f] = NULL /\ announce[f] = NULL
  BY <1>2, <1>3 DEF Idle
<1>5. Spread(x, n, e)
  BY FeedSpread
<1>6. Ticks(a)' \in Nat /\ Ticks(a)' <= Ticks(a) /\ Ticks(a) \in Nat /\ Start(n) \in Nat
  BY <1>1, <1>2, <1>3, CountFacts, Ages DEF NextTick
<1>9. Ready(x, n, e)' /\ Sent(x, n, e)'
  <2>1. Ticks(a)' >= Start(n) => Ticks(a) >= Start(n)
    BY <1>6
  <2> QED BY <1>4, <1>5, <2>1 DEF Ready, Sent, Spread
<1>10. Held(x, n, e)'
  <2>1. Ticks(a)' >= Start(n) + 1 => Ticks(a) >= Start(n) + 1
    BY <1>6
  <2> QED BY <1>2, <1>4, <1>5, <2>1 DEF Held, Spread
<1>11. ShortPath(x, n, e)'
  <2>1. Ticks(a)' >= Start(n) + 3 => Ticks(a) >= Start(n) + 3
    BY <1>6
  <2> QED BY <1>2, <1>4, <1>5, <2>1 DEF ShortPath, Spread
<1>12. Recent(x, n, e)'
  <2> DEFINE i == br[c].port[p]
  <2>1. ASSUME Ticks(a)' >= Start(n) + 1 PROVE br'[c].port[p].rxTimer + Again(a)' <= Again(c)' + 1
    <3>1. Ticks(a) >= Start(n) + 1
      BY <1>6, <2>1
    <3>2. i.rxTimer + Again(a) <= Again(c) + 1
      BY <1>4, <1>5, <3>1 DEF Recent, Spread
    <3>3. i.rxTimer \in Nat /\ Again(a) \in Nat /\ Again(c) \in Nat
      BY <1>1, <1>3, NetworkType, RecordFacts, CountFacts
    <3>4. \/ Again(a)' = Again(a) /\ Again(c)' = Again(c)
          \/ Again(a) = 1 /\ Again(a)' = 0 /\ Again(c) = 1 /\ Again(c)' = 0
      BY <1>2, <1>3 DEF NextTick
    <3> HIDE DEF i
    <3>5. i.rxTimer + Again(a)' <= Again(c)' + 1
      BY <3>2, <3>3, <3>4
    <3> QED BY <1>4, <3>5 DEF i
  <2> QED BY <2>1 DEF Recent
<1> QED BY <1>9, <1>10, <1>11, <1>12 DEF Spread

LEMMA FeedTick ==
    ASSUME SettleInv, WithinLimits, calm, NEW b \in Bridge, Tick(b)
    PROVE  FeedInv'
<1>1. Ups' = Ups /\ Prio' = Prio
  BY TickStep DEF SettleInv
<1>2. ASSUME NEW e \in End, NEW x \in Bridge, NEW n \in Nat, Feeds(Ups, Prio, x, n, e)
      PROVE  Spread(x, n, e)'
  BY <1>2, TickNear, TickFar, TickOther
<1> QED BY <1>1, <1>2 DEF FeedInv

-----------------------------------------------------------------------------
(* The invariant, and what it says when the bridges have settled.            *)

LEMMA EarlyTicks ==
    ASSUME NEW n \in Nat, NEW t, t = 0 \/ t = 1
    PROVE  ~(t >= Start(n)) /\ ~(t >= Start(n) + 1) /\ ~(t >= Start(n) + 3)
BY Ages

LEMMA SettleInit == Init => SettleInv
<1> SUFFICES ASSUME Init PROVE SettleInv
  OBVIOUS
<1>1. BmcaInv
  BY BmcaInit
<1>2. quiet = 0 /\ ticked = {} /\ calm = FALSE /\ announce = [e \in End |-> NULL]
  BY DEF Init
<1>3. CalmInv
  <2>1. quiet \in Nat /\ ~(quiet > 0)
    BY <1>2
  <2>2. calm \in BOOLEAN
    BY <1>2
  <2> QED BY <2>1, <2>2 DEF CalmInv
<1>4. \A b : Ticks(b) = 0
  BY <1>2 DEF Ticks, Again
<1>5. AgeInv
  <2>1. ASSUME NEW b \in Bridge, NEW p \in Port(b) PROVE AgedPort(b, p)
    <3>1. br[b].port[p].vec[3] \in Nat /\ br[b].port[p].rxTimer \in Nat
      BY <1>1, NetworkType, RecordFacts
    <3>2. Age(br[b].port[p].vec[3]) \in Nat
      BY <3>1, Ages
    <3>3. Ticks(b) <= Age(br[b].port[p].vec[3]) + br[b].port[p].rxTimer + 1
      BY <1>4, <3>1, <3>2
    <3> QED BY <3>3 DEF AgedPort
  <2> QED BY <1>2, <2>1 DEF AgeInv, AgedMessage
<1>6. FeedInv
  <2>1. ASSUME NEW e \in End, NEW x \in Bridge, NEW n \in Nat PROVE Spread(x, n, e)
    <3>1. /\ ~(Ticks(e[1]) >= Start(n)) /\ ~(Ticks(e[1]) >= Start(n) + 1) /\ ~(Ticks(e[1]) >= Start(n) + 3)
      BY <1>4, EarlyTicks
    <3> QED BY <3>1 DEF Spread, Ready, Sent, Held, Recent, ShortPath
  <2> QED BY <2>1 DEF FeedInv
<1> QED BY <1>1, <1>3, <1>5, <1>6 DEF SettleInv

LEMMA SettleNext == ASSUME SettleInv, WithinLimits, [Next]_vars PROVE SettleInv'
<1>1. BmcaInv /\ CalmInv /\ AgeInv
  BY DEF SettleInv
<1>2. BmcaInv' /\ CalmInv'
  BY <1>1, BmcaNext, CalmNext
<1>3. AgeInv'
  BY <1>1, <1>2, AgeNext
<1>4. CASE quiet' = 0
  <2>1. ASSUME NEW e \in End, NEW x \in Bridge, NEW n \in Nat PROVE Spread(x, n, e)'
    <3>1. Ticks(e[1])' = 0 \/ Ticks(e[1])' = 1
      BY <1>4 DEF Ticks, Again
    <3>2. /\ ~(Ticks(e[1])' >= Start(n)) /\ ~(Ticks(e[1])' >= Start(n) + 1) /\ ~(Ticks(e[1])' >= Start(n) + 3)
      BY <3>1, EarlyTicks
    <3> QED BY <3>2 DEF Spread, Ready, Sent, Held, Recent, ShortPath
  <2> QED BY <1>1, <1>2, <1>3, <2>1 DEF SettleInv, FeedInv
<1>5. ASSUME NEW b \in Bridge, NEW p \in Port(b), AnnounceReceive(b, p) PROVE SettleInv'
  BY <1>2, <1>3, <1>5, FeedReceive DEF SettleInv
<1>6. ASSUME calm, NEW b \in Bridge, Tick(b) PROVE SettleInv'
  BY <1>2, <1>3, <1>6, FeedTick DEF SettleInv
<1>7. CASE UNCHANGED vars
  <2>1. FeedInv'
    BY <1>7, SameAll DEF SettleInv, FeedInv, Spread, Ready, Sent, Held, Recent, ShortPath
  <2> QED BY <1>2, <1>3, <2>1 DEF SettleInv
<1> QED BY <1>1, <1>4, <1>5, <1>6, <1>7, CalmNext

LEMMA SettledAt ==
    ASSUME SettleInv, WithinLimits, quiet >= Start(Cardinality(Bridge)), NEW x, NEW n, NEW e,
           Feeds(Ups, Prio, x, n, e)
    PROVE  Settled(e, Peer(e))
<1> DEFINE f == Peer(e)
           a == e[1]
           c == f[1]
           near == br[a]
           far == br[c]
<1>1. Links(Ups) /\ Prio \in [Bridge -> Nat] /\ BmcaInv /\ CalmInv
  BY NetworkType DEF SettleInv
<1>2. /\ a \in Bridge /\ e[2] \in Port(a) /\ c \in Bridge /\ f[2] \in Port(c) /\ n \in Nat
      /\ IsRoot(Ups, Prio, x, c)
  BY <1>1, FeedFacts
<1>3. IsRoot(Ups, Prio, x, a) /\ IsDist(Ups, x, a, n) /\ \E k \in Nat : IsDist(Ups, x, c, k)
  BY DEF Feeds
<1>4. PICK k \in Nat : IsDist(Ups, x, c, k)
  BY <1>3
<1>5. ASSUME NEW d \in Bridge, NEW l \in Nat, IsDist(Ups, x, d, l) PROVE RightFrom(l) /\ quiet >= Start(l) + 2
  <2>1. l + 1 <= Cardinality(Bridge) /\ Cardinality(Bridge) \in Nat
    BY <1>5, DistBound
  <2>2. quiet \in Nat /\ Age(MaxSteps) \in Nat
    BY <1>1, CountFacts, Ages
  <2>3. Start(l) + 5 <= Start(Cardinality(Bridge)) /\ Start(l) \in Nat /\ Start(Cardinality(Bridge)) \in Nat
    BY <2>1, <2>2 DEF Start
  <2>4. quiet >= Start(l) + 2 /\ quiet + 1 >= Start(l) /\ quiet + 3 >= Start(l)
    BY <2>2, <2>3
  <2> QED BY <2>4 DEF RightFrom
<1>6. Right(Prio, x, n, near) /\ AllTrue(Ups, Prio, near, a) /\ near \in After(a)
  BY <1>1, <1>2, <1>3, <1>5, RightAt, NetworkType
<1>7. Right(Prio, x, k, far) /\ far \in After(c)
  BY <1>1, <1>2, <1>4, <1>5, RightAt, NetworkType
<1>8. near.port[e[2]].role = "MASTER"
  BY <1>1, <1>6, FeedCapable, NearIsMaster
<1>9. Holds(Prio, x, n, e, far)
  <2>1. quiet \in Nat /\ Ticks(a) \in Nat /\ Ticks(a) >= quiet /\ Start(n) \in Nat /\ quiet >= Start(n) + 2
    BY <1>1, <1>2, <1>3, <1>5, CountFacts, Ages
  <2>2. Ticks(a) >= Start(n) + 1 /\ ~(Ticks(a) <= Start(n) + 1)
    BY <2>1
  <2> QED BY <2>2, FeedSpread DEF Spread, Held
<1>10. far.port[f[2]].role \in {"SLAVE", "PASSIVE"}
  BY <1>2, <1>7, <1>9 DEF After, Elected, Holds
<1>11. ASSUME far.port[f[2]].role = "SLAVE" PROVE far.gm[3] = near.gm[3] + 1
  <2>1. far.gm = Further(far.port[f[2]].vec) /\ far.port[f[2]].vec = Fed(Prio, x, n, e)
    BY <1>2, <1>7, <1>9, <1>11, SlaveGm DEF Holds
  <2>2. Fed(Prio, x, n, e) \in Vec /\ Fed(Prio, x, n, e)[3] = n
    BY <1>1, FeedFacts, FedVector
  <2>3. far.gm[3] = n + 1
    BY <2>1, <2>2 DEF Further, Vec
  <2> QED BY <1>6, <2>3 DEF Right
<1> HIDE DEF near, far
<1>12. near.gm[1] = far.gm[1] /\ near.gm[2] = far.gm[2]
  BY <1>6, <1>7 DEF Right
<1> QED BY <1>8, <1>10, <1>11, <1>12 DEF Settled, near, far

LEMMA Agreement ==
    ASSUME SettleInv, WithinLimits, quiet >= Start(Cardinality(Bridge)), \A e \in End : Peer(e)[1] # e[1]
    PROVE  Agreed
<1>1. Links(Ups) /\ Prio \in [Bridge -> Nat] /\ BmcaInv
  BY NetworkType DEF SettleInv
<1>2. ASSUME NEW e \in End, Up(e) PROVE Settled(e, Peer(e)) \/ Settled(Peer(e), e)
  <2> DEFINE f == Peer(e)
             a == e[1]
             c == f[1]
  <2>1. /\ f \in End /\ Peer(f) = e /\ e = <<a, e[2]>> /\ a \in Bridge /\ e[2] \in Port(a)
        /\ c \in Bridge /\ a # c /\ a \in Nat /\ c \in Nat
    BY PeerOfEnd, BridgeFacts
  <2>2. e \in Ups /\ f \in Ups
    BY <1>1, <1>2 DEF Ups, Links
  <2>3. Beside(Ups, a, c)
    BY <2>1, <2>2 DEF Beside
  <2>4. PICK x \in Bridge : IsRoot(Ups, Prio, x, a)
    BY <1>1, <2>1, RootExists
  <2>5. IsRoot(Ups, Prio, x, c)
    BY <1>1, <2>1, <2>3, <2>4, RootShared
  <2>6. PICK n \in Nat : IsDist(Ups, x, a, n)
    BY <2>4, RootReached
  <2>7. PICK k \in Nat : IsDist(Ups, x, c, k)
    BY <2>5, RootReached
  <2>8. Ahead(n, a, k, c) \/ Ahead(k, c, n, a)
    BY <2>1 DEF Ahead
  <2>9. CASE Ahead(n, a, k, c)
    <3>1. Feeds(Ups, Prio, x, n, e)
      BY <2>2, <2>4, <2>6, <2>7, <2>9 DEF Feeds
    <3> QED BY <3>1, SettledAt
  <2>10. CASE Ahead(k, c, n, a)
    <3>1. Feeds(Ups, Prio, x, k, f)
      BY <2>1, <2>2, <2>5, <2>6, <2>7, <2>10 DEF Feeds
    <3>2. Settled(f, Peer(f))
      BY <3>1, SettledAt
    <3> QED BY <2>1, <3>2
  <2> QED BY <2>8, <2>9, <2>10
<1>3. ASSUME NEW b \in Bridge, br[b].gm[2] = b PROVE br[b].gm[1] = br[b].priority
  <2>1. br[b] \in After(b) /\ Elected(br[b], b)
    BY <1>1, NetworkType DEF After
  <2>2. CASE br[b].gm = Own(br[b], b)
    BY <2>2 DEF Own
  <2>3. ASSUME NEW p \in Port(b), br[b].port[p].infoIs = "RECEIVED", br[b].gm = Further(br[b].port[p].vec)
        PROVE  FALSE
    <3>1. br[b].port[p].vec \in Vec /\ br[b].port[p].vec[2] # b
      BY <2>1, <2>3, RecordFacts DEF FromPeer
    <3>2. br[b].gm[2] = br[b].port[p].vec[2]
      BY <2>3, <3>1 DEF Further, Vec
    <3> QED BY <1>3, <3>1, <3>2
  <2> QED BY <2>1, <2>2, <2>3 DEF Elected
<1> QED BY <1>2, <1>3 DEF Agreed

\* When nothing has changed and nothing was lost for that long, the two ends of every
\* link that is up have settled: one of them is the master, both bridges have the same
\* GM, and the slave port is one step further from it.  The time is what untrue
\* information needs to reach DOT1AS_MAX_STEPS_REMOVED, TIMEOUT + 2 intervals a step, and
\* five intervals for each bridge that the truth has to pass.  A port waits for at least
\* two Announces (DOT1AS_INTF_ANN_TIMEOUT_MIN), the network has no more bridges than
\* that number of steps, and no link leads from a bridge to itself.
THEOREM BmcaConverges ==
    ASSUME TIMEOUT >= 2, Cardinality(Bridge) <= MaxSteps, \A e \in End : Peer(e)[1] # e[1],
           SETTLE >= MaxSteps * (TIMEOUT + 2) + 5 * Cardinality(Bridge)
    PROVE  Spec => []Converges
<1>1. Init => SettleInv
  BY SettleInit
<1>2. SettleInv /\ [Next]_vars => SettleInv'
  BY SettleNext DEF WithinLimits
<1>3. SettleInv => Converges
  <2> SUFFICES ASSUME SettleInv, quiet > SETTLE PROVE Agreed
    BY DEF Converges
  <2>1. quiet \in Nat /\ SETTLE \in Nat /\ Age(MaxSteps) \in Nat /\ Cardinality(Bridge) \in Nat
    BY CountFacts, Ages, NumberAssumption, BridgeAssumption, FS_CardinalityType DEF SettleInv
  <2>2. SETTLE >= Age(MaxSteps) + 5 * Cardinality(Bridge)
    BY DEF Age
  <2>3. quiet >= Start(Cardinality(Bridge))
    BY <2>1, <2>2 DEF Start
  <2> QED BY <2>3, Agreement DEF WithinLimits
<1> QED BY <1>1, <1>2, <1>3, PTL DEF Spec
===============================================================================
