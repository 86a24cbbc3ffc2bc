--------------------------------- MODULE Pdelay ---------------------------------
(***************************************************************************)
(* 802.1AS peer delay of one port (dot1as_pdelay.c, without AVnu mode).  The *)
(* 802.1AS thread sends a request every interval; a responder answers with a *)
(* response and a follow-up, which may be lost or come after the exchange     *)
(* has timed out.  An exchange yields four timestamps, two of them from the   *)
(* messages; out of those of two exchanges the port decides whether it is     *)
(* asCapable, and tells the best master clock algorithm (BMCA).               *)
(*                                                                         *)
(* A timestamp is abstracted to the message it belongs to, a delay to how it  *)
(* compares with the threshold.  `calm' is the environment's promise that     *)
(* nothing changes any more and answers come within an interval.             *)
(***************************************************************************)
EXTENDS Naturals, Sequences, FiniteSets

CONSTANTS
    Responder,   \* the ports that may answer a request
    Self,        \* the one that is of this bridge (a loop)
    Delay,       \* the delay of the link to each responder
    ALLOWED,     \* allowedLostReponses
    INTERVAL,    \* meanPdelayReqInterval in ticks
    SEQ,         \* the modulus of sequence ids
    MaxAge,      \* bound: no message is older than so many exchanges
    MaxNet,      \* bound: messages on the way from one responder
    MaxEvents,   \* bound: interface events that wait
    NULL

Class == {"short", "limit", "long"}  \* less than, equal to, more than the threshold
START == 0                           \* DOT1AS_PDELAY_REQ_PDU_START_SEQUANCE_ID

ASSUME NumberAssumption ==
    /\ {ALLOWED, MaxAge, MaxNet, MaxEvents} \subseteq Nat
    /\ INTERVAL \in Nat \ {0} /\ SEQ \in Nat /\ SEQ > MaxAge + 1
ASSUME DelayAssumption == Delay \in [Responder -> Class] /\ NULL \notin Responder

\* A message of a responder; age 0 is the exchange in progress.
Message == [type : {"resp", "fup"}, seq : 0 .. SEQ - 1, age : 0 .. MaxAge]

VARIABLES
    linkUp,      \* the port is PDELAY capable: link, admin mode
    intfEvents,  \* interface events that the 802.1AS thread has not handled
    peers,       \* the responders that answer when it is calm
    net,         \* the messages on the way from each, in order
    calm,        \* nothing changes any more
    port,        \* DOT1AS_INTF_STATE_t
    reused,      \* history: an older exchange's message has the current sequence id
    ignored      \* history: since the port is asCapable, or by making it so, a delay
                 \* was tossed out or of a loop

vars == <<linkUp, intfEvents, peers, net, calm, port, reused, ignored>>
environment == <<linkUp, intfEvents, peers, calm>>

Waiting == {"WAIT_FOR_RESP", "WAIT_FOR_RESP_FOLLOWUP"}

\* t2: T2 is of this exchange; t4: whose response of this exchange T4 belongs to.
\* prevT: whose timestamps prevT1 to prevT4 are.  bmca: what BMCA was told.
Port == [state : Waiting \cup {"DISABLED", "REQ_SEND"},
         seqId : 0 .. SEQ - 1, timerReset : BOOLEAN, timer : 0 .. INTERVAL - 1,
         numLost : 0 .. ALLOWED + 1, measuring : BOOLEAN, capable : BOOLEAN,
         filterInit : BOOLEAN, propDelay : Class,
         prevT : Responder \cup {"zero", "mixed"},
         partnerId : Responder \cup {NULL}, t2 : BOOLEAN,
         t4 : Responder \cup {NULL}, bmca : BOOLEAN]

Init ==
    /\ linkUp = FALSE /\ intfEvents = 0 /\ peers = {} /\ calm = FALSE
    /\ net = [r \in Responder |-> <<>>]
    /\ port = [state |-> "DISABLED", seqId |-> START, timerReset |-> FALSE, timer |-> 0,
               numLost |-> 0, measuring |-> FALSE, capable |-> FALSE,
               filterInit |-> TRUE, propDelay |-> "short", prevT |-> "zero",
               partnerId |-> NULL, t2 |-> FALSE, t4 |-> NULL, bmca |-> FALSE]
    /\ reused = FALSE /\ ignored = FALSE

-----------------------------------------------------------------------------
(* What the handlers do to the port.                                        *)

\* dot1asIntfPdelayFilterInit: the delay itself is not cleared.
FilterInit(p) == [p EXCEPT !.filterInit = TRUE, !.prevT = "zero"]

\* dot1asInvokeBmca(DOT1AS_BMC_INTF_EVENT): BMCA runs on capable ports.
InvokeBmca(p) == [p EXCEPT !.bmca = p.capable]

\* Partner, T2 and T4 mean nothing between two exchanges (the next request clears the
\* timestamps, the next response sets the partner): the model forgets them.
EndExchange(p) ==
    [p EXCEPT !.state = "REQ_SEND", !.partnerId = NULL, !.t2 = FALSE, !.t4 = NULL]

\* dot1asIntfPdelayInit: the sequence starts again.
PdelayInit(p) ==
    FilterInit([EndExchange(p) EXCEPT !.measuring = FALSE, !.capable = FALSE,
                                      !.seqId = START, !.timerReset = TRUE, !.numLost = 0])

\* dot1asIntfPdelayDisable: BMCA is not told, and the delay is 0.
PdelayDisable(p) ==
    [EndExchange(p) EXCEPT !.state = "DISABLED", !.measuring = FALSE, !.capable = FALSE,
                           !.propDelay = "short"]

\* Mutation: BMCA is not told.
LostExceeded_NotTold(p) ==
    FilterInit([p EXCEPT !.measuring = FALSE, !.capable = FALSE])

LostExceeded(p) ==
    LET q == FilterInit([p EXCEPT !.measuring = FALSE])
    IN  IF p.capable THEN InvokeBmca([q EXCEPT !.capable = FALSE]) ELSE q

\* Mutation: a response too many is allowed.
CountLost_OneMore(p) ==
    LET q == [p EXCEPT !.numLost = @ + 1]
    IN  IF p.numLost > ALLOWED THEN p
        ELSE IF q.numLost > ALLOWED + 1 THEN LostExceeded(q) ELSE q

CountLost(p) ==
    LET q == [p EXCEPT !.numLost = @ + 1]
    IN  IF p.numLost > ALLOWED THEN p
        ELSE IF q.numLost > ALLOWED THEN LostExceeded(q) ELSE q

\* dot1asIntfPdelayReInit: the exchange is over and counts as lost.
ReInit(p) == EndExchange(CountLost(p))

\* dot1asPdelayComputePropTime with the result d: a negative delay is tossed out, a
\* long one starts the filter anew.
PropTime(p, d) ==
    CASE d = "negative" -> p
      [] d = "long"     -> FilterInit([p EXCEPT !.propDelay = d])
      [] OTHER          -> [p EXCEPT !.propDelay = d, !.filterInit = FALSE]

\* The port is asCapable by the delay, unless the responder is this bridge.
SetCapable(p, r) ==
    IF r = Self \/ p.capable = (p.propDelay = "short") THEN p
    ELSE InvokeBmca([p EXCEPT !.capable = ~@])

-----------------------------------------------------------------------------
(* The environment, until it is calm.                                       *)

\* The link goes down or up, or the configuration is changed: the port's state is
\* seen at once, the event waits in the thread's queue.
IntfChange(up) ==
    /\ ~calm /\ intfEvents < MaxEvents
    /\ linkUp' = up /\ intfEvents' = intfEvents + 1
    /\ UNCHANGED <<peers, net, calm, port, reused, ignored>>

Lose(r) ==
    /\ ~calm /\ net[r] # <<>>
    /\ net' = [net EXCEPT ![r] = Tail(@)]
    /\ UNCHANGED <<environment, port, reused, ignored>>

\* From now on the link stays, the responders ps answer every request in time, and
\* no message of an earlier exchange is on the way.
CalmDown(ps) ==
    /\ ~calm /\ calm' = TRUE /\ peers' = ps
    /\ \A r \in Responder : net[r] = <<>>
    /\ UNCHANGED <<linkUp, intfEvents, net, port, reused, ignored>>

-----------------------------------------------------------------------------
(* The 802.1AS thread.                                                      *)

\* The history variables, for as long as they matter.
Remember(again, odd) ==
    /\ reused' = (again /\ port'.state \in Waiting)
    /\ ignored' = (odd /\ port'.capable)

\* dot1asIntfUpdate for a waiting event; what it finds is the port's state now.
IntfUpdate ==
    /\ intfEvents > 0
    /\ intfEvents' = intfEvents - 1
    /\ port' = InvokeBmca(IF linkUp THEN PdelayInit(port) ELSE PdelayDisable(port))
    /\ Remember(reused, ignored)
    /\ UNCHANGED <<linkUp, peers, net, calm>>

\* A signalling message changes the interval: the timer starts again.
IntervalChange ==
    /\ ~calm
    /\ port' = [port EXCEPT !.timerReset = TRUE]
    /\ Remember(reused, ignored)
    /\ UNCHANGED <<environment, net>>

\* dot1asCheckBmcaTimers, which runs first, sees that the port is not capable.
BmcaTick(p) == IF p.capable THEN p ELSE InvokeBmca(p)

\* The port as the initiator's state machine finds it.
Started == LET p == BmcaTick(port) IN IF p.state = "DISABLED" THEN PdelayInit(p) ELSE p

\* The first request is sent at once, the others when the interval has passed.
Elapsed(p) == IF p.timerReset THEN p.seqId = START ELSE p.timer + 1 >= INTERVAL

TickDisabled ==
    /\ ~linkUp
    /\ port' = LET p == BmcaTick(port)
               IN  IF p.state = "DISABLED" THEN p ELSE PdelayDisable(p)
    /\ Remember(reused, ignored)
    /\ UNCHANGED <<environment, net>>

\* Mutation: the timer's reset is not taken back.
TickRunning_KeepReset ==
    /\ linkUp /\ ~Elapsed(Started)
    /\ port' = [Started EXCEPT !.timer = IF Started.timerReset THEN 0 ELSE @ + 1]
    /\ Remember(reused, ignored)
    /\ UNCHANGED <<environment, net>>

TickRunning ==
    /\ linkUp /\ ~Elapsed(Started)
    /\ port' = [Started EXCEPT !.timerReset = FALSE,
                               !.timer = IF Started.timerReset THEN 0 ELSE @ + 1]
    /\ Remember(reused, ignored)
    /\ UNCHANGED <<environment, net>>

\* The messages on the way when the next request, with sequence id seq, is sent and
\* answered by some responders.
Answers(seq) == <<[type |-> "resp", seq |-> seq, age |-> 0],
                  [type |-> "fup",  seq |-> seq, age |-> 0]>>

\* One exchange later.  Messages arrive in the order of their exchanges: the ones that
\* have become too old are the first.
Aged(s) == LET n == Cardinality({i \in DOMAIN s : s[i].age = MaxAge})
           IN  [i \in 1 .. Len(s) - n |-> [s[i + n] EXCEPT !.age = @ + 1]]

\* Mutation: an exchange that has not ended goes on.
TimedOut_GoesOn(p) == [p EXCEPT !.timerReset = FALSE, !.timer = 0]

\* The exchange in progress is given up.
TimedOut(p) ==
    LET q == [p EXCEPT !.timerReset = FALSE, !.timer = 0]
    IN  IF q.state \in Waiting THEN ReInit(q) ELSE q

\* dot1asPdelayReqSend; it may fail before or after the request is sent.
TickSend(sent, answering) ==
    /\ linkUp /\ Elapsed(Started)
    /\ calm => sent /\ answering = peers /\ \A r \in Responder : net[r] = <<>>
    /\ LET seq == (Started.seqId + 1) % SEQ
           p == [TimedOut(Started) EXCEPT !.seqId = seq, !.state = "WAIT_FOR_RESP"]
           old == [r \in Responder |-> Aged(net[r])]
       IN  /\ port' = IF sent THEN p ELSE ReInit(p)
           /\ net' = [r \in Responder |->
                          IF r \in answering THEN old[r] \o Answers(seq) ELSE old[r]]
           /\ \A r \in Responder : Len(net'[r]) <= MaxNet
           /\ Remember(\E r \in Responder : \E i \in DOMAIN old[r] : old[r][i].seq = seq,
                       ignored)
    /\ UNCHANGED environment

\* Mutation: the sequence id is not compared.
Response_AnySeq(p, r, mine, seq, fresh) ==
    CASE p.state = "WAIT_FOR_RESP" /\ mine ->
             [p EXCEPT !.partnerId = r, !.t2 = fresh, !.state = "WAIT_FOR_RESP_FOLLOWUP"]
      [] p.state = "WAIT_FOR_RESP" /\ ~mine -> ReInit(p)
      [] p.state = "WAIT_FOR_RESP_FOLLOWUP" -> ReInit(p)
      [] OTHER -> p

\* A response of r with sequence id seq is accepted if it is awaited and the answer to
\* this port's (mine) last request; another one, or a second one, ends the exchange.
Response(p, r, mine, seq, fresh) ==
    CASE p.state = "WAIT_FOR_RESP" /\ seq = p.seqId /\ mine ->
             [p EXCEPT !.partnerId = r, !.t2 = fresh, !.state = "WAIT_FOR_RESP_FOLLOWUP"]
      [] p.state = "WAIT_FOR_RESP" /\ ~(seq = p.seqId /\ mine) -> ReInit(p)
      [] p.state = "WAIT_FOR_RESP_FOLLOWUP" /\ seq = p.seqId -> ReInit(p)
      [] OTHER -> p

\* T4 is the receipt of any response, whatever it is.
TakeT4(r) == IF port.state \in Waiting THEN [port EXCEPT !.t4 = r] ELSE port

\* dot1asPdelayRespReceive.
RespReceive(r) ==
    /\ net[r] # <<>> /\ Head(net[r]).type = "resp"
    /\ net' = [net EXCEPT ![r] = Tail(@)]
    /\ LET m == Head(net[r])
           fresh == m.age = 0
       IN  port' = Response(TakeT4(IF fresh THEN r ELSE NULL), r, TRUE, m.seq, fresh)
    /\ Remember(reused, ignored)
    /\ UNCHANGED environment

\* The same for the answer to another port's request, heard on a shared medium.
Overhear(seq) ==
    /\ ~calm /\ linkUp
    /\ port' = Response(TakeT4(NULL), NULL, FALSE, seq, FALSE)
    /\ Remember(reused, ignored)
    /\ UNCHANGED <<environment, net>>

\* The four timestamps belong to one exchange with responder r.
Whole(m, r) == m.age = 0 /\ port.t2 /\ port.t4 = r

\* What may come out: anything while clocks and filter settle or timestamps are mixed.
Outcome(m, r) == IF calm /\ Whole(m, r) /\ port.prevT = r THEN {Delay[r]}
                 ELSE Class \cup {"negative"}

\* The follow-up is to this port's request and from who sent the response.
Expected(m, r) ==
    /\ port.state = "WAIT_FOR_RESP_FOLLOWUP" /\ m.seq = port.seqId
    /\ port.partnerId = r

\* dot1asPdelayRespFollowupReceive: the exchange is complete.  The first timestamps
\* are only kept; so are those that went back behind the previous ones.
FollowupReceive(r) ==
    /\ net[r] # <<>> /\ Head(net[r]).type = "fup"
    /\ net' = [net EXCEPT ![r] = Tail(@)]
    /\ LET m == Head(net[r])
           kept == [EndExchange(port) EXCEPT !.prevT = IF Whole(m, r) THEN r ELSE "mixed"]
           good == [kept EXCEPT !.numLost = 0, !.measuring = TRUE]
       IN  \/ ~Expected(m, r) /\ port' = port /\ Remember(reused, ignored)
           \/ /\ Expected(m, r)
              /\ port.prevT = "zero" \/ Outcome(m, r) # {Delay[r]}
              /\ port' = kept /\ Remember(reused, ignored)
           \/ /\ Expected(m, r) /\ port.prevT # "zero"
              /\ \E d \in Outcome(m, r) :
                    /\ port' = SetCapable(PropTime(good, d), r)
                    /\ Remember(reused, ignored \/ d = "negative" \/ r = Self)
    /\ UNCHANGED environment

Tick == \/ TickDisabled \/ TickRunning
        \/ \E sent \in BOOLEAN, answering \in SUBSET Responder : TickSend(sent, answering)

Next ==
    \/ \E up \in BOOLEAN : IntfChange(up)
    \/ \E ps \in SUBSET Responder : CalmDown(ps)
    \/ \E r \in Responder : Lose(r) \/ RespReceive(r) \/ FollowupReceive(r)
    \/ \E seq \in 0 .. SEQ - 1 : Overhear(seq)
    \/ IntfUpdate \/ IntervalChange \/ Tick

\* The thread runs, its timer ticks and it handles what it is sent.
Spec ==
    /\ Init /\ [][Next]_vars
    /\ WF_vars(Tick) /\ WF_vars(IntfUpdate)
    /\ \A r \in Responder : WF_vars(RespReceive(r)) /\ WF_vars(FollowupReceive(r))

-----------------------------------------------------------------------------
(* Properties.                                                              *)

TypeOK ==
    /\ {linkUp, calm, reused, ignored} \subseteq BOOLEAN
    /\ intfEvents \in 0 .. MaxEvents /\ peers \subseteq Responder
    /\ \A r \in Responder : net[r] \in Seq(Message) /\ Len(net[r]) <= MaxNet
    /\ port \in Port

\* No port is asCapable that does not measure, or has lost more responses in a row
\* than is allowed; and unless a delay was tossed out or was of a loop, it is so by a
\* delay that was measured and is below the threshold.
CapableJustified ==
    port.capable =>
        /\ port.measuring /\ port.numLost <= ALLOWED /\ port.state # "DISABLED"
        /\ ignored \/ (~port.filterInit /\ port.propDelay = "short")

\* BMCA runs on the port exactly when it is asCapable; only a port that was disabled
\* by its link is told of at the next tick.
BmcaFollows == port.bmca # port.capable => port.state = "DISABLED"

\* When a follow-up is awaited, T2 is of the exchange in progress, unless an older
\* exchange used its sequence id.
ExchangeTimes ==
    port.state = "WAIT_FOR_RESP_FOLLOWUP" /\ ~reused => port.t2

\* "Toss out invalid PDELAY values": the port is not asCapable by one.  The code does
\* not keep this: the delay of a port that was disabled is 0.
TossedOut == port.capable => ~port.filterInit

\* When the environment is calm: a port whose link is up to one responder nearby
\* becomes asCapable and stays so; one without link or responder does not stay so.
PeerFound ==
    [](calm /\ linkUp /\ (\E r \in Responder \ {Self} : peers = {r} /\ Delay[r] = "short")
        => <>[]port.capable)
PeerGone == [](calm /\ (~linkUp \/ peers = {}) => <>[](~port.capable /\ ~port.bmca))
===============================================================================
