------------------------------ MODULE PdelayProofs ------------------------------
(***************************************************************************)
(* That a port is asCapable for a reason, that BMCA knows of it, and that    *)
(* an exchange has its own times, for any responders, delays, bounds and     *)
(* sequence ids.  The first two together are inductive: each handler is      *)
(* shown to keep them for any port it is given, so that handlers that call    *)
(* each other need no second proof.  The third is about the messages on the  *)
(* way: those with the sequence id of the exchange in progress belong to it. *)
(***************************************************************************)
EXTENDS Pdelay, FiniteSetTheorems, SequenceTheorems, TLAPS

\* CapableJustified and BmcaFollows of a port p, for a history ig.
Sound(p, ig) ==
    /\ p \in Port
    /\ p.capable => /\ p.measuring /\ p.numLost <= ALLOWED /\ p.state # "DISABLED"
                    /\ ig \/ (~p.filterInit /\ p.propDelay = "short")
    /\ p.bmca # p.capable => p.state = "DISABLED"

PortInv == ignored \in BOOLEAN /\ Sound(port, ignored)

LEMMA Constants == ALLOWED \in Nat /\ INTERVAL \in Nat /\ INTERVAL > 0 /\ SEQ \in Nat /\ SEQ > 0
                   /\ START \in 0 .. SEQ - 1 /\ Delay \in [Responder -> Class]
BY NumberAssumption, DelayAssumption DEF START

LEMMA EndExchangeSound ==
  ASSUME NEW ig \in BOOLEAN, NEW p, Sound(p, ig), p.state # "DISABLED" \/ p.bmca = p.capable
  PROVE  Sound(EndExchange(p), ig) /\ EndExchange(p).state = "REQ_SEND"
         /\ EndExchange(p).bmca = EndExchange(p).capable
BY DEF Sound, EndExchange, Port

LEMMA InitAnyPort ==
  ASSUME NEW p \in Port
  PROVE  /\ PdelayInit(p) \in Port /\ PdelayInit(p).state = "REQ_SEND"
         /\ PdelayInit(p).capable = FALSE /\ PdelayInit(p).bmca = p.bmca
<1> DEFINE e == EndExchange(p)
           a == [e EXCEPT !.measuring = FALSE, !.capable = FALSE]
           b == [a EXCEPT !.seqId = START, !.timerReset = TRUE]
           c == [b EXCEPT !.numLost = 0]
<1>1. e \in Port /\ e.state = "REQ_SEND" /\ e.bmca = p.bmca
  BY DEF EndExchange, Port
<1> HIDE DEF e
<1>2. a \in Port /\ a.state = "REQ_SEND" /\ a.bmca = p.bmca /\ a.capable = FALSE
  BY <1>1 DEF Port
<1> HIDE DEF a
<1>3. b \in Port /\ b.state = "REQ_SEND" /\ b.bmca = p.bmca /\ b.capable = FALSE
  BY <1>2, Constants DEF Port
<1> HIDE DEF b
<1>4. c \in Port /\ c.state = "REQ_SEND" /\ c.bmca = p.bmca /\ c.capable = FALSE
  BY <1>3, Constants DEF Port
<1> HIDE DEF c
<1>5. FilterInit(c) \in Port /\ FilterInit(c).state = "REQ_SEND"
      /\ FilterInit(c).bmca = p.bmca /\ FilterInit(c).capable = FALSE
  BY <1>4 DEF FilterInit, Port
<1>6. PdelayInit(p) = FilterInit(c)
  BY DEF PdelayInit, a, b, c, e
<1> QED BY <1>5, <1>6

LEMMA PdelayInitSound ==
  ASSUME NEW ig \in BOOLEAN, NEW p, Sound(p, ig), p.bmca = FALSE
  PROVE  Sound(PdelayInit(p), ig) /\ PdelayInit(p).state = "REQ_SEND"
BY InitAnyPort DEF Sound

LEMMA PdelayDisableSound ==
  ASSUME NEW ig \in BOOLEAN, NEW p, Sound(p, ig)
  PROVE  Sound(PdelayDisable(p), ig) /\ PdelayDisable(p).capable = FALSE
BY DEF Sound, PdelayDisable, EndExchange, Port, Class

LEMMA CountLostSound ==
  ASSUME NEW ig \in BOOLEAN, NEW p, Sound(p, ig), p.state # "DISABLED"
  PROVE  Sound(CountLost(p), ig) /\ CountLost(p).state = p.state
<1>1. CASE p.numLost > ALLOWED
  BY <1>1 DEF CountLost
<1>2. CASE p.numLost <= ALLOWED /\ p.numLost + 1 <= ALLOWED
  BY <1>2, Constants DEF CountLost, Sound, Port
<1>3. CASE p.numLost <= ALLOWED /\ p.numLost + 1 > ALLOWED
  <2> DEFINE c == [p EXCEPT !.numLost = @ + 1]
             q == FilterInit([c EXCEPT !.measuring = FALSE])
             l == [q EXCEPT !.capable = FALSE]
  <2>1. /\ c \in Port /\ c.state = p.state /\ c.capable = p.capable /\ c.bmca = p.bmca
        /\ c.numLost > ALLOWED
    BY <1>3, Constants DEF Sound, Port
  <2>a. ~(p.numLost > ALLOWED)
    BY <1>3, Constants DEF Sound, Port
  <2>2. CountLost(p) = LostExceeded(c)
    BY <2>a, <2>1, Zenon DEF CountLost
  <2> HIDE DEF c
  <2>3. q \in Port /\ q.state = p.state /\ q.capable = p.capable /\ q.bmca = p.bmca
    BY <2>1 DEF FilterInit, Port
  <2>4. LostExceeded(c) = IF c.capable THEN InvokeBmca(l) ELSE q
    BY DEF LostExceeded
  <2> HIDE DEF q
  <2>5. l \in Port /\ l.state = p.state /\ l.capable = FALSE
    BY <2>3 DEF Port
  <2> HIDE DEF l
  <2>6. InvokeBmca(l) \in Port /\ InvokeBmca(l).state = p.state
        /\ InvokeBmca(l).capable = FALSE /\ InvokeBmca(l).bmca = FALSE
    BY <2>5 DEF InvokeBmca, Port
  <2> QED BY <2>1, <2>2, <2>3, <2>4, <2>6, Constants DEF Sound, Port
<1> QED BY <1>1, <1>2, <1>3, Constants DEF Sound, Port

LEMMA ReInitSound ==
  ASSUME NEW ig \in BOOLEAN, NEW p, Sound(p, ig), p.state # "DISABLED"
  PROVE  Sound(ReInit(p), ig) /\ ReInit(p).state = "REQ_SEND"
BY CountLostSound, EndExchangeSound DEF ReInit

LEMMA ResetSound ==
  ASSUME NEW ig \in BOOLEAN, NEW p, Sound(p, ig)
  PROVE  LET a == [p EXCEPT !.timerReset = FALSE] IN Sound(a, ig) /\ a.state = p.state
<1> DEFINE a == [p EXCEPT !.timerReset = FALSE]
<1>1. p \in Port
  BY DEF Sound
<1>2. /\ a \in Port /\ a.state = p.state /\ a.bmca = p.bmca /\ a.capable = p.capable
      /\ a.measuring = p.measuring /\ a.numLost = p.numLost
      /\ a.filterInit = p.filterInit /\ a.propDelay = p.propDelay
  BY <1>1 DEF Port
<1> HIDE DEF a
<1>3. Sound(a, ig) /\ a.state = p.state
  BY <1>2 DEF Sound
<1> QED BY <1>3 DEF a

LEMMA PropTimeParts ==
  ASSUME NEW p \in Port, NEW d \in Class \cup {"negative"}
  PROVE  LET q == PropTime(p, d)
         IN  /\ q \in Port /\ q.bmca = p.bmca /\ q.capable = p.capable /\ q.state = p.state
             /\ q.measuring = p.measuring /\ q.numLost = p.numLost
             /\ d # "negative" => q.propDelay = d /\ (d # "long" => ~q.filterInit)
<1>1. CASE d = "negative"
  BY <1>1 DEF PropTime
<1>2. CASE d # "negative"
  <2> DEFINE q == [p EXCEPT !.propDelay = d]
  <2>1. /\ q \in Port /\ q.bmca = p.bmca /\ q.capable = p.capable /\ q.state = p.state
        /\ q.measuring = p.measuring /\ q.numLost = p.numLost /\ q.propDelay = d
    BY <1>2 DEF Port, Class
  <2>2. CASE d = "long"
    <3>1. PropTime(p, d) = FilterInit(q)
      BY <1>2, <2>2 DEF PropTime
    <3> DEFINE a == [q EXCEPT !.filterInit = TRUE]
               f == FilterInit(q)
    <3>2. f = [a EXCEPT !.prevT = "zero"]
      BY DEF FilterInit
    <3> HIDE DEF q, f
    <3>3. /\ a \in Port /\ a.bmca = p.bmca /\ a.capable = p.capable /\ a.state = p.state
          /\ a.measuring = p.measuring /\ a.numLost = p.numLost /\ a.propDelay = d
      BY <2>1 DEF Port
    <3> HIDE DEF a
    <3>4. /\ f \in Port /\ f.bmca = p.bmca /\ f.capable = p.capable /\ f.state = p.state
          /\ f.measuring = p.measuring /\ f.numLost = p.numLost /\ f.propDelay = d
      BY <3>2, <3>3 DEF Port
    <3> QED BY <2>2, <3>1, <3>4 DEF f
  <2>3. CASE d # "long"
    <3>1. PropTime(p, d) = [q EXCEPT !.filterInit = FALSE]
      BY <1>2, <2>3 DEF PropTime
    <3> HIDE DEF q
    <3> QED BY <2>1, <3>1 DEF Port
  <2> QED BY <2>2, <2>3
<1> QED BY <1>1, <1>2

LEMMA SetCapableSound ==
  ASSUME NEW p \in Port, NEW r, NEW odd \in BOOLEAN,
         p.bmca = p.capable, p.state # "DISABLED", p.measuring, p.numLost = 0,
         odd \/ (r # Self /\ (p.propDelay = "short" => ~p.filterInit))
  PROVE  Sound(SetCapable(p, r), odd)
<1> DEFINE c == [p EXCEPT !.capable = ~@]
           i == InvokeBmca(c)
<1>1. /\ c \in Port /\ c.state = p.state /\ c.measuring = p.measuring
      /\ c.numLost = p.numLost /\ c.capable = ~p.capable
      /\ c.filterInit = p.filterInit /\ c.propDelay = p.propDelay
  BY DEF Port
<1>2. SetCapable(p, r) = IF r = Self \/ p.capable = (p.propDelay = "short") THEN p ELSE i
  BY DEF SetCapable
<1> HIDE DEF c
<1>3. /\ i \in Port /\ i.state = p.state /\ i.measuring = p.measuring
      /\ i.numLost = p.numLost /\ i.capable = ~p.capable /\ i.bmca = i.capable
      /\ i.filterInit = p.filterInit /\ i.propDelay = p.propDelay
  BY <1>1 DEF InvokeBmca, Port
<1> HIDE DEF i
<1>4. {p.capable, p.bmca, p.filterInit, i.capable, i.filterInit} \subseteq BOOLEAN
  BY <1>3 DEF Port
<1>7. p.numLost <= ALLOWED
  BY Constants
<1>5. CASE r = Self \/ p.capable = (p.propDelay = "short")
  <2>1. p.capable => odd \/ (~p.filterInit /\ p.propDelay = "short")
    BY <1>4, <1>5
  <2> QED BY <1>2, <1>5, <1>7, <2>1, Zenon DEF Sound
<1>6. CASE ~(r = Self \/ p.capable = (p.propDelay = "short"))
  <2>1. i.capable => odd \/ (~i.filterInit /\ i.propDelay = "short")
    BY <1>3, <1>4, <1>6
  <2> QED BY <1>2, <1>3, <1>6, <1>7, <2>1, Zenon DEF Sound
<1> QED BY <1>5, <1>6

LEMMA BmcaTickSound ==
  ASSUME NEW ig \in BOOLEAN, NEW p, Sound(p, ig)
  PROVE  Sound(BmcaTick(p), ig) /\ BmcaTick(p).bmca = BmcaTick(p).capable
         /\ BmcaTick(p).state = p.state
BY DEF Sound, BmcaTick, InvokeBmca, Port

LEMMA StartedSound ==
  ASSUME PortInv
  PROVE  Sound(Started, ignored) /\ Started.state # "DISABLED"
<1> DEFINE p == BmcaTick(port)
<1>1. Sound(p, ignored) /\ p.bmca = p.capable
  BY BmcaTickSound DEF PortInv
<1>2. CASE p.state = "DISABLED"
  <2>1. p.bmca = FALSE
    BY <1>1, <1>2 DEF Sound, Port
  <2> QED BY <1>1, <1>2, <2>1, PdelayInitSound DEF Started, PortInv
<1>3. CASE p.state # "DISABLED"
  BY <1>1, <1>3 DEF Started
<1> QED BY <1>2, <1>3

LEMMA ResponseSound ==
  ASSUME NEW ig \in BOOLEAN, NEW p, Sound(p, ig), NEW r \in Responder \cup {NULL},
         NEW mine \in BOOLEAN, NEW seq, NEW fresh \in BOOLEAN
  PROVE  Sound(Response(p, r, mine, seq, fresh), ig)
<1>1. CASE p.state = "WAIT_FOR_RESP" /\ seq = p.seqId /\ mine
  BY <1>1 DEF Response, Sound, Port, Waiting
<1>2. CASE p.state = "WAIT_FOR_RESP" /\ ~(seq = p.seqId /\ mine)
  <2>1. Response(p, r, mine, seq, fresh) = ReInit(p)
    BY <1>2 DEF Response
  <2> QED BY <1>2, <2>1, ReInitSound
<1>3. CASE p.state = "WAIT_FOR_RESP_FOLLOWUP" /\ seq = p.seqId
  <2>1. Response(p, r, mine, seq, fresh) = ReInit(p)
    BY <1>3 DEF Response
  <2> QED BY <1>3, <2>1, ReInitSound
<1>4. CASE p.state # "WAIT_FOR_RESP" /\ ~(p.state = "WAIT_FOR_RESP_FOLLOWUP" /\ seq = p.seqId)
  BY <1>4 DEF Response
<1> QED BY <1>1, <1>2, <1>3, <1>4

LEMMA TakeT4Sound ==
  ASSUME PortInv, NEW r \in Responder \cup {NULL}
  PROVE  Sound(TakeT4(r), ignored)
BY DEF PortInv, Sound, TakeT4, Port

\* The history that Remember leaves is enough for the port it was made of.
LEMMA RememberSound ==
  ASSUME NEW again, NEW odd \in BOOLEAN, Sound(port', odd), Remember(again, odd)
  PROVE  PortInv'
BY DEF PortInv, Remember, Sound, Port

LEMMA PdelayInit0 == Init => PortInv
<1> SUFFICES ASSUME Init PROVE PortInv
  OBVIOUS
<1>1. port \in Port
  BY Constants DEF Init, Port, Class
<1> QED BY <1>1 DEF Init, PortInv, Sound

LEMMA PdelayNext == ASSUME PortInv, [Next]_vars PROVE PortInv'
<1> USE DEF PortInv
<1>1. ASSUME NEW up \in BOOLEAN, IntfChange(up) PROVE PortInv'
  BY <1>1 DEF IntfChange
<1>2. ASSUME NEW ps \in SUBSET Responder, CalmDown(ps) PROVE PortInv'
  BY <1>2 DEF CalmDown
<1>3. ASSUME NEW r \in Responder, Lose(r) PROVE PortInv'
  BY <1>3 DEF Lose, environment
<1>4. ASSUME NEW r \in Responder, RespReceive(r) PROVE PortInv'
  <2> DEFINE m == Head(net[r])
  <2>1. PICK q \in Responder \cup {NULL} :
            port' = Response(TakeT4(q), r, TRUE, m.seq, m.age = 0)
    BY <1>4 DEF RespReceive
  <2>2. Sound(port', ignored)
    BY <2>1, TakeT4Sound, ResponseSound
  <2> QED BY <1>4, <2>2, RememberSound DEF RespReceive
<1>5. ASSUME NEW r \in Responder, FollowupReceive(r) PROVE PortInv'
  <2> DEFINE m == Head(net[r])
             kept == [EndExchange(port) EXCEPT !.prevT = IF Whole(m, r) THEN r ELSE "mixed"]
             good == [kept EXCEPT !.numLost = 0, !.measuring = TRUE]
  <2>1. CASE port' = port /\ Remember(reused, ignored)
    BY <2>1, RememberSound
  <2>2. ASSUME Expected(m, r) PROVE Sound(kept, ignored) /\ kept.bmca = kept.capable
                                    /\ kept.state = "REQ_SEND"
    <3>1. Sound(EndExchange(port), ignored) /\ EndExchange(port).state = "REQ_SEND"
          /\ EndExchange(port).bmca = EndExchange(port).capable
      BY <2>2, EndExchangeSound DEF Expected
    <3> HIDE DEF Whole
    <3> QED BY <3>1 DEF Sound, Port
  <2>3. CASE Expected(m, r) /\ port' = kept /\ Remember(reused, ignored)
    BY <2>2, <2>3, RememberSound
  <2>4. ASSUME Expected(m, r), NEW d \in Outcome(m, r),
               port' = SetCapable(PropTime(good, d), r),
               Remember(reused, ignored \/ d = "negative" \/ r = Self)
        PROVE  PortInv'
    <3> DEFINE odd == ignored \/ d = "negative" \/ r = Self
               z == [kept EXCEPT !.numLost = 0]
               p == PropTime(good, d)
    <3>1. d \in Class \cup {"negative"}
      BY Constants, <2>4 DEF Outcome
    <3>2. kept \in Port /\ kept.bmca = kept.capable /\ kept.state = "REQ_SEND"
      BY <2>2, <2>4, Zenon DEF Sound
    <3> HIDE DEF kept
    <3>3. z \in Port /\ z.bmca = z.capable /\ z.state = "REQ_SEND" /\ z.numLost = 0
      BY <3>2, Constants DEF Port
    <3>4. good = [z EXCEPT !.measuring = TRUE]
      OBVIOUS
    <3> HIDE DEF z, good
    <3>5. /\ good \in Port /\ good.bmca = good.capable /\ good.state = "REQ_SEND"
          /\ good.measuring /\ good.numLost = 0
      BY <3>3, <3>4 DEF Port
    <3>6. /\ p \in Port /\ p.bmca = p.capable /\ p.state = "REQ_SEND" /\ p.measuring
          /\ p.numLost = 0
          /\ d # "negative" => p.propDelay = d /\ (d # "long" => ~p.filterInit)
      BY <3>1, <3>5, PropTimeParts
    <3> HIDE DEF p
    <3>7. odd \/ (r # Self /\ (p.propDelay = "short" => ~p.filterInit))
      BY <3>6
    <3>8. odd \in BOOLEAN
      OBVIOUS
    <3>9. Sound(SetCapable(p, r), odd)
      BY <3>6, <3>7, <3>8, SetCapableSound
    <3> QED BY <2>4, <3>8, <3>9, RememberSound DEF p
  <2> QED BY <1>5, <2>1, <2>3, <2>4 DEF FollowupReceive
<1>6. ASSUME NEW seq \in 0 .. SEQ - 1, Overhear(seq) PROVE PortInv'
  BY <1>6, TakeT4Sound, ResponseSound, RememberSound DEF Overhear
<1>7. CASE IntfUpdate
  <2> DEFINE q == IF linkUp THEN PdelayInit(port) ELSE PdelayDisable(port)
  <2>1. port' = InvokeBmca(q)
    BY <1>7 DEF IntfUpdate
  <2>2. q \in Port /\ q.capable = FALSE
    BY InitAnyPort, PdelayDisableSound DEF Sound
  <2> HIDE DEF q
  <2>3. Sound(port', ignored)
    BY <2>1, <2>2 DEF InvokeBmca, Sound, Port
  <2> QED BY <1>7, <2>3, RememberSound DEF IntfUpdate
<1>8. CASE IntervalChange
  <2>1. Sound(port', ignored)
    BY <1>8 DEF IntervalChange, Sound, Port
  <2> QED BY <1>8, <2>1, RememberSound DEF IntervalChange
<1>9. CASE TickDisabled
  <2> DEFINE p == BmcaTick(port)
  <2>1. Sound(p, ignored)
    BY BmcaTickSound
  <2> HIDE DEF p
  <2>2. port' = IF p.state = "DISABLED" THEN p ELSE PdelayDisable(p)
    BY <1>9 DEF TickDisabled, p
  <2>3. Sound(port', ignored)
    BY <2>1, <2>2, PdelayDisableSound
  <2> QED BY <1>9, <2>3, RememberSound DEF TickDisabled
<1>10. CASE TickRunning
  <2> DEFINE s == Started
  <2>1. Sound(s, ignored) /\ s.state # "DISABLED"
    BY StartedSound
  <2>2. /\ port' = [s EXCEPT !.timerReset = FALSE,
                             !.timer = IF s.timerReset THEN 0 ELSE @ + 1]
        /\ ~Elapsed(s)
    BY <1>10 DEF TickRunning
  <2> HIDE DEF s
  <2> DEFINE a == [s EXCEPT !.timerReset = FALSE]
             time == IF s.timerReset THEN 0 ELSE s.timer + 1
  <2>3. time \in 0 .. INTERVAL - 1
    BY <2>1, <2>2, Constants DEF Elapsed, Sound, Port
  <2>4. Sound(a, ignored)
    BY <2>1, ResetSound
  <2>5. port' = [a EXCEPT !.timer = time]
    BY <2>2
  <2> HIDE DEF a, time
  <2>6. Sound(port', ignored)
    BY <2>3, <2>4, <2>5 DEF Sound, Port
  <2> QED BY <1>10, <2>6, RememberSound DEF TickRunning
<1>11. ASSUME NEW sent \in BOOLEAN, NEW answering \in SUBSET Responder,
              TickSend(sent, answering)
       PROVE  PortInv'
  <2> DEFINE s == Started
             a == [s EXCEPT !.timerReset = FALSE]
             q == [a EXCEPT !.timer = 0]
             t == TimedOut(s)
             seq == (s.seqId + 1) % SEQ
             b == [t EXCEPT !.seqId = seq]
             p == [b EXCEPT !.state = "WAIT_FOR_RESP"]
  <2>1. Sound(s, ignored) /\ s.state # "DISABLED"
    BY StartedSound
  <2>2. port' = IF sent THEN p ELSE ReInit(p)
    BY <1>11 DEF TickSend
  <2>3. t = IF q.state \in Waiting THEN ReInit(q) ELSE q
    BY DEF TimedOut
  <2>4. seq \in 0 .. SEQ - 1
    BY <2>1, Constants DEF Sound, Port
  <2> HIDE DEF s, seq
  <2>5. Sound(a, ignored) /\ a.state # "DISABLED"
    BY <2>1, ResetSound
  <2> HIDE DEF a
  <2>6. Sound(q, ignored) /\ q.state # "DISABLED"
    BY <2>5, Constants DEF Sound, Port
  <2> HIDE DEF q, t
  <2>7. Sound(t, ignored) /\ t.state # "DISABLED"
    BY <2>3, <2>6, ReInitSound
  <2>8. Sound(b, ignored) /\ b.state # "DISABLED"
    BY <2>4, <2>7 DEF Sound, Port
  <2> HIDE DEF b
  <2>9. Sound(p, ignored) /\ p.state # "DISABLED"
    BY <2>8 DEF Sound, Port, Waiting
  <2> HIDE DEF p
  <2>10. Sound(port', ignored)
    BY <2>2, <2>9, ReInitSound
  <2>11. PICK again : Remember(again, ignored)
    BY <1>11 DEF TickSend
  <2> QED BY <2>10, <2>11, RememberSound
<1>12. CASE UNCHANGED vars
  BY <1>12 DEF vars
<1> QED BY <1>1, <1>2, <1>3, <1>4, <1>5, <1>6, <1>7, <1>8, <1>9, <1>10, <1>11, <1>12
        DEF Next, Tick

\* A port is asCapable only if it measures, has not lost too many responses in a row and
\* was measured below the threshold, or a delay was tossed out or of a loop
\* (dot1asPdelayComputePropTime, dot1asIntfPdelayReInit).
THEOREM PdelayCapableJustified == Spec => []CapableJustified
<1>1. PortInv => CapableJustified
  BY DEF PortInv, Sound, CapableJustified
<1> QED BY PdelayInit0, PdelayNext, <1>1, PTL DEF Spec

\* BMCA runs on a port exactly when it is asCapable, a port just disabled excepted
\* (dot1asInvokeBmca).
THEOREM PdelayBmcaFollows == Spec => []BmcaFollows
<1>1. PortInv => BmcaFollows
  BY DEF PortInv, Sound, BmcaFollows
<1> QED BY PdelayInit0, PdelayNext, <1>1, PTL DEF Spec

-----------------------------------------------------------------------------
(* The times of an exchange.  As long as no older message has the sequence id  *)
(* of the exchange in progress, all that have it are of this exchange.        *)

Sent == [type : {"resp", "fup"}, seq : 0 .. SEQ - 1, age : Nat]

\* The messages with sequence id q are of the exchange in progress.
Own(s, q) == \A i \in 1 .. Len(s) : s[i].seq = q => s[i].age = 0

TimesInv ==
    /\ net \in [Responder -> Seq(Sent)] /\ reused \in BOOLEAN
    /\ port.state \in Waiting /\ ~reused =>
         /\ \A r \in Responder : Own(net[r], port.seqId)
         /\ port.state = "WAIT_FOR_RESP_FOLLOWUP" => port.t2

\* A port that still waits waits for the same.
Waits(q, p) == q.state \in Waiting => q.state = p.state /\ q.seqId = p.seqId /\ q.t2 = p.t2

\* Messages are only taken.
Fewer == \A r \in Responder : net'[r] = net[r] \/ (net[r] # <<>> /\ net'[r] = Tail(net[r]))

LEMMA FewerSent ==
  ASSUME net \in [Responder -> Seq(Sent)], Fewer, net' = [r \in Responder |-> net'[r]]
  PROVE  /\ net' \in [Responder -> Seq(Sent)]
         /\ \A r \in Responder : \A i \in 1 .. Len(net'[r]) :
               \E j \in 1 .. Len(net[r]) : net'[r][i] = net[r][j]
<1>1. ASSUME NEW r \in Responder
      PROVE  /\ net'[r] \in Seq(Sent)
             /\ \A i \in 1 .. Len(net'[r]) : \E j \in 1 .. Len(net[r]) : net'[r][i] = net[r][j]
  <2>1. CASE net'[r] = net[r]
    BY <2>1
  <2>2. CASE net[r] # <<>> /\ net'[r] = Tail(net[r])
    <3>1. /\ net'[r] \in Seq(Sent) /\ Len(net'[r]) = Len(net[r]) - 1
          /\ \A i \in 1 .. Len(net'[r]) : net'[r][i] = net[r][i + 1]
      BY <2>2, HeadTailProperties
    <3>2. \A i \in 1 .. Len(net'[r]) : i + 1 \in 1 .. Len(net[r])
      BY <3>1, LenProperties
    <3> QED
      BY <3>1, <3>2
  <2> QED
    BY <2>1, <2>2 DEF Fewer
<1> QED
  BY <1>1

LEMMA TimesTaken ==
  ASSUME TimesInv, Fewer, net' = [r \in Responder |-> net'[r]],
         port'.state \in Waiting => port.state \in Waiting /\ port'.seqId = port.seqId,
         port'.state = "WAIT_FOR_RESP_FOLLOWUP" /\ ~reused => port'.t2,
         reused' = (reused /\ port'.state \in Waiting)
  PROVE  TimesInv'
<1>1. /\ net' \in [Responder -> Seq(Sent)]
      /\ \A r \in Responder : \A i \in 1 .. Len(net'[r]) :
               \E j \in 1 .. Len(net[r]) : net'[r][i] = net[r][j]
  BY FewerSent DEF TimesInv
<1>2. CASE port'.state \in Waiting /\ ~reused'
  <2>1. port.state \in Waiting /\ ~reused /\ port'.seqId = port.seqId
    BY <1>2 DEF TimesInv
  <2>2. ASSUME NEW r \in Responder PROVE Own(net'[r], port'.seqId)
    BY <1>1, <2>1 DEF TimesInv, Own
  <2> QED
    BY <1>1, <1>2, <2>1, <2>2 DEF TimesInv
<1>3. CASE ~(port'.state \in Waiting /\ ~reused')
  <2>1. reused' \in BOOLEAN
    BY DEF TimesInv
  <2> QED
    BY <1>1, <1>3, <2>1 DEF TimesInv
<1> QED
  BY <1>2, <1>3

LEMMA TimesKept ==
  ASSUME TimesInv, Fewer, net' = [r \in Responder |-> net'[r]], Waits(port', port),
         reused' = (reused /\ port'.state \in Waiting)
  PROVE  TimesInv'
BY TimesTaken DEF Waits, Waiting, TimesInv

\* The net is as it was, or the first message of r has been taken.
LEMMA FewerSame ==
  ASSUME TimesInv, net' = net
  PROVE  Fewer /\ net' = [r \in Responder |-> net'[r]]
BY DEF TimesInv, Fewer

LEMMA FewerTail ==
  ASSUME TimesInv, NEW r \in Responder, net[r] # <<>>, net' = [net EXCEPT ![r] = Tail(@)]
  PROVE  Fewer /\ net' = [q \in Responder |-> net'[q]]
BY DEF TimesInv, Fewer

LEMMA OlderSent ==
  ASSUME NEW m \in Sent
  PROVE  [m EXCEPT !.age = @ + 1] \in Sent
<1>1. /\ m = [type |-> m.type, seq |-> m.seq, age |-> m.age]
      /\ m.type \in {"resp", "fup"} /\ m.seq \in 0 .. SEQ - 1 /\ m.age \in Nat
  BY DEF Sent
<1>2. [m EXCEPT !.age = @ + 1] = [type |-> m.type, seq |-> m.seq, age |-> m.age + 1]
  BY <1>1
<1> QED
  BY <1>1, <1>2 DEF Sent

LEMMA AgedSent ==
  ASSUME NEW s \in Seq(Sent)
  PROVE  Aged(s) \in Seq(Sent)
<1> DEFINE n == Cardinality({i \in DOMAIN s : s[i].age = MaxAge})
<1>1. n \in 0 .. Len(s)
  <2>1. DOMAIN s = 1 .. Len(s) /\ Len(s) \in Nat
    BY LenProperties
  <2>2. IsFiniteSet(1 .. Len(s)) /\ Cardinality(1 .. Len(s)) = Len(s)
    BY <2>1, FS_Interval
  <2>3. {i \in DOMAIN s : s[i].age = MaxAge} \subseteq 1 .. Len(s)
    BY <2>1
  <2> QED
    BY <2>1, <2>2, <2>3, FS_Subset, FS_CardinalityType
<1>2. Aged(s) = [i \in 1 .. Len(s) - n |-> [s[i + n] EXCEPT !.age = @ + 1]]
  BY DEF Aged
<1> HIDE DEF n
<1>3. ASSUME NEW i \in 1 .. Len(s) - n PROVE [s[i + n] EXCEPT !.age = @ + 1] \in Sent
  <2>1. i + n \in 1 .. Len(s)
    BY <1>1, LenProperties
  <2>2. s[i + n] \in Sent
    BY <2>1, ElementOfSeq
  <2> QED
    BY <2>2, OlderSent
<1>4. Len(s) - n \in Nat
  BY <1>1, LenProperties
<1> QED
  BY <1>2, <1>3, <1>4

\* What becomes of a port in a handler that does not begin an exchange.
LEMMA EndExchangeIdle == ASSUME NEW p \in Port
                         PROVE  EndExchange(p).state = "REQ_SEND"
BY DEF EndExchange, Port

LEMMA ReInitIdle ==
  ASSUME NEW p, Sound(p, ignored), p.state # "DISABLED", ignored \in BOOLEAN
  PROVE  ReInit(p).state \notin Waiting
BY ReInitSound DEF Waiting

\* The response accepted: the port waits for the follow-up.
Accepts(q, p, seq, fresh) ==
    /\ seq = p.seqId /\ p.state \in Waiting
    /\ q.state \in Waiting /\ q.seqId = p.seqId /\ q.t2 = fresh

\* A response to this port's request: the port waits on, or has a follow-up to wait for.
LEMMA ResponseMine ==
  ASSUME NEW p, Sound(p, ignored), ignored \in BOOLEAN, NEW r, NEW seq, NEW fresh
  PROVE  LET q == Response(p, r, TRUE, seq, fresh)
         IN  Waits(q, p) \/ Accepts(q, p, seq, fresh)
<1> DEFINE q == Response(p, r, TRUE, seq, fresh)
<1>1. CASE p.state = "WAIT_FOR_RESP" /\ seq = p.seqId
  <2>1. q = [p EXCEPT !.partnerId = r, !.t2 = fresh, !.state = "WAIT_FOR_RESP_FOLLOWUP"]
    BY <1>1 DEF Response
  <2> HIDE DEF q
  <2>2. q.state \in Waiting /\ q.seqId = p.seqId /\ q.t2 = fresh /\ p.state \in Waiting
    BY <1>1, <2>1 DEF Sound, Port, Waiting
  <2> QED
    BY <1>1, <2>2 DEF q, Accepts
<1>2. CASE p.state = "WAIT_FOR_RESP" /\ seq # p.seqId
  <2>1. q = ReInit(p)
    BY <1>2 DEF Response
  <2> HIDE DEF q
  <2>2. Waits(q, p)
    BY <1>2, <2>1, ReInitIdle DEF Waits
  <2> QED
    BY <2>2 DEF q
<1>3. CASE p.state = "WAIT_FOR_RESP_FOLLOWUP" /\ seq = p.seqId
  <2>1. q = ReInit(p)
    BY <1>3 DEF Response
  <2> HIDE DEF q
  <2>2. Waits(q, p)
    BY <1>3, <2>1, ReInitIdle DEF Waits
  <2> QED
    BY <2>2 DEF q
<1>4. CASE p.state # "WAIT_FOR_RESP" /\ ~(p.state = "WAIT_FOR_RESP_FOLLOWUP" /\ seq = p.seqId)
  BY <1>4 DEF Response, Waits
<1> QED
  BY <1>1, <1>2, <1>3, <1>4

LEMMA ResponseOther ==
  ASSUME NEW p, Sound(p, ignored), ignored \in BOOLEAN, NEW r, NEW seq, NEW fresh
  PROVE  Waits(Response(p, r, FALSE, seq, fresh), p)
<1> DEFINE q == Response(p, r, FALSE, seq, fresh)
<1>2. CASE p.state = "WAIT_FOR_RESP"
  <2>1. q = ReInit(p)
    BY <1>2 DEF Response
  <2> HIDE DEF q
  <2>2. Waits(q, p)
    BY <1>2, <2>1, ReInitIdle DEF Waits
  <2> QED
    BY <2>2 DEF q
<1>3. CASE p.state = "WAIT_FOR_RESP_FOLLOWUP" /\ seq = p.seqId
  <2>1. q = ReInit(p)
    BY <1>3 DEF Response
  <2> HIDE DEF q
  <2>2. Waits(q, p)
    BY <1>3, <2>1, ReInitIdle DEF Waits
  <2> QED
    BY <2>2 DEF q
<1>4. CASE p.state # "WAIT_FOR_RESP" /\ ~(p.state = "WAIT_FOR_RESP_FOLLOWUP" /\ seq = p.seqId)
  BY <1>4 DEF Response, Waits
<1> QED
  BY <1>2, <1>3, <1>4

LEMMA TakeT4Same ==
  ASSUME NEW r, port \in Port
  PROVE  TakeT4(r).state = port.state /\ TakeT4(r).seqId = port.seqId /\ TakeT4(r).t2 = port.t2
BY DEF TakeT4, Port

LEMMA BmcaTickSame ==
  ASSUME NEW p \in Port
  PROVE  BmcaTick(p).state = p.state /\ BmcaTick(p).seqId = p.seqId /\ BmcaTick(p).t2 = p.t2
BY DEF BmcaTick, InvokeBmca, Port

LEMMA StartedWaits ==
  ASSUME PortInv
  PROVE  Waits(Started, port)
<1> DEFINE p == BmcaTick(port)
<1>1. p \in Port /\ Waits(p, port)
  BY BmcaTickSame, BmcaTickSound DEF PortInv, Sound, Waits
<1>2. CASE p.state = "DISABLED"
  <2>1. Started.state = "REQ_SEND"
    BY <1>1, <1>2, InitAnyPort DEF Started
  <2> QED
    BY <2>1 DEF Waits, Waiting
<1>3. CASE p.state # "DISABLED"
  BY <1>1, <1>3 DEF Started
<1> QED
  BY <1>2, <1>3

LEMMA PdelayDisableIdle ==
  ASSUME NEW p \in Port
  PROVE  PdelayDisable(p) \in Port /\ PdelayDisable(p).state = "DISABLED"
BY DEF PdelayDisable, EndExchange, Port, Class

LEMMA SetCapableState ==
  ASSUME NEW p \in Port, NEW r
  PROVE  SetCapable(p, r).state = p.state
<1> DEFINE c == [p EXCEPT !.capable = ~@]
<1>1. c \in Port /\ c.state = p.state
  BY DEF Port
<1>2. SetCapable(p, r) = p \/ SetCapable(p, r) = InvokeBmca(c)
  BY DEF SetCapable
<1> HIDE DEF c
<1> QED
  BY <1>1, <1>2 DEF InvokeBmca, Port

LEMMA FollowupEnds ==
  ASSUME port \in Port, NEW r \in Responder, FollowupReceive(r)
  PROVE  port' = port \/ port'.state = "REQ_SEND"
<1> DEFINE m == Head(net[r])
           kept == [EndExchange(port) EXCEPT !.prevT = IF Whole(m, r) THEN r ELSE "mixed"]
           good == [kept EXCEPT !.numLost = 0, !.measuring = TRUE]
<1>1. kept \in Port /\ kept.state = "REQ_SEND"
  <2>1. EndExchange(port) \in Port /\ EndExchange(port).state = "REQ_SEND"
    BY DEF EndExchange, Port
  <2> HIDE DEF Whole
  <2> QED
    BY <2>1 DEF Port
<1>2. ASSUME NEW d \in Outcome(m, r), port' = SetCapable(PropTime(good, d), r)
      PROVE  port'.state = "REQ_SEND"
  <2> DEFINE z == [kept EXCEPT !.numLost = 0]
             p == PropTime(good, d)
  <2>1. d \in Class \cup {"negative"}
    BY Constants, <1>2 DEF Outcome
  <2> HIDE DEF kept
  <2>2. z \in Port /\ z.state = "REQ_SEND"
    BY <1>1, Constants DEF Port
  <2>3. good = [z EXCEPT !.measuring = TRUE]
    OBVIOUS
  <2> HIDE DEF z, good
  <2>4. good \in Port /\ good.state = "REQ_SEND"
    BY <2>2, <2>3 DEF Port
  <2>5. p \in Port /\ p.state = "REQ_SEND"
    BY <2>1, <2>4, PropTimeParts
  <2> QED
    BY <1>2, <2>5, SetCapableState
<1> QED
  BY <1>1, <1>2, Zenon DEF FollowupReceive

LEMMA TimedOutSound ==
  ASSUME NEW s, Sound(s, ignored), ignored \in BOOLEAN, s.state # "DISABLED"
  PROVE  Sound(TimedOut(s), ignored) /\ TimedOut(s).state # "DISABLED"
<1> DEFINE a == [s EXCEPT !.timerReset = FALSE]
           q == [a EXCEPT !.timer = 0]
<1>1. TimedOut(s) = IF q.state \in Waiting THEN ReInit(q) ELSE q
  BY DEF TimedOut
<1>2. Sound(a, ignored) /\ a.state # "DISABLED"
  BY ResetSound
<1> HIDE DEF a
<1>3. Sound(q, ignored) /\ q.state # "DISABLED"
  BY <1>2, Constants DEF Sound, Port
<1> HIDE DEF q
<1> QED
  BY <1>1, <1>3, ReInitSound

LEMMA AnswersSent ==
  ASSUME NEW q \in 0 .. SEQ - 1
  PROVE  Answers(q) \in Seq(Sent)
BY DEF Answers, Sent

\* The messages of earlier exchanges, and those of the new one.
LEMMA AnsweredSent ==
  ASSUME NEW s \in Seq(Sent), NEW q \in 0 .. SEQ - 1, \A i \in 1 .. Len(s) : s[i].seq # q
  PROVE  /\ s \o Answers(q) \in Seq(Sent) /\ Own(s \o Answers(q), q) /\ Own(s, q)
<1>1. Answers(q) \in Seq(Sent) /\ Len(Answers(q)) = 2
      /\ Answers(q)[1].age = 0 /\ Answers(q)[2].age = 0
  BY DEF Answers, Sent
<1> HIDE DEF Answers
<1>2. s \o Answers(q) \in Seq(Sent)
  BY <1>1, ConcatProperties
<1>3. ASSUME NEW i \in 1 .. Len(s \o Answers(q)), (s \o Answers(q))[i].seq = q
      PROVE  (s \o Answers(q))[i].age = 0
  <2>1. /\ i \in 1 .. Len(s) + 2
        /\ (s \o Answers(q))[i] = IF i <= Len(s) THEN s[i] ELSE Answers(q)[i - Len(s)]
    BY <1>1, ConcatProperties
  <2>2. CASE i <= Len(s)
    BY <1>3, <2>1, <2>2, LenProperties
  <2>3. CASE ~(i <= Len(s))
    <3>1. i - Len(s) \in {1, 2}
      BY <2>1, <2>3, LenProperties
    <3> QED
      BY <1>1, <2>1, <2>3, <3>1
  <2> QED
    BY <2>2, <2>3
<1> QED
  BY <1>2, <1>3 DEF Own

LEMMA TimesInit == Init => TimesInv
<1> SUFFICES ASSUME Init PROVE TimesInv
  OBVIOUS
<1>1. net \in [Responder -> Seq(Sent)]
  BY EmptySeq DEF Init
<1> QED
  BY <1>1 DEF Init, TimesInv, Waiting

LEMMA RespReceiveTimes ==
  ASSUME PortInv, TimesInv, NEW r \in Responder, RespReceive(r)
  PROVE  TimesInv'
<1> DEFINE m == Head(net[r])
           fresh == m.age = 0
           p == TakeT4(IF m.age = 0 THEN r ELSE NULL)
<1>1. /\ net[r] # <<>> /\ net' = [net EXCEPT ![r] = Tail(@)]
      /\ port' = Response(p, r, TRUE, m.seq, fresh)
      /\ reused' = (reused /\ port'.state \in Waiting)
  BY Zenon DEF RespReceive, Remember
<1>2. Fewer /\ net' = [q \in Responder |-> net'[q]]
  BY <1>1, FewerTail
<1>3. /\ Sound(p, ignored) /\ ignored \in BOOLEAN
      /\ p.state = port.state /\ p.seqId = port.seqId /\ p.t2 = port.t2
  BY TakeT4Sound, TakeT4Same DEF PortInv, Sound
<1> HIDE DEF p, fresh
<1>4. CASE Waits(port', p)
  BY <1>1, <1>2, <1>3, <1>4, TimesKept DEF Waits
<1>5. CASE Accepts(port', p, m.seq, fresh)
  <2>0. /\ m.seq = p.seqId /\ p.state \in Waiting
        /\ port'.state \in Waiting /\ port'.seqId = p.seqId /\ port'.t2 = fresh
    BY <1>5 DEF Accepts
  <2>1. m = net[r][1] /\ 1 \in 1 .. Len(net[r])
    BY <1>1, HeadTailProperties, LenProperties, EmptySeq DEF TimesInv
  <2>2. ASSUME ~reused PROVE port'.t2
    <3>1. Own(net[r], port.seqId)
      BY <1>3, <2>0, <2>2 DEF TimesInv
    <3>2. m.age = 0
      BY <1>3, <2>0, <2>1, <3>1 DEF Own
    <3> QED
      BY <2>0, <3>2 DEF fresh
  <2> QED
    BY <1>1, <1>2, <1>3, <2>0, <2>2, TimesTaken
<1>6. Waits(port', p) \/ Accepts(port', p, m.seq, fresh)
  <2> DEFINE seq == m.seq
  <2> HIDE DEF m
  <2>1. LET q == Response(p, r, TRUE, seq, fresh)
        IN  Waits(q, p) \/ Accepts(q, p, seq, fresh)
    BY <1>3, ResponseMine
  <2> QED
    BY <1>1, <2>1
<1> QED
  BY <1>4, <1>5, <1>6

LEMMA TickSendTimes ==
  ASSUME PortInv, TimesInv, NEW sent \in BOOLEAN, NEW answering \in SUBSET Responder,
         TickSend(sent, answering)
  PROVE  TimesInv'
<1> DEFINE s == Started
           seq == (s.seqId + 1) % SEQ
           t == TimedOut(s)
           p == [t EXCEPT !.seqId = seq, !.state = "WAIT_FOR_RESP"]
           old == [r \in Responder |-> Aged(net[r])]
           again == \E r \in Responder : \E i \in DOMAIN old[r] : old[r][i].seq = seq
<1>1. /\ port' = IF sent THEN p ELSE ReInit(p)
      /\ net' = [r \in Responder |->
                     IF r \in answering THEN old[r] \o Answers(seq) ELSE old[r]]
      /\ reused' = (again /\ port'.state \in Waiting)
  BY Zenon DEF TickSend, Remember
<1>2. Sound(s, ignored) /\ ignored \in BOOLEAN /\ s.state # "DISABLED"
  BY StartedSound DEF PortInv
<1>3. seq \in 0 .. SEQ - 1
  BY <1>2, Constants DEF Sound, Port
<1>4. Sound(t, ignored) /\ t.state # "DISABLED"
  BY <1>2, TimedOutSound
<1>5. \A r \in Responder : old[r] \in Seq(Sent)
  BY AgedSent DEF TimesInv
<1> HIDE DEF s, seq, t, old
<1>6. Sound(p, ignored) /\ p.state = "WAIT_FOR_RESP" /\ p.seqId = seq
  <2> DEFINE b == [t EXCEPT !.seqId = seq]
  <2>1. Sound(b, ignored) /\ b.state # "DISABLED" /\ b.seqId = seq
    BY <1>3, <1>4 DEF Sound, Port
  <2>2. p = [b EXCEPT !.state = "WAIT_FOR_RESP"]
    OBVIOUS
  <2> HIDE DEF b, p
  <2> QED
    BY <2>1, <2>2 DEF Sound, Port, Waiting
<1> HIDE DEF p
<1>7. net' \in [Responder -> Seq(Sent)]
  <2>1. ASSUME NEW r \in Responder
        PROVE  (IF r \in answering THEN old[r] \o Answers(seq) ELSE old[r]) \in Seq(Sent)
    BY <1>3, <1>5, AnswersSent, ConcatProperties
  <2> QED
    BY <1>1, <2>1
<1>8. reused' \in BOOLEAN
  BY <1>1
<1>9. CASE port'.state \in Waiting /\ ~reused'
  <2>1. ~again
    BY <1>1, <1>9
  <2>2. ASSUME NEW r \in Responder PROVE Own(net'[r], seq)
    <3>1. \A i \in 1 .. Len(old[r]) : old[r][i].seq # seq
      BY <1>5, <2>1, LenProperties
    <3>2. old[r] \in Seq(Sent)
      BY <1>5
    <3>3. Own(old[r] \o Answers(seq), seq) /\ Own(old[r], seq)
      BY <1>3, <3>1, <3>2, AnsweredSent
    <3> QED
      BY <1>1, <3>3
  <2>3. port' = p
    <3>1. CASE ~sent
      <4>1. port' = ReInit(p)
        BY <1>1, <3>1
      <4>2. ReInit(p).state = "REQ_SEND"
        BY <1>2, <1>6, ReInitSound
      <4> QED
        BY <1>9, <4>1, <4>2 DEF Waiting
    <3> QED
      BY <1>1, <3>1
  <2> QED
    BY <1>6, <1>7, <1>8, <2>2, <2>3 DEF TimesInv
<1>10. CASE ~(port'.state \in Waiting /\ ~reused')
  BY <1>7, <1>8, <1>10 DEF TimesInv
<1> QED
  BY <1>9, <1>10

LEMMA TimesNext ==
  ASSUME PortInv, TimesInv, [Next]_vars
  PROVE  TimesInv'
<1>0. port \in Port /\ Sound(port, ignored) /\ ignored \in BOOLEAN
  BY DEF PortInv, Sound
<1>1. ASSUME NEW up \in BOOLEAN, IntfChange(up) PROVE TimesInv'
  BY <1>1 DEF IntfChange, TimesInv
<1>2. ASSUME NEW ps \in SUBSET Responder, CalmDown(ps) PROVE TimesInv'
  BY <1>2 DEF CalmDown, TimesInv
<1>3. ASSUME NEW r \in Responder, Lose(r) PROVE TimesInv'
  <2>1. Fewer /\ net' = [q \in Responder |-> net'[q]]
    BY <1>3, FewerTail DEF Lose
  <2>2. port' = port /\ reused' = reused
    BY <1>3 DEF Lose
  <2>3. CASE port.state \in Waiting
    BY <2>1, <2>2, <2>3, TimesKept DEF Waits, TimesInv
  <2>4. CASE port.state \notin Waiting
    BY <2>1, <2>2, <2>4, FewerSent DEF TimesInv
  <2> QED
    BY <2>3, <2>4
<1>4. ASSUME NEW r \in Responder, RespReceive(r) PROVE TimesInv'
  BY <1>4, RespReceiveTimes
<1>5. ASSUME NEW r \in Responder, FollowupReceive(r) PROVE TimesInv'
  <2>1. Fewer /\ net' = [q \in Responder |-> net'[q]]
    BY <1>5, FewerTail DEF FollowupReceive
  <2>2. reused' = (reused /\ port'.state \in Waiting)
    BY <1>5, Zenon DEF FollowupReceive, Remember
  <2>3. port' = port \/ port'.state = "REQ_SEND"
    BY <1>0, <1>5, FollowupEnds
  <2>4. Waits(port', port)
    BY <2>3 DEF Waits, Waiting
  <2> QED
    BY <2>1, <2>2, <2>4, TimesKept
<1>6. ASSUME NEW seq \in 0 .. SEQ - 1, Overhear(seq) PROVE TimesInv'
  <2>1. /\ port' = Response(TakeT4(NULL), NULL, FALSE, seq, FALSE)
        /\ reused' = (reused /\ port'.state \in Waiting)
        /\ Fewer /\ net' = [q \in Responder |-> net'[q]]
    BY <1>6, FewerSame DEF Overhear, Remember
  <2>2. Waits(port', TakeT4(NULL))
    <3>1. Sound(TakeT4(NULL), ignored)
      BY TakeT4Sound
    <3> QED
      BY <1>0, <2>1, <3>1, ResponseOther
  <2>3. Waits(port', port)
    BY <1>0, <2>2, TakeT4Same DEF Waits
  <2> QED
    BY <2>1, <2>3, TimesKept
<1>7. CASE IntfUpdate
  <2> DEFINE q == IF linkUp THEN PdelayInit(port) ELSE PdelayDisable(port)
  <2>1. /\ port' = InvokeBmca(q) /\ reused' = (reused /\ port'.state \in Waiting)
        /\ Fewer /\ net' = [r \in Responder |-> net'[r]]
    BY <1>7, FewerSame DEF IntfUpdate, Remember
  <2>2. q \in Port /\ q.state \notin Waiting
    BY <1>0, InitAnyPort, PdelayDisableIdle DEF Waiting
  <2> HIDE DEF q
  <2>3. port'.state \notin Waiting
    BY <2>1, <2>2 DEF InvokeBmca, Port
  <2> QED
    BY <2>1, <2>3, TimesKept DEF Waits
<1>8. CASE IntervalChange
  <2>1. /\ reused' = (reused /\ port'.state \in Waiting)
        /\ Fewer /\ net' = [r \in Responder |-> net'[r]]
    BY <1>8, FewerSame DEF IntervalChange, Remember
  <2>2. Waits(port', port)
    BY <1>0, <1>8 DEF IntervalChange, Waits, Port
  <2> QED
    BY <2>1, <2>2, TimesKept
<1>9. CASE TickDisabled
  <2> DEFINE p == BmcaTick(port)
  <2>1. /\ port' = IF p.state = "DISABLED" THEN p ELSE PdelayDisable(p)
        /\ reused' = (reused /\ port'.state \in Waiting)
        /\ Fewer /\ net' = [r \in Responder |-> net'[r]]
    BY <1>9, FewerSame, Zenon DEF TickDisabled, Remember
  <2>2. p \in Port
    BY <1>0, BmcaTickSound DEF Sound
  <2> HIDE DEF p
  <2>3. port'.state \notin Waiting
    BY <2>1, <2>2, PdelayDisableIdle DEF Waiting
  <2> QED
    BY <2>1, <2>3, TimesKept DEF Waits
<1>10. CASE TickRunning
  <2> DEFINE s == Started
  <2>1. /\ port' = [s EXCEPT !.timerReset = FALSE,
                             !.timer = IF s.timerReset THEN 0 ELSE @ + 1]
        /\ reused' = (reused /\ port'.state \in Waiting)
        /\ Fewer /\ net' = [r \in Responder |-> net'[r]]
    BY <1>10, FewerSame, Zenon DEF TickRunning, Remember
  <2>2. s \in Port /\ Waits(s, port)
    BY StartedSound, StartedWaits DEF Sound
  <2> HIDE DEF s
  <2>3. port'.state = s.state /\ port'.seqId = s.seqId /\ port'.t2 = s.t2
    BY <2>1, <2>2 DEF Port
  <2> QED
    BY <2>1, <2>2, <2>3, TimesKept DEF Waits
<1>11. ASSUME NEW sent \in BOOLEAN, NEW answering \in SUBSET Responder,
              TickSend(sent, answering)
       PROVE  TimesInv'
  BY <1>11, TickSendTimes
<1>12. CASE UNCHANGED vars
  BY <1>12 DEF vars, TimesInv
<1> QED
  BY <1>1, <1>2, <1>3, <1>4, <1>5, <1>6, <1>7, <1>8, <1>9, <1>10, <1>11, <1>12
     DEF Next, Tick

\* When a follow-up is awaited, T2 is of the exchange in progress, unless a message of an
\* older exchange has its sequence id (dot1asPdelayReqSend, dot1asPdelayRespReceive).
THEOREM PdelayExchangeTimes == Spec => []ExchangeTimes
<1>1. TimesInv => ExchangeTimes
  BY DEF TimesInv, ExchangeTimes, Waiting
<1> QED
  BY PdelayInit0, PdelayNext, TimesInit, TimesNext, <1>1, PTL DEF Spec

-----------------------------------------------------------------------------
(* The messages on the way.  They stay in the order of their exchanges, so that *)
(* the ones that have become too old are the first, and no other one is dropped. *)

InOrder(s) == \A i, j \in 1 .. Len(s) : i < j => s[i].age >= s[j].age

OnTheWay(s) == s \in Seq(Message) /\ Len(s) <= MaxNet /\ InOrder(s)

NetInv ==
    /\ {linkUp, calm} \subseteq BOOLEAN /\ peers \subseteq Responder
    /\ intfEvents \in 0 .. MaxEvents
    /\ net \in [Responder -> Seq(Message)] /\ \A r \in Responder : OnTheWay(net[r])

LEMMA MessageAge ==
  ASSUME NEW s \in Seq(Message), NEW i \in 1 .. Len(s)
  PROVE  s[i] \in Message /\ s[i].age \in 0 .. MaxAge
<1>1. s[i] \in Message
  BY ElementOfSeq
<1> QED
  BY <1>1 DEF Message

LEMMA TailOnTheWay ==
  ASSUME NEW s, OnTheWay(s), s # <<>>
  PROVE  OnTheWay(Tail(s))
<1>0. s \in Seq(Message) /\ Len(s) \in Nat /\ Len(s) <= MaxNet /\ MaxNet \in Nat
  BY LenProperties, NumberAssumption DEF OnTheWay
<1>1. /\ Tail(s) \in Seq(Message) /\ Len(Tail(s)) = Len(s) - 1
      /\ \A i \in 1 .. Len(Tail(s)) : Tail(s)[i] = s[i + 1]
  BY <1>0, HeadTailProperties
<1>2. ASSUME NEW i \in 1 .. Len(Tail(s)), NEW j \in 1 .. Len(Tail(s)), i < j
      PROVE  Tail(s)[i].age >= Tail(s)[j].age
  <2>1. i + 1 \in 1 .. Len(s) /\ j + 1 \in 1 .. Len(s) /\ i + 1 < j + 1
    BY <1>0, <1>1, <1>2
  <2>2. s[i + 1].age >= s[j + 1].age
    BY <2>1 DEF OnTheWay, InOrder
  <2> QED
    BY <1>1, <2>2
<1> QED
  BY <1>0, <1>1, <1>2 DEF OnTheWay, InOrder

LEMMA OlderMessage ==
  ASSUME NEW m \in Message, m.age # MaxAge
  PROVE  [m EXCEPT !.age = @ + 1] \in Message
<1>1. /\ m = [type |-> m.type, seq |-> m.seq, age |-> m.age]
      /\ m.type \in {"resp", "fup"} /\ m.seq \in 0 .. SEQ - 1 /\ m.age \in 0 .. MaxAge
  BY DEF Message
<1>2. [m EXCEPT !.age = @ + 1] = [type |-> m.type, seq |-> m.seq, age |-> m.age + 1]
  BY <1>1
<1>3. m.age + 1 \in 0 .. MaxAge
  BY <1>1, NumberAssumption
<1> QED
  BY <1>1, <1>2, <1>3 DEF Message

\* What is left an exchange later: the messages that were not too old, one older each.
LEMMA AgedOnTheWay ==
  ASSUME NEW s, OnTheWay(s)
  PROVE  /\ Aged(s) \in Seq(Message) /\ InOrder(Aged(s))
         /\ \A i \in 1 .. Len(Aged(s)) : Aged(s)[i].age > 0
<1> DEFINE old == {i \in DOMAIN s : s[i].age = MaxAge}
           n == Cardinality(old)
           a == Aged(s)
<1>0. s \in Seq(Message) /\ Len(s) \in Nat /\ DOMAIN s = 1 .. Len(s)
  BY LenProperties DEF OnTheWay
<1>1. n \in 0 .. Len(s) /\ IsFiniteSet(old)
  <2>1. IsFiniteSet(1 .. Len(s)) /\ Cardinality(1 .. Len(s)) = Len(s)
    BY <1>0, FS_Interval
  <2>2. old \subseteq 1 .. Len(s)
    BY <1>0
  <2> QED
    BY <2>1, <2>2, FS_Subset, FS_CardinalityType
<1>2. ASSUME NEW i \in 1 .. Len(s), i > n PROVE s[i].age # MaxAge
  <2> SUFFICES ASSUME s[i].age = MaxAge PROVE FALSE
    OBVIOUS
  <2>1. ASSUME NEW j \in 1 .. i PROVE j \in old
    <3>1. j \in 1 .. Len(s) /\ (j = i \/ j < i)
      OBVIOUS
    <3>2. s[j].age \in 0 .. MaxAge /\ s[j].age >= s[i].age
      BY <1>0, <3>1, MessageAge DEF OnTheWay, InOrder
    <3>3. s[j].age = MaxAge
      BY <3>2, NumberAssumption
    <3> QED
      BY <1>0, <3>1, <3>3
  <2>2. 1 .. i \subseteq old /\ IsFiniteSet(1 .. i) /\ Cardinality(1 .. i) = i
    <3>1. i \in Nat /\ 1 .. i \subseteq old
      BY <1>0, <2>1
    <3>2. IsFiniteSet(1 .. i) /\ Cardinality(1 .. i) = i
      BY <3>1, FS_Interval
    <3> QED
      BY <3>1, <3>2
  <2>3. i <= n
    BY <1>1, <2>2, FS_Subset
  <2> QED
    BY <1>1, <1>2, <2>3
<1>3. a = [i \in 1 .. Len(s) - n |-> [s[i + n] EXCEPT !.age = @ + 1]]
  BY DEF Aged
<1> HIDE DEF n, old, a
<1>4. Len(s) - n \in Nat
  BY <1>0, <1>1
<1>5. ASSUME NEW i \in 1 .. Len(s) - n
      PROVE  /\ i + n \in 1 .. Len(s) /\ a[i] \in Message
             /\ s[i + n].age \in Nat /\ a[i].age = s[i + n].age + 1
  <2>1. i + n \in 1 .. Len(s) /\ i + n > n
    BY <1>0, <1>1
  <2>2. s[i + n] \in Message /\ s[i + n].age # MaxAge /\ s[i + n].age \in 0 .. MaxAge
    BY <1>0, <1>2, <2>1, MessageAge
  <2>3. a[i] = [s[i + n] EXCEPT !.age = @ + 1]
    BY <1>3
  <2>4. a[i] \in Message
    BY <2>2, <2>3, OlderMessage
  <2>5. a[i].age = s[i + n].age + 1
    BY <2>2, <2>3 DEF Message
  <2> QED
    BY <2>1, <2>2, <2>4, <2>5
<1>6. a \in Seq(Message) /\ Len(a) = Len(s) - n
  BY <1>3, <1>4, <1>5
<1>7. ASSUME NEW i \in 1 .. Len(a), NEW j \in 1 .. Len(a), i < j PROVE a[i].age >= a[j].age
  <2>1. i + n < j + n /\ i + n \in 1 .. Len(s) /\ j + n \in 1 .. Len(s)
    BY <1>1, <1>4, <1>5, <1>6, <1>7
  <2>2. s[i + n].age >= s[j + n].age
    BY <2>1 DEF OnTheWay, InOrder
  <2> QED
    BY <1>5, <1>6, <2>2
<1> QED
  BY <1>5, <1>6, <1>7 DEF a, InOrder

\* The answers to the new request go behind what is left.
LEMMA AnswersOnTheWay ==
  ASSUME NEW s \in Seq(Message), InOrder(s), NEW q \in 0 .. SEQ - 1
  PROVE  s \o Answers(q) \in Seq(Message) /\ InOrder(s \o Answers(q))
<1> DEFINE t == Answers(q)
<1>1. t \in Seq(Message) /\ Len(t) = 2 /\ t[1].age = 0 /\ t[2].age = 0
  BY NumberAssumption DEF Answers, Message
<1> HIDE DEF t
<1> DEFINE x == s \o t
<1>2. /\ x \in Seq(Message) /\ Len(s) \in Nat /\ Len(x) = Len(s) + 2
      /\ \A i \in 1 .. Len(s) + 2 : x[i] = IF i <= Len(s) THEN s[i] ELSE t[i - Len(s)]
  <2>1. x \in Seq(Message) /\ Len(x) = Len(s) + Len(t) /\ Len(s) \in Nat
    BY <1>1, ConcatProperties, LenProperties
  <2>2. \A i \in 1 .. Len(s) + Len(t) : x[i] = IF i <= Len(s) THEN s[i] ELSE t[i - Len(s)]
    BY <1>1, ConcatProperties
  <2> QED
    BY <1>1, <2>1, <2>2
<1> HIDE DEF x
<1>3. ASSUME NEW i \in 1 .. Len(s) + 2, NEW j \in 1 .. Len(s) + 2, i < j
      PROVE  x[i].age >= x[j].age
  <2>1. CASE j <= Len(s)
    <3>1. i \in 1 .. Len(s) /\ j \in 1 .. Len(s)
      BY <1>2, <1>3, <2>1
    <3>2. s[i].age >= s[j].age
      BY <1>3, <3>1 DEF InOrder
    <3> QED
      BY <1>2, <3>1, <3>2
  <2>2. CASE ~(j <= Len(s))
    <3>1. j - Len(s) \in {1, 2} /\ x[j] = t[j - Len(s)]
      BY <1>2, <2>2
    <3>2. x[j].age = 0
      BY <1>1, <3>1
    <3>3. x[i].age \in Nat
      BY <1>2, MessageAge
    <3> QED
      BY <3>2, <3>3
  <2> QED
    BY <2>1, <2>2
<1> QED
  BY <1>2, <1>3 DEF InOrder, t, x

LEMMA TakenOnTheWay ==
  ASSUME NetInv, NEW r \in Responder, net[r] # <<>>, net' = [net EXCEPT ![r] = Tail(@)]
  PROVE  net' \in [Responder -> Seq(Message)] /\ \A q \in Responder : OnTheWay(net'[q])
<1>1. net' = [q \in Responder |-> IF q = r THEN Tail(net[q]) ELSE net[q]]
  BY DEF NetInv
<1>2. OnTheWay(Tail(net[r]))
  BY TailOnTheWay DEF NetInv
<1>3. \A q \in Responder : OnTheWay(net'[q])
  BY <1>1, <1>2 DEF NetInv
<1> QED
  BY <1>1, <1>3 DEF OnTheWay

LEMMA TickSendNet ==
  ASSUME NetInv, PortInv, NEW sent \in BOOLEAN, NEW answering \in SUBSET Responder,
         TickSend(sent, answering)
  PROVE  NetInv'
<1> DEFINE q == (Started.seqId + 1) % SEQ
<1>1. q \in 0 .. SEQ - 1
  <2>1. Started \in Port
    BY StartedSound DEF Sound
  <2>2. Started.seqId \in Nat
    BY <2>1 DEF Port
  <2> QED
    BY <2>2, Constants
<1>2. /\ net' = [r \in Responder |-> IF r \in answering THEN Aged(net[r]) \o Answers(q)
                                     ELSE Aged(net[r])]
      /\ \A r \in Responder : Len(net'[r]) <= MaxNet
      /\ UNCHANGED environment
  BY Zenon DEF TickSend
<1> HIDE DEF q
<1>3. ASSUME NEW r \in Responder PROVE net'[r] \in Seq(Message) /\ InOrder(net'[r])
  <2>1. Aged(net[r]) \in Seq(Message) /\ InOrder(Aged(net[r]))
    BY AgedOnTheWay DEF NetInv
  <2>2. Aged(net[r]) \o Answers(q) \in Seq(Message) /\ InOrder(Aged(net[r]) \o Answers(q))
    BY <1>1, <2>1, AnswersOnTheWay
  <2> QED
    BY <1>2, <2>1, <2>2
<1>4. net' \in [Responder -> Seq(Message)]
  BY <1>2, <1>3
<1> QED
  BY <1>2, <1>3, <1>4 DEF NetInv, OnTheWay, environment

LEMMA NetInit == Init => NetInv
<1> SUFFICES ASSUME Init PROVE NetInv
  OBVIOUS
<1>1. net = [r \in Responder |-> <<>>] /\ <<>> \in Seq(Message) /\ Len(<<>>) = 0
  BY EmptySeq DEF Init
<1>2. OnTheWay(<<>>)
  BY <1>1, NumberAssumption DEF OnTheWay, InOrder
<1> QED
  <2>1. {linkUp, calm} \subseteq BOOLEAN /\ peers \subseteq Responder /\ intfEvents = 0
    BY DEF Init
  <2> QED
    BY <1>1, <1>2, <2>1, NumberAssumption DEF NetInv

LEMMA NetNext == ASSUME NetInv, PortInv, [Next]_vars PROVE NetInv'
<1>1. ASSUME NEW up \in BOOLEAN, IntfChange(up) PROVE NetInv'
  <2>1. intfEvents' \in 0 .. MaxEvents
    BY <1>1, NumberAssumption DEF IntfChange, NetInv
  <2> QED
    BY <1>1, <2>1 DEF IntfChange, NetInv
<1>2. ASSUME NEW ps \in SUBSET Responder, CalmDown(ps) PROVE NetInv'
  <2>1. calm' \in BOOLEAN /\ peers' \subseteq Responder /\ UNCHANGED <<linkUp, intfEvents, net>>
    BY <1>2 DEF CalmDown
  <2>2. {linkUp', calm'} \subseteq BOOLEAN
    BY <2>1, Zenon DEF NetInv
  <2> QED
    BY <2>1, <2>2 DEF NetInv
<1>3. ASSUME NEW r \in Responder, Lose(r) PROVE NetInv'
  BY <1>3, TakenOnTheWay DEF Lose, NetInv, environment
<1>4. ASSUME NEW r \in Responder, RespReceive(r) \/ FollowupReceive(r) PROVE NetInv'
  <2>1. net[r] # <<>> /\ net' = [net EXCEPT ![r] = Tail(@)] /\ UNCHANGED environment
    BY <1>4, Zenon DEF RespReceive, FollowupReceive
  <2> QED
    BY <2>1, TakenOnTheWay DEF NetInv, environment
<1>5. ASSUME NEW seq \in 0 .. SEQ - 1, Overhear(seq) PROVE NetInv'
  BY <1>5 DEF Overhear, NetInv, environment
<1>6. CASE IntfUpdate
  <2>1. intfEvents' \in 0 .. MaxEvents /\ UNCHANGED <<linkUp, peers, net, calm>>
    BY <1>6, NumberAssumption DEF IntfUpdate, NetInv
  <2> QED
    BY <2>1 DEF NetInv
<1>7. CASE IntervalChange \/ TickDisabled \/ TickRunning
  <2>1. UNCHANGED <<environment, net>>
    BY <1>7, Zenon DEF IntervalChange, TickDisabled, TickRunning
  <2> QED
    BY <2>1 DEF NetInv, environment
<1>8. ASSUME NEW sent \in BOOLEAN, NEW answering \in SUBSET Responder,
             TickSend(sent, answering)
      PROVE  NetInv'
  BY <1>8, TickSendNet
<1>9. CASE UNCHANGED vars
  BY <1>9 DEF vars, NetInv
<1> QED
  BY <1>1, <1>2, <1>3, <1>4, <1>5, <1>6, <1>7, <1>8, <1>9 DEF Next, Tick

\* The port's state, its counters and the messages on the way stay in range; none is older
\* than the model's bound, as they arrive in the order of their exchanges.
THEOREM PdelayTypeOK == Spec => []TypeOK
<1>1. NetInv /\ PortInv /\ TimesInv => TypeOK
  BY DEF NetInv, OnTheWay, PortInv, Sound, TimesInv, TypeOK
<1> QED
  BY PdelayInit0, PdelayNext, TimesInit, TimesNext, NetInit, NetNext, <1>1, PTL DEF Spec
=================================================================================
