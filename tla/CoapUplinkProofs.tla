---------------------------- MODULE CoapUplinkProofs ----------------------------
(***************************************************************************)
(* The agent over CoAP keeps what EdgeAgentProofs proves of it over any    *)
(* uplink, and its sockets are opened and closed in pairs, for every       *)
(* number of events, threads, sockets and faults.                          *)
(***************************************************************************)
EXTENDS CoapUplink, EdgeAgentProofs

(* The conn in use is open, the one being dialed is another, and nothing   *)
(* else is open.  Only the prober brings the link up.                      *)
Sockets ==
  /\ conn # None => conn \in open
  /\ connected => conn # None
  /\ open \subseteq {conn} \union (IF probe.at = "dial" THEN {probe.on} ELSE {})
  /\ probe.at \in {"ping", "dial"} => probe.on # None
  /\ probe.at = "dial" => probe.on # conn /\ ~connected

(* A publisher has a conn from its gate on and a POST while it waits; the  *)
(* receiver answers 2.04 for what it has only, and nothing arrives late    *)
(* that nobody posted.                                                     *)
Exchanges ==
  /\ \A t \in Threads :
       /\ pc[t] = "wait" <=> post[t] # "none"
       /\ pc[t] \in {"call", "wait"} => via[t] # None
       /\ pc[t] = "wait" => Head(hand[t]) \in handed
       /\ post[t] = "accepted" => Head(hand[t]) \in delivered
  /\ late \subseteq handed

CoapInv == CoapTypeOK /\ Inv /\ Custody /\ Sockets /\ Exchanges

-----------------------------------------------------------------------------
(* The contract *)

LEMMA AgentSteps ==
  ASSUME NEW t \in Threads, AgentStep(t)
  PROVE  Next
<1> USE DEF Next, HandlerStep, FlusherStep, GaugeStep
<1>1. t \in Handlers /\ Add(t) => Next
  OBVIOUS
<1>2. t \in Flushers /\ (DrainStart(t, TRUE) \/ Rewrite(t, TRUE)) => Next
  OBVIOUS
<1>3. Tick \/ CheckLen(TRUE) => Next
  OBVIOUS
<1>4. Measure(t, TRUE) \/ SetGauge(t) => Next
  OBVIOUS
<1> QED BY <1>1, <1>2, <1>3, <1>4 DEF AgentStep

(* The steps of coap.go and the receiver test nothing of the agent's: that *)
(* who gets a reply is in Publish, and gets nil for an event the broker    *)
(* has, follows from the exchanges, ...                                    *)
LEMMA ReplyEndsWait ==
  ASSUME Exchanges, NEW t \in Threads, PostReplied(t) \/ PostErrReturned(t)
  PROVE  PublishOk(t) \/ PublishErr(t)
<1>1. pc[t] = "wait" /\ (post[t] = "accepted" => Head(hand[t]) \in delivered)
  BY DEF PostReplied, PostErrReturned, Replies, Exchanges
<1>2. CASE PostReplied(t)
  BY <1>1, <1>2 DEF PostReplied, PublishOk, PublishErr
<1>3. CASE PostErrReturned(t)
  BY <1>1, <1>3 DEF PostErrReturned, PublishErr
<1> QED BY <1>2, <1>3

(* ... as does that what takes effect at the receiver was posted.          *)
LEMMA ArrivalsPosted ==
  ASSUME Exchanges
  PROVE  /\ \A t \in Threads : ReceiverAnswers(t) => Deliver(Head(hand[t])) \/ UNCHANGED vars
         /\ \A e \in Events : ArriveLate(e) => Deliver(e)
BY DEF Exchanges, ReceiverAnswers, ArriveLate, Deliver

LEMMA DialsComeUp ==
  ASSUME NEW f \in Reconnects, DialOk(f)
  PROVE  LinkUp(f) \/ UNCHANGED vars
BY DEF DialOk, MarkedUp, LinkUp

(* Every step over CoAP is one the agent may take over any uplink.         *)
LEMMA StepKeepsContract == CoapTypeOK /\ Exchanges /\ [CoapNext]_coapVars => [Next]_vars
<1> SUFFICES ASSUME CoapTypeOK, Exchanges, [CoapNext]_coapVars PROVE Next \/ UNCHANGED vars
  OBVIOUS
<1>1. handed \subseteq Events
  BY DEF CoapTypeOK, TypeOK
<1>2. /\ \A e \in Events : Deliver(e) => Next
      /\ \A h \in Handlers, e \in Events : Take(h, e) => Next
      /\ \A f \in Reconnects : LinkUp(f) => Next
      /\ LinkDown \/ Restart => Next
      /\ \A t \in Threads : PublishStep(t) => Next
  BY DEF Next, HandlerStep
<1>3. \A e : Deliver(e) => Next
  BY <1>1, <1>2 DEF Deliver
<1>4. \A k : MarkDown(k) => Next
  BY <1>2 DEF MarkDown
<1>5. ASSUME NEW h \in Handlers, Reading(h) PROVE Next
  BY <1>2, <1>5 DEF Reading
<1>6. ASSUME NEW t \in Threads, Working(t) PROVE Next
  <2>1. Gate(t) \/ Call(t) \/ PublishOk(t) \/ PublishErr(t) => Next
    BY <1>2 DEF PublishStep
  <2> QED
    BY <1>4, <1>6, <2>1, AgentSteps, ReplyEndsWait DEF Working, CoapGate, CoapCall, PostFailed
<1>7. ASSUME NEW t \in Threads, ReceiverAnswers(t) \/ ReceiverUnavailable(t)
      PROVE  Next \/ UNCHANGED vars
  BY <1>3, <1>7, ArrivalsPosted DEF ReceiverUnavailable
<1>8. ASSUME NEW e \in Events, ArriveLate(e) PROVE Next
  BY <1>3, <1>8, ArrivalsPosted
<1>9. CASE Probing
  BY <1>2, <1>4, <1>9, DialsComeUp DEF Probing, ProbeTick, PingOk, PingFailed, DialFailed, ProbeStops
<1>10. CASE Timeout
  BY <1>4, <1>10 DEF Timeout, PostFailed, PingFailed, DialFailed
<1>11. CASE Close \/ PathDown \/ PathUp \/ CoapRestart
  BY <1>2, <1>11 DEF Close, PathDown, PathUp, CoapRestart
<1>12. CASE UNCHANGED coapVars
  BY <1>12 DEF coapVars
<1> QED BY <1>5, <1>6, <1>7, <1>8, <1>9, <1>10, <1>11, <1>12 DEF CoapNext

-----------------------------------------------------------------------------
(* What moves and what does not *)

(* A goroutine that moves by itself is neither in a POST nor about to      *)
(* send one, and leaves the others alone.                                  *)
Alone(t) ==
  \/ AgentStep(t)
  \/ t \in Handlers /\ \E e \in Events : Take(t, e)
  \/ LinkUp(t)

LEMMA AloneLeaves ==
  ASSUME TypeOK, NEW t \in Threads, Alone(t)
  PROVE  /\ UNCHANGED <<handed, delivered>>
         /\ pc[t] \notin {"call", "wait"} /\ pc'[t] \notin {"call", "wait"}
         /\ \A u \in Threads : u # t => pc'[u] = pc[u] /\ hand'[u] = hand[u]
<1> USE DEF TypeOK, Goto, linkVars
<1>1. CASE t \in Handlers /\ (Add(t) \/ \E e \in Events : Take(t, e))
  BY <1>1 DEF Add, Take
<1>2. CASE DrainStart(t, TRUE) \/ Rewrite(t, TRUE)
  BY <1>2 DEF DrainStart, Rewrite
<1>3. CASE t = Periodic /\ (Tick \/ CheckLen(TRUE))
  BY <1>3 DEF Tick, CheckLen
<1>4. CASE Measure(t, TRUE) \/ SetGauge(t) \/ LinkUp(t)
  BY <1>4 DEF Measure, SetGauge, LinkUp, ComesUp
<1> QED BY <1>1, <1>2, <1>3, <1>4 DEF Alone, AgentStep

(* ... and only LinkUp has to do with the link.                            *)
LEMMA AgentStepLink ==
  ASSUME NEW t \in Threads, AgentStep(t) \/ \E e \in Events : Take(t, e)
  PROVE  connected' = connected
BY DEF AgentStep, Add, DrainStart, Rewrite, Tick, CheckLen, Measure, SetGauge, Take, linkVars

(* The lowest unused socket is unused.                                     *)
LEMMA FreshConn ==
  ASSUME Unused # {}
  PROVE  (CHOOSE i \in Unused : \A j \in Unused : i <= j) \in Unused
<1>1. Unused \subseteq Nat
  BY CoapAssumption DEF Unused
<1>2. \E i \in Unused : \A j \in Unused : i <= j
  BY <1>1, LeastNumber
<1> QED BY <1>2

(* A tick that dials opens a socket that is neither in use nor open.       *)
LEMMA TickDials ==
  ASSUME ProbeTick, ~connected
  PROVE  \E k \in Conns \ {conn} :
           open' = open \union {k} /\ probe' = [at |-> "dial", on |-> k] /\ recent' = recent
<1>1. Unused \subseteq Conns \ {conn}
  BY DEF Unused
<1> QED BY <1>1, FreshConn DEF ProbeTick

-----------------------------------------------------------------------------
(* Types *)

LEMMA CoapTypes ==
  ASSUME CoapInv, TypeOK', [CoapNext]_coapVars
  PROVE  CoapTypeOK'
<1> USE CoapAssumption
        DEF CoapInv, CoapTypeOK, linkState, exchanges, world, Replies, NotProbing
<1>1. Fault => faults' \in 0..MaxFaults
  BY DEF Fault
<1>2. \A t \in Threads : post[t] # "none" => Head(hand[t]) \in Events
  BY DEF Exchanges, TypeOK
<1> DEFINE Probes == [at : {"idle", "ping", "dial", "stopped"}, on : Conns \union {None}]
<1>0. /\ \A k \in Conns \union {None} :
           [at |-> "ping", on |-> k] \in Probes /\ [at |-> "dial", on |-> k] \in Probes
      /\ NotProbing \in Probes /\ [NotProbing EXCEPT !.at = "stopped"] \in Probes
  OBVIOUS
<1>3. ASSUME NEW h \in Handlers, Reading(h) PROVE CoapTypeOK'
  BY <1>3 DEF Reading
<1>4. ASSUME NEW t \in Threads, Working(t) PROVE CoapTypeOK'
  <2>1. CASE AgentStep(t) /\ UNCHANGED <<linkState, exchanges, probe, closing, world>>
    BY <2>1
  <2>2. CASE CoapGate(t) \/ CoapCall(t)
    BY <2>2 DEF CoapGate, CoapCall
  <2>3. CASE PostReplied(t) \/ PostErrReturned(t)
    BY <2>3 DEF PostReplied, PostErrReturned
  <2>4. CASE PostFailed(t) /\ UNCHANGED faults
    BY <1>2, <2>4 DEF PostFailed, MarkDown
  <2> QED BY <1>4, <2>1, <2>2, <2>3, <2>4 DEF Working
<1>5. ASSUME NEW t \in Threads, ReceiverAnswers(t) \/ ReceiverUnavailable(t) PROVE CoapTypeOK'
  BY <1>1, <1>2, <1>5 DEF ReceiverAnswers, ReceiverUnavailable
<1>6. ASSUME NEW e \in Events, ArriveLate(e) PROVE CoapTypeOK'
  BY <1>6 DEF ArriveLate
<1>7. CASE ProbeTick
  <2>1. CASE connected
    <3>1. probe' \in Probes /\ recent' \in BOOLEAN /\ open' = open
      BY <1>0, <1>7, <2>1 DEF ProbeTick
    <3> QED BY <1>7, <3>1 DEF ProbeTick
  <2>2. CASE ~connected
    <3>1. probe' \in Probes /\ recent' = recent /\ open' \subseteq Conns
      BY <1>0, <1>7, <2>2, TickDials
    <3> QED BY <1>7, <3>1 DEF ProbeTick
  <2> QED BY <2>1, <2>2
<1>8. CASE PingOk \/ (DialFailed /\ (Fault \/ UNCHANGED faults)) \/ ProbeStops
  <2>1. probe' \in Probes
    BY <1>0, <1>8 DEF PingOk, DialFailed, ProbeStops
  <2> QED BY <1>1, <1>8, <2>1 DEF PingOk, DialFailed, ProbeStops
<1>9. CASE PingFailed /\ (Fault \/ UNCHANGED faults)
  BY <1>1, <1>9 DEF PingFailed, MarkDown
<1>10. ASSUME NEW f \in Reconnects, DialOk(f) PROVE CoapTypeOK'
  BY <1>10 DEF DialOk
<1>11. ASSUME NEW t \in Threads, PostFailed(t), Fault PROVE CoapTypeOK'
  BY <1>1, <1>2, <1>11 DEF PostFailed, MarkDown
<1>12. CASE Close \/ PathDown \/ PathUp
  BY <1>1, <1>12 DEF Close, PathDown, PathUp
<1>13. CASE CoapRestart
  <2>1. late' \subseteq Events
    BY <1>2, <1>13 DEF CoapRestart
  <2> QED BY <1>1, <1>13, <2>1 DEF CoapRestart
<1>14. CASE UNCHANGED coapVars
  BY <1>14 DEF coapVars
<1> HIDE DEF CoapInv, CoapTypeOK, linkState, exchanges, world, Replies, NotProbing
<1>15. CASE Probing
  BY <1>7, <1>8, <1>9, <1>10, <1>15 DEF Probing
<1>16. CASE Timeout
  BY <1>8, <1>9, <1>11, <1>16 DEF Timeout
<1> QED
  BY <1>3, <1>4, <1>5, <1>6, <1>12, <1>13, <1>14, <1>15, <1>16 DEF CoapNext

-----------------------------------------------------------------------------
(* Sockets *)

LEMMA SocketsNext ==
  ASSUME CoapInv, [CoapNext]_coapVars
  PROVE  Sockets'
<1> USE CoapAssumption DEF CoapInv, CoapTypeOK, Sockets, linkState, world, NotProbing
<1>1. ASSUME NEW k, MarkDown(k), probe' \in {probe, NotProbing},
             probe' # probe => probe.at = "ping"
      PROVE  Sockets'
  <2>1. ~connected'
    BY <1>1 DEF MarkDown, LinkDown
  <2>2. \/ conn # k /\ conn' = conn /\ open' = open
        \/ conn = k /\ conn' = None /\ open' = open \ {k}
    BY <1>1 DEF MarkDown
  <2>3. CASE probe' = probe
    BY <2>1, <2>2, <2>3
  <2>4. CASE probe' = NotProbing /\ probe.at = "ping"
    BY <2>1, <2>2, <2>4
  <2> QED BY <1>1, <2>3, <2>4
<1>2. CASE UNCHANGED <<conn, open, connected>> /\ probe' \in {probe, NotProbing}
           /\ (probe' # probe => probe.at = "ping")
  BY <1>2
<1>3. ASSUME NEW h \in Handlers, Reading(h) PROVE Sockets'
  BY <1>2, <1>3, AgentStepLink DEF Reading, Threads
<1>4. ASSUME NEW t \in Threads, Working(t) PROVE Sockets'
  <2>1. CASE AgentStep(t) /\ UNCHANGED <<linkState, exchanges, probe, closing, world>>
    BY <1>2, <2>1, AgentStepLink
  <2>2. CASE CoapGate(t) \/ CoapCall(t) \/ PostReplied(t) \/ PostErrReturned(t)
    BY <1>2, <2>2
    DEF CoapGate, CoapCall, PostReplied, PostErrReturned, Gate, Call, ReturnsNil, ReturnsError,
        linkVars
  <2>3. CASE PostFailed(t)
    BY <1>1, <2>3 DEF PostFailed
  <2> QED BY <1>4, <2>1, <2>2, <2>3 DEF Working
<1>5. ASSUME NEW t \in Threads, ReceiverAnswers(t) \/ ReceiverUnavailable(t) PROVE Sockets'
  BY <1>2, <1>5 DEF ReceiverAnswers, ReceiverUnavailable, Arrives, vars, linkVars
<1>6. ASSUME NEW e \in Events, ArriveLate(e) PROVE Sockets'
  BY <1>2, <1>6 DEF ArriveLate, Arrives
<1>7. CASE ProbeTick
  <2>1. CASE connected
    BY <1>7, <2>1 DEF ProbeTick, vars, linkVars
  <2>2. CASE ~connected
    <3>1. PICK k \in Conns \ {conn} : open' = open \union {k} /\ probe' = [at |-> "dial", on |-> k]
      BY <1>7, <2>2, TickDials
    <3>2. conn' = conn /\ connected' = connected /\ probe.at = "idle" /\ k # None
      BY <1>7 DEF ProbeTick, vars, linkVars
    <3> QED BY <2>2, <3>1, <3>2
  <2> QED BY <2>1, <2>2
<1>8. CASE PingOk \/ ProbeStops
  BY <1>8 DEF PingOk, ProbeStops, vars, linkVars
<1>9. CASE DialFailed
  BY <1>9 DEF DialFailed, vars, linkVars
<1>10. CASE PingFailed
  BY <1>1, <1>10 DEF PingFailed
<1>11. ASSUME NEW f \in Reconnects, DialOk(f) PROVE Sockets'
  BY <1>11 DEF DialOk, MarkedUp, ComesUp, Hopeless, vars, linkVars
<1>12. ASSUME NEW t \in Threads, PostFailed(t) PROVE Sockets'
  BY <1>1, <1>12 DEF PostFailed
<1>13. CASE Close
  BY <1>13 DEF Close, LinkDown
<1>14. CASE PathDown \/ PathUp \/ UNCHANGED coapVars
  BY <1>2, <1>14 DEF PathDown, PathUp, coapVars, vars, linkVars
<1>15. CASE CoapRestart
  BY <1>15 DEF CoapRestart, Restart
<1> QED
  BY <1>3, <1>4, <1>5, <1>6, <1>7, <1>8, <1>9, <1>10, <1>11, <1>12, <1>13, <1>14, <1>15
  DEF CoapNext, Probing, Timeout

-----------------------------------------------------------------------------
(* Exchanges *)

LEMMA ExchangesAlone ==
  ASSUME CoapInv, NEW t \in Threads, Alone(t), UNCHANGED exchanges
  PROVE  Exchanges'
<1>1. /\ UNCHANGED <<handed, delivered>>
      /\ pc[t] \notin {"call", "wait"} /\ pc'[t] \notin {"call", "wait"}
      /\ \A u \in Threads : u # t => pc'[u] = pc[u] /\ hand'[u] = hand[u]
  BY AloneLeaves DEF CoapInv, CoapTypeOK
<1> QED BY <1>1 DEF CoapInv, Exchanges, exchanges

LEMMA ExchangesWorking ==
  ASSUME CoapInv, NEW t \in Threads,
         Working(t) \/ ReceiverAnswers(t) \/ ReceiverUnavailable(t) \/ PostFailed(t)
  PROVE  Exchanges'
<1> USE CoapAssumption DEF Goto, linkVars
<1>1. CASE AgentStep(t) /\ UNCHANGED <<linkState, exchanges, probe, closing, world>>
  BY <1>1, ExchangesAlone DEF Alone
<1>2. CASE CoapGate(t)
  <2>1. conn # None \/ ~connected
    BY DEF CoapInv, Sockets
  <2>2. /\ UNCHANGED <<hand, handed, delivered, post, late>>
        /\ pc[t] = "gate" /\ pc'[t] # "wait" /\ (pc'[t] = "call" => via'[t] # None)
        /\ \A u \in Threads : u # t => pc'[u] = pc[u] /\ via'[u] = via[u]
    BY <1>2, <2>1 DEF CoapGate, Gate, PublishFailed, CoapInv, CoapTypeOK, TypeOK
  <2> QED BY <2>2 DEF CoapInv, Exchanges
<1>3. CASE CoapCall(t)
  <2>1. /\ UNCHANGED <<hand, delivered, via, late>> /\ handed' = handed \union {Head(hand[t])}
        /\ pc[t] = "call" /\ pc'[t] = "wait" /\ post'[t] = "sent"
        /\ \A u \in Threads : u # t => pc'[u] = pc[u] /\ post'[u] = post[u]
    BY <1>3 DEF CoapCall, Call, CoapInv, CoapTypeOK, TypeOK
  <2> QED BY <2>1 DEF CoapInv, Exchanges
<1>4. CASE PostReplied(t) \/ PostErrReturned(t)
  <2>1. /\ UNCHANGED <<handed, delivered, late>>
        /\ pc'[t] \notin {"call", "wait"} /\ post'[t] = "none"
        /\ \A u \in Threads : u # t => /\ pc'[u] = pc[u] /\ hand'[u] = hand[u]
                                       /\ via'[u] = via[u] /\ post'[u] = post[u]
    BY <1>4
    DEF PostReplied, PostErrReturned, ReturnsNil, ReturnsError, PublishFailed, CoapInv, CoapTypeOK,
        TypeOK
  <2> QED BY <2>1 DEF CoapInv, Exchanges
<1>5. CASE ReceiverAnswers(t) \/ ReceiverUnavailable(t) \/ PostFailed(t)
  <2>1. /\ UNCHANGED <<pc, hand, handed, via>> /\ delivered \subseteq delivered'
        /\ \A u \in Threads : u # t => post'[u] = post[u]
        /\ post[t] # "none" /\ post'[t] # "none"
        /\ post'[t] = "accepted" => Head(hand[t]) \in delivered'
        /\ late' \subseteq late \union {Head(hand[t])}
    BY <1>5
    DEF ReceiverAnswers, ReceiverUnavailable, PostFailed, MarkDown, LinkDown, Arrives, threadVars,
        vars, Replies, CoapInv, CoapTypeOK
  <2> QED BY <2>1 DEF CoapInv, Exchanges
<1> QED BY <1>1, <1>2, <1>3, <1>4, <1>5 DEF Working

LEMMA ExchangesNext ==
  ASSUME CoapInv, [CoapNext]_coapVars
  PROVE  Exchanges'
<1> USE DEF exchanges
<1>1. CASE UNCHANGED <<pc, hand, handed, exchanges>> /\ delivered \subseteq delivered'
  BY <1>1 DEF CoapInv, Exchanges
<1>2. ASSUME NEW h \in Handlers, Reading(h) PROVE Exchanges'
  BY <1>2, ExchangesAlone DEF Reading, Alone, Threads
<1>3. ASSUME NEW e \in Events, ArriveLate(e) PROVE Exchanges'
  BY <1>3 DEF ArriveLate, Arrives, threadVars, CoapInv, Exchanges
<1>4. CASE ProbeTick \/ PingOk \/ DialFailed \/ ProbeStops \/ PathDown \/ PathUp \/ UNCHANGED coapVars
  BY <1>1, <1>4
  DEF ProbeTick, PingOk, DialFailed, ProbeStops, PathDown, PathUp, coapVars, vars, threadVars, linkVars
<1>5. CASE PingFailed \/ Close
  BY <1>1, <1>5 DEF PingFailed, Close, MarkDown, LinkDown, threadVars
<1>6. ASSUME NEW f \in Reconnects, DialOk(f) PROVE Exchanges'
  <2>1. CASE LinkUp(f)
    BY <1>6, <2>1, ExchangesAlone DEF DialOk, Alone, Threads, Flushers
  <2>2. CASE UNCHANGED vars
    BY <1>1, <1>6, <2>2 DEF DialOk, vars, threadVars, linkVars
  <2> QED BY <1>6, <2>1, <2>2, DialsComeUp
<1>7. CASE CoapRestart
  <2>1. \A t \in Threads : post[t] = "sent" => Head(hand[t]) \in handed
    BY DEF CoapInv, Exchanges
  <2>2. late' \subseteq handed
    BY <1>7, <2>1 DEF CoapRestart, CoapInv, Exchanges
  <2>3. \A t \in Threads : pc'[t] = "idle" /\ post'[t] = "none"
    BY <1>7 DEF CoapRestart, Restart
  <2>4. handed' = handed
    BY <1>7 DEF CoapRestart, Restart
  <2> QED BY <2>2, <2>3, <2>4 DEF Exchanges
<1> QED
  BY <1>2, <1>3, <1>4, <1>5, <1>6, <1>7, ExchangesWorking
  DEF CoapNext, Probing, Timeout

-----------------------------------------------------------------------------
(* The invariant and the theorems *)

LEMMA CoapInvInit == CoapInit => CoapInv
<1> SUFFICES ASSUME CoapInit PROVE CoapInv
  OBVIOUS
<1> USE CoapAssumption DEF CoapInit, CoapAssumption
<1>1. Inv /\ Custody
  BY InvInit, CustodyInit
<1>2. CoapTypeOK
  <2>1. TypeOK
    BY <1>1 DEF Inv
  <2>2. probe \in [at : {"idle", "ping", "dial", "stopped"}, on : Conns \union {None}]
    BY DEF NotProbing
  <2>3. via \in [Threads -> Conns \union {None}]
        /\ post \in [Threads -> Replies \union {"none", "sent", "failed"}]
    OBVIOUS
  <2>4. conn \in Conns \union {None} /\ open \subseteq Conns /\ late \subseteq Events
    BY Zenon
  <2>5. recent \in BOOLEAN /\ closing \in BOOLEAN /\ reachable \in BOOLEAN
    BY Zenon
  <2>6. faults \in 0..MaxFaults
    BY CoapAssumption, SMT
  <2> QED BY <2>1, <2>2, <2>3, <2>4, <2>5, <2>6 DEF CoapTypeOK
<1>3. Sockets
  BY DEF Sockets, Init, NotProbing
<1>4. Exchanges
  BY DEF Exchanges, Init
<1> QED BY <1>1, <1>2, <1>3, <1>4 DEF CoapInv

LEMMA CoapInvNext == CoapInv /\ [CoapNext]_coapVars => CoapInv'
<1> SUFFICES ASSUME CoapInv, [CoapNext]_coapVars PROVE CoapInv'
  OBVIOUS
<1>1. Inv' /\ Custody'
  BY StepKeepsContract, InvNext, CustodyNext DEF CoapInv
<1>2. CoapTypeOK'
  BY <1>1, CoapTypes DEF Inv
<1>3. Sockets' /\ Exchanges'
  BY SocketsNext, ExchangesNext
<1> QED BY <1>1, <1>2, <1>3 DEF CoapInv

(* The link state, its sockets and the POSTs under way stay in step.       *)
THEOREM CoapInvariant == CoapSpec => []CoapInv
BY CoapInvInit, CoapInvNext, PTL DEF CoapSpec

(* coap.go keeps the contract of uplink.go:22-36 in whatever order         *)
(* timeouts, late replies, probes and Close come: Publish returns nil only *)
(* to a goroutine that waits, and for an event the receiver's broker has;  *)
(* what arrives late was posted.  The steps do not test any of it: it      *)
(* follows from Exchanges.                                                 *)
THEOREM CoapKeepsContract == CoapSpec => Contract
<1>1. CoapInit => Init
  BY DEF CoapInit
<1>2. CoapInv /\ [CoapNext]_coapVars => [Next]_vars
  BY StepKeepsContract DEF CoapInv
<1> QED BY <1>1, <1>2, CoapInvariant, PTL DEF CoapSpec, Contract, Spec

(* ... so that over CoAP, too, no event is without a place, none has two,  *)
(* and the agent keeps the promise of StoreForward.                        *)
THEOREM CoapKeepsPromise == CoapSpec => Promised /\ []Accounted /\ []OnePlace
BY CoapKeepsContract, AgentImplementsPromise, NoneUnaccounted, NeverInTwoPlaces, PTL DEF Contract

(* A link that is up has an open conn, and every open socket is the one in *)
(* use or the one being probed: markDown, markUp and Close between them    *)
(* leak none and close none twice.                                         *)
THEOREM CoapSocketsInUse == CoapSpec => []SocketsInUse
<1>1. CoapInv => SocketsInUse
  BY DEF CoapInv, Sockets, SocketsInUse
<1> QED BY <1>1, CoapInvariant, PTL

(* A goroutine is in Publish as long as its POST is out, with a conn and   *)
(* with an event it handed over; the receiver has what it answered 2.04,   *)
(* and whatever may still arrive late was posted.  A dial in progress      *)
(* finds the link down when it ends, so that its markUp is an edge.        *)
ExchangesMatch ==
  /\ \A t \in Threads :
       /\ post[t] # "none" <=> pc[t] = "wait"
       /\ post[t] # "none" => via[t] # None /\ Head(hand[t]) \in handed
       /\ post[t] = "accepted" => Head(hand[t]) \in delivered
  /\ late \subseteq handed
  /\ probe.at = "dial" => ~connected

(* A POST that failed, was refused or timed out (coap.go:82-98) leaves     *)
(* nothing that a later publish of the same goroutine could take for its   *)
(* own reply.                                                              *)
THEOREM CoapExchangesMatch == CoapSpec => []ExchangesMatch
<1>1. CoapInv => ExchangesMatch
  BY DEF CoapInv, Exchanges, Sockets, ExchangesMatch
<1> QED BY <1>1, CoapInvariant, PTL
=============================================================================
