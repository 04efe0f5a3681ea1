---------------------------- MODULE MqttUplinkProofs ----------------------------
(***************************************************************************)
(* The agent over paho's client keeps what EdgeAgentProofs proves of it    *)
(* over any uplink, and publishes each event once as long as nothing goes  *)
(* wrong, for every number of events, handlers, reconnects, packet ids and *)
(* faults.                                                                 *)
(***************************************************************************)
EXTENDS MqttUplink, EdgeAgentProofs

(* Who waits has a publish in the store, under a token of its own, and     *)
(* what the broker acknowledges it has.                                    *)
Tokens ==
  /\ \A t \in Threads :
       IF pc[t] = "wait"
         THEN \E m \in store : m.id = tok[t] /\ m.ev = Head(hand[t])
         ELSE tok[t] = None
  /\ \A t, u \in Threads : tok[t] = tok[u] /\ tok[t] # None => t = u
  /\ \A m, n \in store : m.id = n.id => m = n
  /\ \A m \in store : /\ m.ev \in handed
                      /\ m.phase = "received" => m.ev \in delivered

(* An event that is still to be published was never handed over: not the   *)
(* one a handler holds, not what a drain has before it, and nothing in the *)
(* file while nobody drains it.                                            *)
Unpublished ==
  /\ \A h \in Handlers, e \in Events :
       pc[h] \in {"gate", "call", "add"} /\ hand[h] = <<e>> => e \notin handed
  /\ \A f \in Flushers : Draining(f) =>
       \A i \in 1..Len(hand[f]) : hand[f][i] \in handed => pc[f] = "wait" /\ i = 1
  /\ lock = None => \A i \in 1..Len(file) : file[i] \notin handed

(* An event is in the store once, and the broker receives it once.         *)
StoredOnce ==
  /\ \A m, n \in store : m.ev = n.ev => m = n
  /\ \A m \in store : m.phase = "queued" => copies[m.ev] = 0
  /\ \A e \in Events : copies[e] <= 1 /\ (copies[e] = 1 => e \in handed)

(* The connection, once it is there, is not lost under a publish.          *)
PublishesConnected == \A t \in Threads : pc[t] \in {"call", "wait"} => connected

(* So it is as long as nothing went wrong.                                 *)
NothingWrong ==
  faults = 0 =>
    /\ PublishesConnected
    /\ Unpublished
    /\ StoredOnce

MqttInv == MqttTypeOK /\ Inv /\ Custody /\ Tokens /\ NothingWrong
-----------------------------------------------------------------------------
(* The contract *)

(* What a goroutine does by itself is a step of the agent.                 *)
LEMMA GoroutineSteps ==
  ASSUME NEW t \in Threads
  PROVE  AgentStep(t) \/ DiskError(t) => Next
<1> USE DEF Next, HandlerStep, FlusherStep, PublishStep, GaugeStep
<1>1. t \in Handlers => (Add(t) => Next) /\ (AddFails(t) => Next)
  OBVIOUS
<1>2. ASSUME t \in Flushers, NEW b \in BOOLEAN PROVE DrainStart(t, b) \/ Rewrite(t, b) => Next
  BY <1>2
<1>3. ASSUME NEW b \in BOOLEAN PROVE CheckLen(b) \/ Measure(t, b) => Next
  BY <1>3
<1>4. Gate(t) \/ SetGauge(t) \/ Tick => Next
  OBVIOUS
<1> QED BY <1>1, <1>2, <1>3, <1>4 DEF AgentStep, DiskError

(* The steps of paho and the broker test nothing of the agent's: that the  *)
(* goroutine whose token a PUBACK completes still waits, for the event     *)
(* that was acknowledged, follows from the tokens, ...                     *)
LEMMA AckEndsWait ==
  ASSUME MqttTypeOK, Tokens, NEW m \in store, PubAck(m)
  PROVE  \/ \E t \in Threads : /\ tok[t] = m.id /\ PublishOk(t)
                                /\ tok' = [tok EXCEPT ![t] = None]
         \/ UNCHANGED <<vars, tok>> /\ ~\E t \in Threads : tok[t] = m.id
<1>1. m.id # None /\ m.ev \in delivered
  BY MqttAssumption DEF MqttTypeOK, Publishes, PubAck, Tokens
<1>2. ASSUME NEW t \in Threads, tok[t] = m.id, ReturnsNil(t)
      PROVE  PublishOk(t)
  <2>1. pc[t] = "wait"
    BY <1>1, <1>2 DEF Tokens
  <2>2. PICK n \in store : n.id = tok[t] /\ n.ev = Head(hand[t])
    BY <2>1 DEF Tokens
  <2>3. n = m
    BY <1>2, <2>2 DEF Tokens
  <2> QED BY <1>1, <1>2, <2>1, <2>2, <2>3 DEF PublishOk
<1> QED BY <1>2 DEF PubAck

(* ... as does that the goroutine whose timer fires is in Publish, ...     *)
LEMMA GiveUpEndsWait ==
  ASSUME Tokens, NEW t \in Threads, GiveUp(t)
  PROVE  PublishErr(t)
<1>1. pc[t] = "wait"
  BY DEF GiveUp, Tokens
<1> QED BY <1>1 DEF GiveUp, PublishErr

(* ... and that what the broker takes was published.                       *)
LEMMA ReceivesPublished ==
  ASSUME MqttTypeOK, Tokens, NEW m \in store, BrokerReceive(m)
  PROVE  m.ev \in Events /\ Deliver(m.ev)
BY DEF BrokerReceive, Deliver, Tokens, MqttTypeOK, Publishes

(* Every step over paho is one the agent may take over any uplink.         *)
LEMMA StepKeepsContract == MqttTypeOK /\ Tokens /\ [MqttNext]_mqttVars => [Next]_vars
<1> SUFFICES ASSUME MqttTypeOK, Tokens, [MqttNext]_mqttVars PROVE Next \/ UNCHANGED vars
  OBVIOUS
<1> USE DEF Next
<1>1. ASSUME NEW h \in Handlers, Reading(h) PROVE Next
  BY <1>1 DEF Reading, HandlerStep
<1>2. ASSUME NEW t \in Threads, Working(t) \/ TimeoutOnline(t) \/ DiskError(t) PROVE Next
  <2>1. Call(t) \/ PublishErr(t) => Next
    BY DEF PublishStep
  <2> QED
    BY <1>2, <2>1, GoroutineSteps, GiveUpEndsWait
    DEF Working, MqttCall, TimeoutOffline, TimeoutOnline
<1>3. ASSUME NEW m \in store, BrokerReceive(m) PROVE \E e \in Events : Deliver(e)
  BY <1>3, ReceivesPublished
<1>4. ASSUME NEW m \in store, PubAck(m) PROVE Next \/ UNCHANGED vars
  BY <1>4, AckEndsWait DEF PublishStep
<1>5. ConnectionLost \/ ReconnectDeaf \/ MqttRestart => Next
  BY DEF ConnectionLost, ReconnectDeaf, MqttRestart
<1>6. ASSUME NEW f \in Reconnects, Reconnect(f) PROVE Next
  BY <1>6 DEF Reconnect
<1>7. UNCHANGED mqttVars => UNCHANGED vars
  BY DEF mqttVars
<1> QED BY <1>1, <1>2, <1>3, <1>4, <1>5, <1>6, <1>7 DEF MqttNext

-----------------------------------------------------------------------------
(* Types *)

LEMMA FreshId ==
  ASSUME FreeIds # {}
  PROVE  (CHOOSE i \in FreeIds : \A j \in FreeIds : i <= j) \in FreeIds
<1>1. FreeIds \subseteq Nat
  BY MqttAssumption DEF FreeIds
<1>2. \E i \in FreeIds : \A j \in FreeIds : i <= j
  BY <1>1, LeastNumber
<1> QED BY <1>2

(* A publish enters the store under an id nothing there has.               *)
LEMMA CallStores ==
  ASSUME Inv, NEW t \in Threads, MqttCall(t)
  PROVE  \E k \in FreeIds :
           /\ store' = store \union {[id |-> k, ev |-> Head(hand[t]), phase |-> "queued"]}
           /\ tok' = [tok EXCEPT ![t] = k]
           /\ Head(hand[t]) \in Events
<1>1. Head(hand[t]) \in Events
  BY SomethingToPublish DEF MqttCall, Call
<1> QED BY <1>1, FreshId DEF MqttCall

LEMMA MqttTypes ==
  ASSUME MqttTypeOK, Inv, TypeOK', [MqttNext]_mqttVars
  PROVE  MqttTypeOK'
<1> USE MqttAssumption DEF MqttTypeOK
<1> DEFINE Types == /\ store' \subseteq Publishes
                    /\ tok' \in [Threads -> PacketIds \union {None}]
                    /\ copies' \in [Events -> 0..MaxCopies]
                    /\ faults' \in 0..MaxFaults
<1>1. Fault => faults' \in 0..MaxFaults
  BY DEF Fault
<1>2. ASSUME NEW t \in Threads, MqttCall(t) PROVE Types
  <2>1. PICK k \in FreeIds :
          /\ store' = store \union {[id |-> k, ev |-> Head(hand[t]), phase |-> "queued"]}
          /\ tok' = [tok EXCEPT ![t] = k]
          /\ Head(hand[t]) \in Events
    BY <1>2, CallStores
  <2>2. [id |-> k, ev |-> Head(hand[t]), phase |-> "queued"] \in Publishes
    BY <2>1 DEF Publishes, FreeIds
  <2> QED BY <1>2, <2>1, <2>2 DEF MqttCall, FreeIds
<1>3. ASSUME NEW t \in Threads, TimeoutOffline(t) \/ TimeoutOnline(t) PROVE Types
  BY <1>1, <1>3 DEF TimeoutOffline, TimeoutOnline, GiveUp
<1>4. ASSUME NEW m \in store, BrokerReceive(m) PROVE Types
  <2>1. [m EXCEPT !.phase = "received"] \in Publishes /\ m.ev \in Events
    BY DEF Publishes
  <2>2. copies' \in [Events -> 0..MaxCopies]
    BY <1>4, <2>1 DEF BrokerReceive
  <2> QED BY <1>4, <2>1, <2>2 DEF BrokerReceive
<1>5. ASSUME NEW m \in store, PubAck(m) PROVE Types
  BY <1>5 DEF PubAck
<1>6. CASE ConnectionLost
  <2>1. \A m \in store : [m EXCEPT !.phase = "queued"] \in Publishes
    BY DEF Publishes
  <2> QED BY <1>1, <1>6, <2>1 DEF ConnectionLost
<1>7. CASE ReconnectDeaf \/ MqttRestart
  BY <1>1, <1>7 DEF ReconnectDeaf, MqttRestart
<1>8. CASE UNCHANGED <<store, tok, copies>> /\ (Fault \/ UNCHANGED faults)
  BY <1>1, <1>8
<1>9. Types
  BY <1>2, <1>3, <1>4, <1>5, <1>6, <1>7, <1>8
  DEF MqttNext, Reading, Working, Reconnect, mqttVars
<1> QED BY <1>9

-----------------------------------------------------------------------------
(* Tokens *)

(* A goroutine of the agent that moves by itself neither starts nor ends a *)
(* publish, and leaves the others alone.                                   *)
Alone(t) ==
  \/ AgentStep(t)
  \/ DiskError(t)
  \/ t \in Handlers /\ \E e \in Events : Take(t, e)
  \/ LinkUp(t)

LEMMA AloneLeaves ==
  ASSUME TypeOK, NEW t \in Threads, Alone(t)
  PROVE  /\ UNCHANGED <<handed, delivered>>
         /\ pc[t] # "wait" /\ pc'[t] # "wait"
         /\ \A u \in Threads : u # t => pc'[u] = pc[u] /\ hand'[u] = hand[u]
<1> USE DEF TypeOK, Goto, linkVars
<1>1. CASE t \in Handlers /\ (Add(t) \/ AddFails(t) \/ \E e \in Events : Take(t, e))
  BY <1>1 DEF Add, AddFails, Take
<1>2. ASSUME NEW b \in BOOLEAN, DrainStart(t, b) \/ Rewrite(t, b)
      PROVE  /\ UNCHANGED <<handed, delivered>>
             /\ pc[t] # "wait" /\ pc'[t] # "wait"
             /\ \A u \in Threads : u # t => pc'[u] = pc[u] /\ hand'[u] = hand[u]
  BY <1>2 DEF DrainStart, Rewrite
<1>3. ASSUME NEW b \in BOOLEAN, t = Periodic /\ (Tick \/ CheckLen(b))
      PROVE  /\ UNCHANGED <<handed, delivered>>
             /\ pc[t] # "wait" /\ pc'[t] # "wait"
             /\ \A u \in Threads : u # t => pc'[u] = pc[u] /\ hand'[u] = hand[u]
  BY <1>3 DEF Tick, CheckLen
<1>4. ASSUME NEW b \in BOOLEAN, Gate(t) \/ Measure(t, b) \/ SetGauge(t) \/ LinkUp(t)
      PROVE  /\ UNCHANGED <<handed, delivered>>
             /\ pc[t] # "wait" /\ pc'[t] # "wait"
             /\ \A u \in Threads : u # t => pc'[u] = pc[u] /\ hand'[u] = hand[u]
  BY <1>4 DEF Gate, PublishFailed, Measure, SetGauge, LinkUp, ComesUp
<1> QED BY <1>1, <1>2, <1>3, <1>4 DEF Alone, AgentStep, DiskError

LEMMA TokensAlone ==
  ASSUME MqttInv, NEW t \in Threads, Alone(t), UNCHANGED <<store, tok>>
  PROVE  Tokens'
<1>1. /\ UNCHANGED <<handed, delivered>>
      /\ pc[t] # "wait" /\ pc'[t] # "wait"
      /\ \A u \in Threads : u # t => pc'[u] = pc[u] /\ hand'[u] = hand[u]
  BY AloneLeaves DEF MqttInv, Inv
<1> QED BY <1>1 DEF MqttInv, Tokens

LEMMA TokensCall ==
  ASSUME MqttInv, NEW t \in Threads, MqttCall(t)
  PROVE  Tokens'
<1> USE MqttAssumption DEF MqttInv, MqttTypeOK
<1>1. PICK k \in FreeIds :
        /\ store' = store \union {[id |-> k, ev |-> Head(hand[t]), phase |-> "queued"]}
        /\ tok' = [tok EXCEPT ![t] = k]
  BY CallStores
<1>2. k \in PacketIds /\ k # None /\ \A m \in store : m.id # k
  BY DEF FreeIds
<1>3. /\ pc[t] = "call" /\ pc'[t] = "wait" /\ hand' = hand
      /\ handed' = handed \union {Head(hand[t])} /\ delivered' = delivered
      /\ \A u \in Threads : u # t => pc'[u] = pc[u]
  BY DEF MqttCall, Call, Goto, TypeOK
<1>4. \A u \in Threads : u # t => tok'[u] = tok[u] /\ tok[u] # k
  BY <1>1, <1>2 DEF Tokens
<1>5. tok'[t] = k
  BY <1>1
<1>6. ASSUME NEW u \in Threads
      PROVE  IF pc'[u] = "wait"
               THEN \E m \in store' : m.id = tok'[u] /\ m.ev = Head(hand'[u])
               ELSE tok'[u] = None
  <2>1. CASE u = t
    <3>1. /\ [id |-> k, ev |-> Head(hand[t]), phase |-> "queued"] \in store'
          /\ [id |-> k, ev |-> Head(hand[t]), phase |-> "queued"].id = k
          /\ [id |-> k, ev |-> Head(hand[t]), phase |-> "queued"].ev = Head(hand[t])
      BY <1>1
    <3> QED BY <1>3, <1>5, <2>1, <3>1
  <2>2. CASE u # t
    BY <1>1, <1>3, <1>4, <2>2 DEF Tokens
  <2> QED BY <2>1, <2>2
<1>7. \A u, v \in Threads : tok'[u] = tok'[v] /\ tok'[u] # None => u = v
  BY <1>4, <1>5 DEF Tokens
<1>8. \A m, n \in store' : m.id = n.id => m = n
  BY <1>1, <1>2 DEF Tokens
<1>9. \A m \in store' : /\ m.ev \in handed'
                        /\ m.phase = "received" => m.ev \in delivered'
  BY <1>1, <1>3 DEF Tokens
<1> QED BY <1>6, <1>7, <1>8, <1>9 DEF Tokens

LEMMA TokensReceive ==
  ASSUME MqttInv, NEW m \in store, BrokerReceive(m)
  PROVE  Tokens'
<1> DEFINE r == [m EXCEPT !.phase = "received"]
<1>1. /\ r.id = m.id /\ r.ev = m.ev
      /\ store' = (store \ {m}) \union {r}
  BY DEF BrokerReceive, MqttInv, MqttTypeOK, Publishes
<1>2. /\ UNCHANGED <<pc, hand, tok, handed>> /\ delivered' = delivered \union {m.ev}
  BY DEF BrokerReceive, Arrives, threadVars
<1> HIDE DEF r
<1> QED BY <1>1, <1>2 DEF MqttInv, Tokens

LEMMA TokensAck ==
  ASSUME MqttInv, NEW m \in store, PubAck(m)
  PROVE  Tokens'
<1> USE MqttAssumption DEF MqttInv, MqttTypeOK
<1>1. m.id # None /\ store' = store \ {m}
  BY DEF Publishes, PubAck
<1>2. CASE \E t \in Threads : tok[t] = m.id
  <2>1. PICK t \in Threads : tok[t] = m.id /\ PublishOk(t) /\ tok' = [tok EXCEPT ![t] = None]
    BY <1>2, AckEndsWait
  <2>2. /\ pc'[t] # "wait" /\ UNCHANGED <<handed, delivered>>
        /\ \A u \in Threads : u # t => pc'[u] = pc[u] /\ hand'[u] = hand[u] /\ tok'[u] = tok[u]
        /\ tok'[t] = None
    BY <2>1 DEF PublishOk, ReturnsNil, Goto, TypeOK, linkVars
  <2>3. \A u \in Threads : u # t => tok[u] # m.id
    BY <1>1, <2>1 DEF Tokens
  <2> QED BY <1>1, <2>2, <2>3 DEF Tokens
<1>3. CASE ~\E t \in Threads : tok[t] = m.id
  <2>1. UNCHANGED <<pc, hand, tok, handed, delivered>>
    BY <1>3 DEF PubAck, vars, threadVars, linkVars
  <2> QED BY <1>1, <1>3, <2>1 DEF Tokens
<1> QED BY <1>2, <1>3

LEMMA TokensOthers ==
  ASSUME MqttInv,
         \/ \E t \in Threads : GiveUp(t)
         \/ ConnectionLost \/ ReconnectDeaf \/ MqttRestart
         \/ UNCHANGED mqttVars
  PROVE  Tokens'
<1> USE MqttAssumption DEF MqttInv, MqttTypeOK, linkVars
<1>1. ASSUME NEW t \in Threads, GiveUp(t) PROVE Tokens'
  <2>1. /\ pc'[t] # "wait" /\ tok'[t] = None /\ UNCHANGED <<hand, store, handed, delivered>>
        /\ \A u \in Threads : u # t => pc'[u] = pc[u] /\ tok'[u] = tok[u]
    BY <1>1 DEF GiveUp, ReturnsError, PublishFailed, Goto, TypeOK
  <2> QED BY <2>1 DEF Tokens
<1>2. CASE ConnectionLost
  <2>1. UNCHANGED <<pc, hand, tok, handed, delivered>>
    BY <1>2 DEF ConnectionLost, LinkDown, threadVars
  <2> DEFINE Again(m) == [m EXCEPT !.phase = "queued"]
  <2>2. store' = {Again(m) : m \in store}
    BY <1>2 DEF ConnectionLost
  <2>3. \A m \in store : Again(m).id = m.id /\ Again(m).ev = m.ev /\ Again(m).phase = "queued"
    BY DEF Publishes
  <2> HIDE DEF Again
  <2>4. ASSUME NEW t \in Threads
        PROVE  IF pc[t] = "wait"
                 THEN \E n \in store' : n.id = tok[t] /\ n.ev = Head(hand[t])
                 ELSE tok[t] = None
    BY <2>2, <2>3 DEF Tokens
  <2>5. \A n, o \in store' : n.id = o.id => n = o
    BY <2>2, <2>3 DEF Tokens
  <2>6. \A n \in store' : n.ev \in handed /\ n.phase = "queued"
    BY <2>2, <2>3 DEF Tokens
  <2> QED BY <2>1, <2>4, <2>5, <2>6 DEF Tokens
<1>3. CASE ReconnectDeaf \/ UNCHANGED mqttVars
  BY <1>3 DEF ReconnectDeaf, LinkUpDeaf, mqttVars, vars, threadVars, Tokens
<1>4. CASE MqttRestart
  BY <1>4 DEF MqttRestart, Restart, Tokens
<1> QED BY <1>1, <1>2, <1>3, <1>4

-----------------------------------------------------------------------------
(* As long as nothing goes wrong *)

(* What a drain still has to publish is in the file, each event once.      *)
LEMMA DrainedPart ==
  ASSUME Inv, Custody, NEW f \in Flushers, Draining(f)
  PROVE  /\ hand[f] \in Seq(Events)
         /\ \A i \in 1..Len(hand[f]) : \E k \in 1..Len(file) : hand[f][i] = file[k]
         /\ \A i, j \in 1..Len(hand[f]) : hand[f][i] = hand[f][j] => i = j
<1>1. file \in Seq(Events) /\ Len(file) \in Nat
  BY DEF Inv, TypeOK
<1>2. PICK n \in 0..Len(file) : hand[f] = SubSeq(file, n + 1, Len(file))
  BY DEF Inv, DrainSuffix
<1>3. /\ hand[f] \in Seq(Events) /\ Len(hand[f]) = Len(file) - n
      /\ \A i \in 1..(Len(file) - n) : hand[f][i] = file[n + i]
  BY <1>1, <1>2, SuffixType
<1>4. \A i \in 1..Len(hand[f]) : n + i \in 1..Len(file) /\ hand[f][i] = file[n + i]
  BY <1>1, <1>3
<1>5. ASSUME NEW i \in 1..Len(hand[f]), NEW j \in 1..Len(hand[f]), hand[f][i] = hand[f][j]
      PROVE  i = j
  <2>1. n + i = n + j
    BY <1>4, <1>5 DEF Custody, Separate
  <2> QED BY <2>1
<1> QED BY <1>3, <1>4, <1>5

(* The event a call is about to hand over was never handed over, and       *)
(* nobody else has it to publish.                                          *)
LEMMA CallsFresh ==
  ASSUME Inv, Custody, Unpublished, NEW t \in Threads, pc[t] = "call"
  PROVE  /\ Head(hand[t]) \notin handed
         /\ \A h \in Handlers : h # t => hand[h] # <<Head(hand[t])>>
         /\ \A f \in Flushers : Draining(f) =>
              \A i \in 1..Len(hand[f]) : hand[f][i] = Head(hand[t]) => f = t /\ i = 1
         /\ lock = None => \A i \in 1..Len(file) : file[i] # Head(hand[t])
<1> USE ThreadsAssumption
<1>1. CASE t \in Handlers
  <2>1. PICK e \in Events : hand[t] = <<e>> /\ Head(hand[t]) = e
    BY <1>1, SomethingToPublish
  <2>2. \A i \in 1..Len(file) : file[i] # e
    BY <1>1, <2>1 DEF Custody, Separate
  <2>3. e \notin handed
    BY <1>1, <2>1 DEF Unpublished
  <2>4. \A h \in Handlers : h # t => hand[h] # <<e>>
    BY <1>1, <2>1 DEF Custody, Separate
  <2> QED BY <2>1, <2>2, <2>3, <2>4, DrainedPart
<1>2. CASE t \in Flushers
  <2>1. /\ Draining(t) /\ Head(hand[t]) \in Events
        /\ hand[t] \in Seq(Events) /\ hand[t] # <<>>
    BY <1>2, SomethingToPublish DEF Draining
  <2>2. Head(hand[t]) = hand[t][1] /\ 1 \in 1..Len(hand[t])
    BY <2>1
  <2>3. PICK k \in 1..Len(file) : Head(hand[t]) = file[k]
    BY <1>2, <2>1, <2>2, DrainedPart
  <2>4. Head(hand[t]) \notin handed
    BY <1>2, <2>1, <2>2 DEF Unpublished
  <2>5. \A f \in Flushers : Draining(f) => f = t
    BY <1>2, <2>1 DEF Inv, LockHeld
  <2>6. lock # None
    BY <1>2, <2>1 DEF Inv, LockHeld, Threads
  <2>7. \A i \in 1..Len(hand[t]) : hand[t][i] = Head(hand[t]) => i = 1
    BY <1>2, <2>1, <2>2, DrainedPart
  <2>8. \A h \in Handlers : hand[h] # <<Head(hand[t])>>
    BY <2>1, <2>3 DEF Custody, Separate
  <2> QED BY <2>4, <2>5, <2>6, <2>7, <2>8
<1> QED BY <1>1, <1>2 DEF Threads

(* An Add leaves in the file what was there, and its event.                *)
LEMMA AddedFile ==
  ASSUME Inv, NEW h \in Handlers, Add(h)
  PROVE  \E e \in Events :
           /\ hand[h] = <<e>>
           /\ \A i \in 1..Len(file') : file'[i] = e \/ \E j \in 1..Len(file) : file'[i] = file[j]
<1>1. PICK e \in Events :
        /\ hand[h] = <<e>>
        /\ \/ Len(file) < Capacity /\ file' = Append(file, e)
           \/ Len(file) = Capacity /\ file' = Append(Tail(file), e)
  BY AddAppends
<1>2. file \in Seq(Events) /\ Len(file) \in Nat
  BY DEF Inv, TypeOK
<1>3. CASE Len(file) < Capacity /\ file' = Append(file, e)
  <2>1. /\ Len(file') = Len(file) + 1 /\ file'[Len(file) + 1] = e
        /\ \A i \in 1..Len(file) : file'[i] = file[i]
    BY <1>2, <1>3
  <2> QED BY <1>1, <1>2, <2>1
<1>4. CASE Len(file) = Capacity /\ file' = Append(Tail(file), e)
  <2>1. file # <<>>
    BY <1>4, CapacityAssumption
  <2>2. /\ Len(file') = Len(file) /\ file'[Len(file)] = e
        /\ \A i \in 1..(Len(file) - 1) : file'[i] = file[i + 1]
    BY <1>2, <1>4, <2>1, AppendTailFacts
  <2>3. \A i \in 1..Len(file') : i # Len(file) => i + 1 \in 1..Len(file) /\ file'[i] = file[i + 1]
    BY <1>2, <2>2
  <2> QED BY <1>1, <2>2, <2>3
<1> QED BY <1>1, <1>3, <1>4

(* Steps that change neither what is held nor what was handed over.        *)
LEMMA UnpublishedQuiet ==
  ASSUME Inv, Unpublished, UNCHANGED <<file, lock, hand, handed>>,
         NEW t \in Threads, NEW step, pc' = [pc EXCEPT ![t] = step],
         t \in Handlers => (step \in {"gate", "call", "add"} =>
                              pc[t] \in {"gate", "call", "add"}),
         t \in Flushers => (step \in {"gate", "call", "wait", "rewrite"} =>
                              pc[t] \in {"gate", "call", "rewrite"})
  PROVE  Unpublished'
<1> USE ThreadsAssumption DEF Inv, TypeOK, Unpublished
<1>1. ASSUME NEW h \in Handlers, NEW e \in Events,
             pc'[h] \in {"gate", "call", "add"}, hand[h] = <<e>>
      PROVE  e \notin handed
  BY <1>1 DEF Threads
<1>2. ASSUME NEW f \in Flushers, Draining(f)', NEW i \in 1..Len(hand[f]), hand[f][i] \in handed
      PROVE  pc'[f] = "wait" /\ i = 1
  BY <1>2 DEF Draining, Threads
<1> QED BY <1>1, <1>2

LEMMA UnpublishedCall ==
  ASSUME Inv, Custody, Unpublished, NEW t \in Threads, Call(t)
  PROVE  Unpublished'
<1> USE ThreadsAssumption
<1> DEFINE e == Head(hand[t])
<1>1. /\ pc[t] = "call" /\ pc'[t] = "wait" /\ UNCHANGED <<file, lock, hand>>
      /\ handed' = handed \union {e}
      /\ \A u \in Threads : u # t => pc'[u] = pc[u]
  BY DEF Call, Goto, bufferVars, Inv, TypeOK
<1>2. /\ \A h \in Handlers : h # t => hand[h] # <<e>>
      /\ \A f \in Flushers : Draining(f) =>
           \A i \in 1..Len(hand[f]) : hand[f][i] = e => f = t /\ i = 1
      /\ lock = None => \A i \in 1..Len(file) : file[i] # e
  BY <1>1, CallsFresh
<1> HIDE DEF e
<1>3. ASSUME NEW h \in Handlers, NEW x \in Events,
             pc'[h] \in {"gate", "call", "add"}, hand[h] = <<x>>
      PROVE  x \notin handed'
  BY <1>1, <1>2, <1>3 DEF Unpublished, Threads
<1>4. ASSUME NEW f \in Flushers, Draining(f)', NEW i \in 1..Len(hand[f]), hand[f][i] \in handed'
      PROVE  pc'[f] = "wait" /\ i = 1
  <2>1. Draining(f) /\ f \in Threads
    BY <1>1, <1>4 DEF Draining, Threads
  <2>2. CASE hand[f][i] = e
    BY <1>1, <1>2, <2>1, <2>2
  <2>3. CASE hand[f][i] \in handed
    BY <1>1, <2>1, <2>3 DEF Unpublished
  <2> QED BY <1>1, <1>4, <2>2, <2>3
<1>5. lock' = None => \A i \in 1..Len(file') : file'[i] \notin handed'
  BY <1>1, <1>2 DEF Unpublished
<1> QED BY <1>1, <1>3, <1>4, <1>5 DEF Unpublished

LEMMA UnpublishedOk ==
  ASSUME Inv, Unpublished, NEW t \in Threads, PublishOk(t)
  PROVE  Unpublished'
<1> USE ThreadsAssumption
<1>1. /\ pc[t] = "wait" /\ UNCHANGED <<file, lock, handed>>
      /\ hand'[t] = Tail(hand[t]) /\ pc'[t] \in {"idle", "rewrite", "gate"}
      /\ t \in Handlers => pc'[t] = "idle"
      /\ \A u \in Threads : u # t => pc'[u] = pc[u] /\ hand'[u] = hand[u]
  BY DEF PublishOk, ReturnsNil, Goto, bufferVars, linkVars, Inv, TypeOK
<1>2. hand[t] \in Seq(Events) /\ hand[t] # <<>>
  BY <1>1, SomethingToPublish
<1>3. /\ Len(Tail(hand[t])) = Len(hand[t]) - 1 /\ Len(hand[t]) \in Nat \ {0}
      /\ \A i \in 1..(Len(hand[t]) - 1) : Tail(hand[t])[i] = hand[t][i + 1]
  BY <1>2
<1>4. ASSUME t \in Flushers, NEW i \in 1..Len(hand'[t])
      PROVE  hand'[t][i] \notin handed
  <2>1. i + 1 \in 1..Len(hand[t]) /\ i + 1 # 1 /\ hand'[t][i] = hand[t][i + 1]
    BY <1>1, <1>3, <1>4
  <2> QED BY <1>1, <1>4, <2>1 DEF Unpublished, Draining
<1>5. ASSUME NEW f \in Flushers, Draining(f)', NEW i \in 1..Len(hand'[f]), hand'[f][i] \in handed
      PROVE  pc'[f] = "wait" /\ i = 1
  <2>1. f # t
    BY <1>4, <1>5
  <2> QED BY <1>1, <1>5, <2>1 DEF Unpublished, Draining, Threads
<1>6. ASSUME NEW h \in Handlers, NEW e \in Events,
             pc'[h] \in {"gate", "call", "add"}, hand'[h] = <<e>>
      PROVE  e \notin handed
  BY <1>1, <1>6 DEF Unpublished, Threads
<1> QED BY <1>1, <1>5, <1>6 DEF Unpublished

LEMMA UnpublishedSpool ==
  ASSUME Inv, Custody, Unpublished, NEW h \in Handlers,
         Add(h) \/ \E e \in Events : Take(h, e)
  PROVE  Unpublished'
<1> USE ThreadsAssumption DEF linkVars
<1>1. UNCHANGED <<lock, handed>>
  BY DEF Add, Take, bufferVars
<1>2. \A u \in Threads : u # h => pc'[u] = pc[u] /\ hand'[u] = hand[u]
  BY DEF Add, Take, Goto, Inv, TypeOK
<1>3. \A f \in Flushers : f # h /\ f \in Threads
  BY DEF Threads
<1>4. \A f \in Flushers : Draining(f)' =>
        \A i \in 1..Len(hand'[f]) : hand'[f][i] \in handed' => pc'[f] = "wait" /\ i = 1
  BY <1>1, <1>2, <1>3 DEF Unpublished, Draining
<1>5. CASE Add(h)
  <2>1. pc'[h] = "measure" /\ pc[h] = "add" /\ lock = None
    BY <1>5 DEF Add, Goto, Inv, TypeOK, Threads
  <2>2. PICK e \in Events :
          /\ hand[h] = <<e>>
          /\ \A i \in 1..Len(file') : file'[i] = e \/ \E j \in 1..Len(file) : file'[i] = file[j]
    BY <1>5, AddedFile
  <2>3. \A i \in 1..Len(file') : file'[i] \notin handed
    BY <2>1, <2>2 DEF Unpublished
  <2>4. \A g \in Handlers, x \in Events :
          pc'[g] \in {"gate", "call", "add"} /\ hand'[g] = <<x>> => x \notin handed'
    BY <1>1, <1>2, <2>1 DEF Unpublished, Threads
  <2> QED BY <1>1, <1>4, <2>3, <2>4 DEF Unpublished
<1>6. ASSUME NEW e \in Events, Take(h, e) PROVE Unpublished'
  <2>1. e \notin handed /\ hand'[h] = <<e>> /\ file' = file
    BY <1>6 DEF Take, bufferVars, Custody, OnlyTaken, Inv, TypeOK, Threads
  <2>2. \A x : hand'[h] = <<x>> => x = e
    BY <2>1
  <2>3. \A g \in Handlers, x \in Events :
          pc'[g] \in {"gate", "call", "add"} /\ hand'[g] = <<x>> => x \notin handed'
    BY <1>1, <1>2, <2>1, <2>2 DEF Unpublished, Threads
  <2> QED BY <1>1, <1>4, <2>1, <2>3 DEF Unpublished
<1> QED BY <1>5, <1>6

LEMMA UnpublishedDrain ==
  ASSUME Inv, Unpublished, NEW f \in Flushers, DrainStart(f, TRUE) \/ Rewrite(f, TRUE)
  PROVE  Unpublished'
<1> USE ThreadsAssumption DEF linkVars
<1>1. handed' = handed
  BY DEF DrainStart, Rewrite
<1>2. \A u \in Threads : u # f => pc'[u] = pc[u] /\ hand'[u] = hand[u]
  BY DEF DrainStart, Rewrite, Goto, Inv, TypeOK
<1>3. \A h \in Handlers : h # f /\ h \in Threads
  BY DEF Threads
<1>4. \A h \in Handlers, e \in Events :
        pc'[h] \in {"gate", "call", "add"} /\ hand'[h] = <<e>> => e \notin handed'
  BY <1>1, <1>2, <1>3 DEF Unpublished
<1>5. /\ \A i \in 1..Len(hand'[f]) : Draining(f)' => hand'[f][i] \notin handed
      /\ lock' = None => \A i \in 1..Len(file') : file'[i] \notin handed
  <2>1. CASE DrainStart(f, TRUE)
    BY <2>1 DEF DrainStart, Goto, Draining, Unpublished, Inv, TypeOK, Threads
  <2>2. CASE Rewrite(f, TRUE)
    <3>1. /\ file' = hand[f] /\ ~Draining(f)' /\ Draining(f) /\ pc[f] # "wait"
      BY <2>2 DEF Rewrite, Goto, Draining, Inv, TypeOK, Threads
    <3> QED BY <3>1 DEF Unpublished
  <2> QED BY <2>1, <2>2
<1>6. \A g \in Flushers : Draining(g)' =>
        \A i \in 1..Len(hand'[g]) : hand'[g][i] \in handed' => pc'[g] = "wait" /\ i = 1
  BY <1>1, <1>2, <1>5 DEF Unpublished, Draining, Threads
<1> QED BY <1>1, <1>4, <1>5, <1>6 DEF Unpublished

LEMMA StoredOnceCall ==
  ASSUME MqttInv, NothingWrong, faults = 0, NEW t \in Threads, MqttCall(t)
  PROVE  StoredOnce'
<1> USE DEF MqttInv, MqttTypeOK, NothingWrong
<1> DEFINE e == Head(hand[t])
<1>1. pc[t] = "call" /\ handed' = handed \union {e} /\ copies' = copies
  BY DEF MqttCall, Call
<1>2. e \notin handed /\ e \in Events
  BY <1>1, CallsFresh, SomethingToPublish
<1>3. PICK k \in FreeIds : store' = store \union {[id |-> k, ev |-> e, phase |-> "queued"]}
  BY CallStores
<1> HIDE DEF e
<1>4. \A m \in store : m.ev # e
  BY <1>2 DEF Tokens
<1>5. copies[e] = 0
  BY <1>2 DEF StoredOnce
<1>6. \A m, n \in store' : m.ev = n.ev => m = n
  BY <1>3, <1>4 DEF StoredOnce
<1>7. \A m \in store' : m.phase = "queued" => copies'[m.ev] = 0
  BY <1>1, <1>3, <1>5 DEF StoredOnce
<1>8. \A x \in Events : copies'[x] <= 1 /\ (copies'[x] = 1 => x \in handed')
  BY <1>1 DEF StoredOnce
<1> QED BY <1>6, <1>7, <1>8 DEF StoredOnce

LEMMA StoredOnceReceive ==
  ASSUME MqttInv, NothingWrong, faults = 0, NEW m \in store, BrokerReceive(m)
  PROVE  StoredOnce'
<1> USE MqttAssumption DEF MqttInv, MqttTypeOK, NothingWrong
<1> DEFINE r == [m EXCEPT !.phase = "received"]
<1>1. /\ r.ev = m.ev /\ r.phase = "received" /\ m.ev \in Events /\ m.ev \in handed
      /\ store' = (store \ {m}) \union {r}
  BY DEF BrokerReceive, Publishes, Tokens
<1> HIDE DEF r
<1>2. handed' = handed
  BY DEF BrokerReceive, Arrives
<1>3. copies[m.ev] = 0
  BY DEF BrokerReceive, StoredOnce
<1>4. copies'[m.ev] = 1 /\ \A x \in Events : x # m.ev => copies'[x] = copies[x]
  BY <1>1, <1>3 DEF BrokerReceive
<1>5. \A n \in store : n # m => n.ev # m.ev /\ n.ev \in Events
  BY DEF StoredOnce, Publishes
<1>6. \A n, o \in store' : n.ev = o.ev => n = o
  BY <1>1, <1>5 DEF StoredOnce
<1>7. \A n \in store' : n.phase = "queued" => copies'[n.ev] = 0
  BY <1>1, <1>4, <1>5 DEF StoredOnce
<1>8. \A x \in Events : copies'[x] <= 1 /\ (copies'[x] = 1 => x \in handed')
  BY <1>1, <1>2, <1>4 DEF StoredOnce
<1> QED BY <1>6, <1>7, <1>8 DEF StoredOnce

LEMMA WithoutFault ==
  ASSUME MqttInv, [MqttNext]_mqttVars, faults' = 0
  PROVE  /\ faults = 0 /\ PublishesConnected /\ Unpublished /\ StoredOnce
         /\ \/ \E h \in Handlers : Reading(h)
            \/ \E t \in Threads :
                 \/ AgentStep(t) /\ UNCHANGED <<store, tok, copies, faults>>
                 \/ MqttCall(t)
            \/ \E m \in store : BrokerReceive(m) \/ PubAck(m)
            \/ \E f \in Reconnects : Reconnect(f)
            \/ UNCHANGED mqttVars
<1>1. faults \in Nat /\ ~Fault
  BY MqttAssumption DEF MqttInv, MqttTypeOK, Fault
<1>2. faults = 0
  BY <1>1
  DEF MqttNext, Reading, Working, MqttCall, TimeoutOffline, TimeoutOnline, BrokerReceive, PubAck,
      ConnectionLost, Reconnect, ReconnectDeaf, MqttRestart, mqttVars
<1>3. PublishesConnected /\ Unpublished /\ StoredOnce
  BY <1>2 DEF MqttInv, NothingWrong
<1>4. \A t \in Threads : ~TimeoutOffline(t)
  BY <1>3, GiveUpEndsWait DEF TimeoutOffline, PublishErr, PublishesConnected, MqttInv
<1> QED
  BY <1>1, <1>2, <1>3, <1>4
  DEF MqttNext, Working, TimeoutOnline, ConnectionLost, ReconnectDeaf, MqttRestart

LEMMA NothingWrongNext ==
  ASSUME MqttInv, [MqttNext]_mqttVars
  PROVE  NothingWrong'
<1> SUFFICES ASSUME faults' = 0 PROVE PublishesConnected' /\ Unpublished' /\ StoredOnce'
  BY DEF NothingWrong
<1> USE ThreadsAssumption DEF MqttInv, MqttTypeOK
<1>1. faults = 0 /\ PublishesConnected /\ Unpublished /\ StoredOnce
  BY WithoutFault
<1>2. ASSUME NEW h \in Handlers, Reading(h)
      PROVE  PublishesConnected' /\ Unpublished' /\ StoredOnce'
  <2>1. Unpublished'
    BY <1>1, <1>2, UnpublishedSpool DEF Reading
  <2>2. PublishesConnected' /\ StoredOnce'
    BY <1>1, <1>2 DEF Reading, Take, Goto, linkVars, PublishesConnected, StoredOnce, Threads, TypeOK
  <2> QED BY <2>1, <2>2
<1>3. ASSUME NEW t \in Threads, AgentStep(t), UNCHANGED <<store, tok, copies, faults>>
      PROVE  PublishesConnected' /\ Unpublished' /\ StoredOnce'
  <2>1. UNCHANGED <<handed, connected>> /\ pc'[t] # "wait" /\ (pc'[t] = "call" => connected)
    BY <1>3
    DEF AgentStep, Add, DrainStart, Rewrite, Tick, CheckLen, Gate, PublishFailed, Measure, SetGauge,
        Goto, linkVars, TypeOK
  <2>2. \A u \in Threads : u # t => pc'[u] = pc[u]
    BY <1>3, AloneLeaves DEF Alone
  <2>3. PublishesConnected' /\ StoredOnce'
    BY <1>1, <1>3, <2>1, <2>2 DEF PublishesConnected, StoredOnce
  <2>4. CASE t \in Handlers /\ Add(t)
    BY <1>1, <2>3, <2>4, UnpublishedSpool
  <2>5. CASE t \in Flushers /\ (DrainStart(t, TRUE) \/ Rewrite(t, TRUE))
    BY <1>1, <2>3, <2>5, UnpublishedDrain
  <2>6. CASE Gate(t)
    BY <1>1, <2>3, <2>6, UnpublishedQuiet
    DEF Gate, PublishFailed, Goto, bufferVars, linkVars, Flushers
  <2>7. CASE Measure(t, TRUE) \/ SetGauge(t)
    BY <1>1, <2>3, <2>7, UnpublishedQuiet
    DEF Measure, SetGauge, Goto, bufferVars, linkVars
  <2>8. CASE t = Periodic /\ (Tick \/ CheckLen(TRUE))
    BY <1>1, <2>3, <2>8, UnpublishedQuiet
    DEF Tick, CheckLen, Goto, bufferVars, linkVars, Flushers
  <2> QED BY <1>3, <2>4, <2>5, <2>6, <2>7, <2>8 DEF AgentStep
<1>4. ASSUME NEW t \in Threads, MqttCall(t)
      PROVE  PublishesConnected' /\ Unpublished' /\ StoredOnce'
  <2>1. PublishesConnected'
    BY <1>1, <1>4 DEF MqttCall, Call, Goto, PublishesConnected, TypeOK
  <2>2. Unpublished'
    BY <1>1, <1>4, UnpublishedCall DEF MqttCall
  <2> QED BY <1>1, <1>4, <2>1, <2>2, StoredOnceCall
<1>5. ASSUME NEW m \in store, BrokerReceive(m)
      PROVE  PublishesConnected' /\ Unpublished' /\ StoredOnce'
  <2>1. UNCHANGED <<file, lock, pc, hand, handed, connected>>
    BY <1>5 DEF BrokerReceive, Arrives, bufferVars, threadVars
  <2>2. PublishesConnected' /\ Unpublished'
    BY <1>1, <2>1 DEF PublishesConnected, Unpublished, Draining
  <2> QED BY <1>1, <1>5, <2>2, StoredOnceReceive
<1>6. ASSUME NEW m \in store, PubAck(m)
      PROVE  PublishesConnected' /\ Unpublished' /\ StoredOnce'
  <2>1. (\E t \in Threads : PublishOk(t)) \/ UNCHANGED vars
    BY <1>6, AckEndsWait
  <2>2. UNCHANGED <<handed, copies>> /\ store' = store \ {m}
    BY <1>6, <2>1 DEF PubAck, PublishOk, ReturnsNil, linkVars, vars
  <2>3. StoredOnce'
    BY <1>1, <2>2 DEF StoredOnce
  <2>4. ASSUME NEW t \in Threads, PublishOk(t) PROVE PublishesConnected' /\ Unpublished'
    <3>1. PublishesConnected'
      BY <1>1, <2>4 DEF PublishOk, ReturnsNil, Goto, linkVars, PublishesConnected, TypeOK
    <3> QED BY <1>1, <2>4, <3>1, UnpublishedOk
  <2>5. CASE UNCHANGED vars
    BY <1>1, <2>3, <2>5
    DEF vars, bufferVars, threadVars, linkVars, PublishesConnected, Unpublished, Draining
  <2> QED BY <2>1, <2>3, <2>4, <2>5
<1>7. ASSUME NEW f \in Reconnects, Reconnect(f)
      PROVE  PublishesConnected' /\ Unpublished' /\ StoredOnce'
  <2>1. f \in Flushers /\ f \in Threads
    BY DEF Flushers, Threads
  <2>2. PublishesConnected' /\ StoredOnce'
    BY <1>1, <1>7 DEF Reconnect, LinkUp, ComesUp, PublishesConnected, StoredOnce
  <2>3. Unpublished'
    BY <1>1, <1>7, <2>1, UnpublishedQuiet DEF Reconnect, LinkUp, ComesUp, Goto, bufferVars
  <2> QED BY <2>2, <2>3
<1>8. CASE UNCHANGED mqttVars
  BY <1>1, <1>8
  DEF mqttVars, vars, bufferVars, threadVars, linkVars, PublishesConnected, Unpublished, Draining,
      StoredOnce
<1> QED BY <1>2, <1>3, <1>4, <1>5, <1>6, <1>7, <1>8, WithoutFault

-----------------------------------------------------------------------------
(* The invariant and the theorems *)

LEMMA MqttInvInit == MqttInit => MqttInv
<1> SUFFICES ASSUME MqttInit PROVE MqttInv
  OBVIOUS
<1> USE MqttAssumption DEF MqttInit
<1>1. Inv /\ Custody
  BY InvInit, CustodyInit
<1>2. MqttTypeOK
  BY <1>1 DEF MqttTypeOK, Inv
<1>3. Tokens
  BY DEF Tokens, Init
<1>4. PublishesConnected /\ Unpublished /\ StoredOnce
  BY DEF Init, PublishesConnected, Unpublished, StoredOnce, Draining, Threads
<1> QED BY <1>1, <1>2, <1>3, <1>4 DEF MqttInv, NothingWrong

LEMMA MqttInvNext == MqttInv /\ [MqttNext]_mqttVars => MqttInv'
<1> SUFFICES ASSUME MqttInv, [MqttNext]_mqttVars PROVE MqttInv'
  OBVIOUS
<1>1. Inv' /\ Custody'
  BY StepKeepsContract, InvNext, CustodyNext DEF MqttInv
<1>2. MqttTypeOK'
  BY <1>1, MqttTypes DEF MqttInv, Inv
<1>3. Tokens'
  <2>1. ASSUME NEW t \in Threads, Alone(t), UNCHANGED <<store, tok>> PROVE Tokens'
    BY <2>1, TokensAlone
  <2>2. \A h \in Handlers : Reading(h) => h \in Threads /\ Alone(h) /\ UNCHANGED <<store, tok>>
    BY DEF Reading, Alone, Threads
  <2>3. \A f \in Reconnects : Reconnect(f) => f \in Threads /\ Alone(f) /\ UNCHANGED <<store, tok>>
    BY DEF Reconnect, Alone, Threads, Flushers
  <2> QED
    BY <2>1, <2>2, <2>3, TokensCall, TokensReceive, TokensAck, TokensOthers
    DEF MqttNext, Working, TimeoutOffline, TimeoutOnline, Alone
<1>4. NothingWrong'
  BY NothingWrongNext
<1> QED BY <1>1, <1>2, <1>3, <1>4 DEF MqttInv

(* The store, the tokens and the buffer stay in step in every state.       *)
THEOREM MqttInvariant == MqttSpec => []MqttInv
BY MqttInvInit, MqttInvNext, PTL DEF MqttSpec

(* paho's client as uplink.go uses it keeps the contract of                *)
(* uplink.go:22-36, whatever is lost, late or restarted: a PUBACK ends     *)
(* only the wait it belongs to, with nil only for an event the broker has, *)
(* and what the broker takes was published.  The steps do not test any of  *)
(* it: it follows from Tokens.                                             *)
THEOREM MqttKeepsContract == MqttSpec => Contract
<1>1. MqttInit => Init
  BY DEF MqttInit
<1>2. MqttInv /\ [MqttNext]_mqttVars => [Next]_vars
  BY StepKeepsContract DEF MqttInv
<1> QED BY <1>1, <1>2, MqttInvariant, PTL DEF MqttSpec, Contract, Spec

(* ... so that over MQTT, too, no event is without a place, none has two,  *)
(* and the agent keeps the promise of StoreForward.                        *)
THEOREM MqttKeepsPromise == MqttSpec => Promised /\ []Accounted /\ []OnePlace
BY MqttKeepsContract, AgentImplementsPromise, NoneUnaccounted, NeverInTwoPlaces, PTL DEF Contract

(* A PUBACK completes the wait it belongs to: not that of a goroutine      *)
(* which gave up, nor of one that publishes something else since; and what *)
(* it completes is a publish the broker has.  A goroutine that waits has   *)
(* its publish in the store, so that the acknowledgement can still come.   *)
AcksMatch ==
  /\ \A m \in store, t \in Threads : tok[t] = m.id =>
       /\ pc[t] = "wait" /\ Head(hand[t]) = m.ev
       /\ m.phase = "received" => m.ev \in delivered
  /\ \A t \in Threads : pc[t] = "wait" => \E m \in store : m.id = tok[t]

(* A publish that was given up (uplink.go:124) keeps its packet id until   *)
(* the broker acknowledged it, so its PUBACK ends no later wait.           *)
THEOREM MqttAcksMatch == MqttSpec => []AcksMatch
<1>1. MqttInv => AcksMatch
  <2> SUFFICES ASSUME MqttInv PROVE AcksMatch
    OBVIOUS
  <2>1. \A t \in Threads : pc[t] = "wait" => \E m \in store : m.id = tok[t]
    BY DEF MqttInv, Tokens
  <2>2. ASSUME NEW m \in store, NEW t \in Threads, tok[t] = m.id
        PROVE  /\ pc[t] = "wait" /\ Head(hand[t]) = m.ev
               /\ m.phase = "received" => m.ev \in delivered
    <3>1. m.id # None
      BY MqttAssumption DEF MqttInv, MqttTypeOK, Publishes
    <3> QED BY <2>2, <3>1 DEF MqttInv, Tokens
  <2> QED BY <2>1, <2>2 DEF AcksMatch
<1> QED BY <1>1, MqttInvariant, PTL

(* As long as nothing goes wrong every event reaches the broker once at    *)
(* most, however handlers, the reconnect flush and the periodic flush      *)
(* interleave.                                                             *)
THEOREM MqttOnceWithoutFault == MqttSpec => []OnceWithoutFault
<1>1. MqttInv => OnceWithoutFault
  BY DEF MqttInv, NothingWrong, StoredOnce, OnceWithoutFault
<1> QED BY <1>1, MqttInvariant, PTL
=============================================================================
