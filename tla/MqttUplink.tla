------------------------------ MODULE MqttUplink ------------------------------
(***************************************************************************)
(* The edge agent over its MQTT uplink (edge-agent/uplink.go:70-142): the  *)
(* threads and the buffer of EdgeAgent, with paho's client and the broker  *)
(* in place of the transport contract.                                     *)
(*                                                                         *)
(* paho and the broker are external; what is modelled is what uplink.go    *)
(* relies on.  A QoS 1 publish is put into the client's in-memory store    *)
(* and stays there until its PUBACK: a caller that stops waiting after     *)
(* publishTimeout leaves it there, and a lost connection sends what is     *)
(* unacknowledged again on the next one.                                   *)
(*                                                                         *)
(* Everything that goes wrong costs one of MaxFaults: a lost connection,   *)
(* an acknowledgement later than 2 s, a disk error, a restart.  The bound  *)
(* keeps the state finite, and its exhaustion is the moment "after which   *)
(* the uplink works" that liveness needs.                                  *)
(*                                                                         *)
(* A publish that is acknowledged, given up or received moves the agent on *)
(* whether or not the contract of EdgeAgent allows it: that it does is     *)
(* what Contract states.                                                   *)
(***************************************************************************)
EXTENDS EdgeAgent

CONSTANTS
  PacketIds,  (* paho has 1..65535                           *)
  MaxCopies,  (* copies counts deliveries up to this bound   *)
  MaxFaults   (* how often something goes wrong              *)

ASSUME MqttAssumption ==
  /\ PacketIds \subseteq Nat /\ None \notin PacketIds
  /\ MaxCopies \in Nat \ {0} /\ MaxFaults \in Nat

VARIABLES
  store,   (* paho's unacknowledged publishes                        *)
  tok,     (* the packet whose token a goroutine waits for, or None  *)
  copies,  (* history: how often the broker received each event      *)
  faults   (* history: how often something went wrong                *)

mqttVars == <<vars, store, tok, copies, faults>>

(* queued: to be sent on this connection; received: the broker has it and  *)
(* its PUBACK is under way.                                                *)
Publishes == [id : PacketIds, ev : Events, phase : {"queued", "received"}]

MqttTypeOK ==
  /\ TypeOK
  /\ store \subseteq Publishes
  /\ tok \in [Threads -> PacketIds \union {None}]
  /\ copies \in [Events -> 0..MaxCopies]
  /\ faults \in 0..MaxFaults

MqttInit ==
  /\ Init
  /\ store = {}
  /\ tok = [t \in Threads |-> None]
  /\ copies = [e \in Events |-> 0]
  /\ faults = 0

Fault == faults < MaxFaults /\ faults' = faults + 1

-----------------------------------------------------------------------------
(* client.Publish(topic, 1, false, payload).  The packet id is the lowest  *)
(* free one: which one it is makes no difference.                          *)
FreeIds == PacketIds \ {m.id : m \in store}

MqttCall(t) ==
  /\ Call(t)
  /\ FreeIds # {}
  /\ LET k == CHOOSE i \in FreeIds : \A j \in FreeIds : i <= j
     IN  /\ store' = store \union {[id |-> k, ev |-> Head(hand[t]), phase |-> "queued"]}
         /\ tok' = [tok EXCEPT ![t] = k]
  /\ UNCHANGED <<copies, faults>>

(* The broker takes a publish. *)
BrokerReceive(m) ==
  /\ connected /\ m.phase = "queued"
  /\ store' = (store \ {m}) \union {[m EXCEPT !.phase = "received"]}
  /\ copies' = [copies EXCEPT ![m.ev] = IF @ < MaxCopies THEN @ + 1 ELSE @]
  /\ Arrives(m.ev)
  /\ UNCHANGED <<tok, faults>>

(* Mutated form: the token completes when the packet is written. *)
PubAck_OnSend(m) ==
  /\ connected
  /\ store' = store \ {m}
  /\ IF \E t \in Threads : tok[t] = m.id
       THEN \E t \in Threads :
              /\ tok[t] = m.id
              /\ ReturnsNil(t)
              /\ tok' = [tok EXCEPT ![t] = None]
       ELSE UNCHANGED <<vars, tok>>
  /\ UNCHANGED <<copies, faults>>

(* Its PUBACK arrives: paho forgets the publish and completes its token,   *)
(* which a goroutine may still be waiting for.                             *)
PubAck(m) ==
  /\ connected /\ m.phase = "received"
  /\ store' = store \ {m}
  /\ IF \E t \in Threads : tok[t] = m.id
       THEN \E t \in Threads :
              /\ tok[t] = m.id
              /\ ReturnsNil(t)
              /\ tok' = [tok EXCEPT ![t] = None]
       ELSE UNCHANGED <<vars, tok>>
  /\ UNCHANGED <<copies, faults>>

(* WaitTimeout returned false: the caller is told of a failure, and the    *)
(* publish stays where it is.                                              *)
GiveUp(t) ==
  /\ tok[t] # None
  /\ ReturnsError(t)
  /\ tok' = [tok EXCEPT ![t] = None]
  /\ UNCHANGED <<store, copies>>

(* Without a connection no acknowledgement can come in time. *)
TimeoutOffline(t) == ~connected /\ GiveUp(t) /\ UNCHANGED faults

TimeoutOnline(t) == connected /\ GiveUp(t) /\ Fault

ConnectionLost ==
  /\ connected /\ Fault
  /\ LinkDown
  /\ store' = {[m EXCEPT !.phase = "queued"] : m \in store}
  /\ UNCHANGED <<tok, copies>>

(* OnConnect: go onUp(). *)
Reconnect(f) == LinkUp(f) /\ UNCHANGED <<store, tok, copies, faults>>

(* OnConnect of the shared client, with a subscribe that fails. *)
ReconnectDeaf == LinkUpDeaf /\ Fault /\ UNCHANGED <<store, tok, copies>>

MqttRestart ==
  /\ Fault
  /\ Restart
  /\ store' = {}
  /\ tok' = [t \in Threads |-> None]
  /\ UNCHANGED copies

-----------------------------------------------------------------------------
(* What a goroutine of the agent does by itself, and what a disk error     *)
(* makes of it.                                                            *)

AgentStep(t) ==
  \/ t \in Handlers /\ Add(t)
  \/ t \in Flushers /\ (DrainStart(t, TRUE) \/ Rewrite(t, TRUE))
  \/ t = Periodic /\ (Tick \/ CheckLen(TRUE))
  \/ Gate(t) \/ Measure(t, TRUE) \/ SetGauge(t)

DiskError(t) ==
  \/ t \in Handlers /\ AddFails(t)
  \/ t \in Flushers /\ (DrainStart(t, FALSE) \/ Rewrite(t, FALSE))
  \/ t = Periodic /\ CheckLen(FALSE)
  \/ Measure(t, FALSE)

Working(t) ==
  \/ AgentStep(t) /\ UNCHANGED <<store, tok, copies, faults>>
  \/ MqttCall(t)
  \/ TimeoutOffline(t)

Reading(h) ==
  /\ \E e \in Events : Take(h, e)
  /\ UNCHANGED <<store, tok, copies, faults>>

MqttNext ==
  \/ \E h \in Handlers : Reading(h)
  \/ \E t \in Threads :
       \/ Working(t)
       \/ TimeoutOnline(t)
       \/ DiskError(t) /\ Fault /\ UNCHANGED <<store, tok, copies>>
  \/ \E m \in store : BrokerReceive(m) \/ PubAck(m)
  \/ ConnectionLost
  \/ \E f \in Reconnects : Reconnect(f)
  \/ ReconnectDeaf
  \/ MqttRestart

MqttSpec == MqttInit /\ [][MqttNext]_mqttVars

(* Goroutines run, the ticker ticks, a timer fires, an open connection     *)
(* carries what is queued on it, and paho keeps reconnecting until it      *)
(* succeeds (SetAutoReconnect, SetConnectRetry).  No fault has to happen   *)
(* and no reading has to arrive.                                           *)
MqttFairness ==
  /\ \A t \in Threads : WF_mqttVars(Working(t))
  /\ WF_mqttVars(\E m \in store : BrokerReceive(m) \/ PubAck(m))
  /\ WF_mqttVars(\E f \in Reconnects : Reconnect(f))

MqttFairSpec == MqttSpec /\ MqttFairness

-----------------------------------------------------------------------------
(* Properties *)

(* paho's client as uplink.go uses it keeps the contract the agent relies  *)
(* on, although publishes outlive their callers, ids are used again and    *)
(* acknowledgements come late: Publish returns nil only to a goroutine     *)
(* that waits, and for an event the broker has; what the broker receives   *)
(* was published.  None of this is a guard of the steps above.             *)
Contract == Spec

(* Without a fault every event reaches the broker at most once, however    *)
(* handlers, the reconnect flush and the periodic flush interleave: two    *)
(* drains never publish the same entry.                                    *)
OnceWithoutFault == faults = 0 => \A e \in Events : copies[e] <= 1

(* Once the faults stop, every event the agent took is delivered or is     *)
(* one of the known losses: the reconnect flush and the periodic flush     *)
(* between them leave nothing behind.                                      *)
EventuallySettled ==
  \A e \in Events : e \in taken ~> e \in delivered \union dropped

(* ... and the file ends empty, so that no later restart replays it.       *)
EventuallyDrained == <>[](file = <<>>)

(* A handler always returns: a drain that holds the lock while it          *)
(* publishes delays the handlers that want to spool, and no more.          *)
HandlersReturn == \A h \in Handlers : pc[h] # "idle" ~> pc[h] = "idle"

(* README.md:286-287 says that "publishes are gated on a live connection,  *)
(* so replay is duplicate-free", README.md:52-53 "exactly once".           *)
ReplayExactlyOnce == \A e \in Events : copies[e] <= 1
=============================================================================
