------------------------------ MODULE CoapUplink ------------------------------
(***************************************************************************)
(* The edge agent over its CoAP uplink (edge-agent/coap.go) and the        *)
(* receiver at the other end (coap-receiver/handler.go): the threads and   *)
(* the buffer of EdgeAgent with the link state, its prober and the POST    *)
(* exchanges in place of the transport contract.                           *)
(*                                                                         *)
(* connected is c.up.  A thread in Publish keeps the conn it read in its   *)
(* Gate (via) whatever happens to c.conn meanwhile.  Sections under c.mu   *)
(* are single steps.  A conn is a UDP socket, told apart by identity; a    *)
(* dial takes one that nothing refers to any more.                         *)
(*                                                                         *)
(* lastOK is kept as whether it lies less than coapProbeInterval before    *)
(* the next tick: a tick that finds it so makes it old.                    *)
(*                                                                         *)
(* A reply, a failed POST, a late arrival or a dial moves the agent on     *)
(* whether or not the contract of EdgeAgent allows it: that it does is     *)
(* what Contract states.                                                   *)
(***************************************************************************)
EXTENDS EdgeAgent

CONSTANTS
  Conns,     (* UDP sockets, by number                                   *)
  Poison,    (* events the receiver can never accept (validate fails)    *)
  MaxFaults  (* how often something goes wrong                           *)

ASSUME CoapAssumption ==
  /\ Conns \subseteq Nat /\ None \notin Conns
  /\ Poison \subseteq Events
  /\ MaxFaults \in Nat

VARIABLES
  conn,       (* c.conn                                                   *)
  open,       (* sockets dialed and not closed                            *)
  via,        (* the conn a publisher read in its Gate                    *)
  post,       (* how far a publisher's POST is                            *)
  probe,      (* the prober: what it waits for, and on which conn         *)
  recent,     (* lastOK is recent                                         *)
  closing,    (* c.done is closed                                         *)
  late,       (* events whose POST may still take effect at the receiver  *)
  reachable,  (* datagrams get through                                    *)
  faults      (* history: how often something went wrong                  *)

linkState  == <<conn, open, recent>>
exchanges  == <<via, post, late>>
world      == <<reachable, faults>>
coapVars   == <<vars, linkState, exchanges, probe, closing, world>>

Replies == {"accepted", "rejected", "unavailable"}

CoapTypeOK ==
  /\ TypeOK
  /\ conn \in Conns \union {None} /\ open \subseteq Conns
  /\ via \in [Threads -> Conns \union {None}]
  /\ post \in [Threads -> Replies \union {"none", "sent", "failed"}]
  /\ probe \in [at : {"idle", "ping", "dial", "stopped"}, on : Conns \union {None}]
  /\ recent \in BOOLEAN /\ closing \in BOOLEAN /\ reachable \in BOOLEAN
  /\ late \subseteq Events
  /\ faults \in 0..MaxFaults

NotProbing == [at |-> "idle", on |-> None]

CoapInit ==
  /\ Init
  /\ conn = None /\ open = {} /\ recent = FALSE
  /\ via = [t \in Threads |-> None]
  /\ post = [t \in Threads |-> "none"]
  /\ late = {}
  /\ probe = NotProbing
  /\ closing = FALSE
  /\ reachable \in BOOLEAN
  /\ faults = 0

Fault == faults < MaxFaults /\ faults' = faults + 1

(* An exchange on socket k cannot succeed: that it fails is no fault of    *)
(* its own.                                                                *)
Hopeless(k) == ~reachable \/ k \notin open

-----------------------------------------------------------------------------
(* Publish *)

(* conn, up := c.conn, c.up under the lock.  The test for a nil conn never *)
(* decides: see SocketsInUse.                                              *)
CoapGate(t) ==
  /\ Gate(t)
  /\ via' = [via EXCEPT ![t] = IF connected THEN conn ELSE None]
  /\ UNCHANGED <<linkState, post, late, probe, closing, world>>

(* conn.Post: the confirmable POST leaves. *)
CoapCall(t) ==
  /\ Call(t)
  /\ post' = [post EXCEPT ![t] = "sent"]
  /\ UNCHANGED <<linkState, via, late, probe, closing, world>>

(* eventsHandler at the receiver: a payload that does not validate is      *)
(* answered 4.00, one that the broker acknowledged 2.04, ...               *)
ReceiverAnswers(t) ==
  /\ post[t] = "sent" /\ ~Hopeless(via[t])
  /\ IF Head(hand[t]) \in Poison
       THEN /\ post' = [post EXCEPT ![t] = "rejected"]
            /\ UNCHANGED vars
       ELSE /\ post' = [post EXCEPT ![t] = "accepted"]
            /\ Arrives(Head(hand[t]))
  /\ UNCHANGED <<linkState, via, late, probe, closing, world>>

(* ... and one that it did not acknowledge in time 5.03, which does not    *)
(* keep it from arriving later.                                            *)
ReceiverUnavailable(t) ==
  /\ post[t] = "sent" /\ ~Hopeless(via[t]) /\ Head(hand[t]) \notin Poison
  /\ Fault
  /\ post' = [post EXCEPT ![t] = "unavailable"]
  /\ late' = late \union {Head(hand[t])}
  /\ UNCHANGED <<vars, linkState, via, probe, closing, reachable>>

(* Mutated form: any reply counts as success. *)
PostReplied_AnyCode(t) ==
  /\ post[t] \in Replies /\ ~Hopeless(via[t])
  /\ ReturnsNil(t)
  /\ post' = [post EXCEPT ![t] = "none"]
  /\ via' = [via EXCEPT ![t] = None]
  /\ recent' = TRUE
  /\ UNCHANGED <<conn, open, late, probe, closing, world>>

(* The reply arrives: c.touch(), and nil for a 2.xx code only.  The link   *)
(* stays up whatever the code.                                             *)
PostReplied(t) ==
  /\ post[t] \in Replies /\ ~Hopeless(via[t])
  /\ IF post[t] = "accepted" THEN ReturnsNil(t) ELSE ReturnsError(t)
  /\ post' = [post EXCEPT ![t] = "none"]
  /\ via' = [via EXCEPT ![t] = None]
  /\ recent' = TRUE
  /\ UNCHANGED <<conn, open, late, probe, closing, world>>

(* Drop the failed conn so that the prober dials again.  A conn that       *)
(* replaced it is spared, but c.up is not.                                 *)
MarkDown(failed) ==
  /\ open' = IF conn = failed THEN open \ {failed} ELSE open
  /\ conn' = IF conn = failed THEN None ELSE conn
  /\ LinkDown

(* coapPostTimeout, or the socket was closed under the POST: markDown of   *)
(* the conn this publisher used.  The request may still get through.       *)
PostFailed(t) ==
  /\ post[t] \in Replies \union {"sent"}
  /\ MarkDown(via[t])
  /\ late' = IF post[t] = "sent" THEN late \union ({Head(hand[t])} \ Poison) ELSE late
  /\ post' = [post EXCEPT ![t] = "failed"]
  /\ UNCHANGED <<recent, via, probe, closing, reachable>>

(* ... and Publish returns the error. *)
PostErrReturned(t) ==
  /\ post[t] = "failed"
  /\ ReturnsError(t)
  /\ post' = [post EXCEPT ![t] = "none"]
  /\ via' = [via EXCEPT ![t] = None]
  /\ UNCHANGED <<linkState, late, probe, closing, world>>

(* What a POST left behind takes effect after its caller gave up. *)
ArriveLate(e) ==
  /\ e \in late
  /\ late' = late \ {e}
  /\ Arrives(e)
  /\ UNCHANGED <<linkState, via, post, probe, closing, world>>

-----------------------------------------------------------------------------
(* probeLoop *)

(* Sockets no goroutine refers to: the lowest stands for a new dial. *)
Unused == Conns \ (open \union {conn, probe.on} \union Range(via))

(* Mutated form: a link believed up is never pinged. *)
ProbeTick_TrustsUp ==
  /\ probe.at = "idle"
  /\ ~connected /\ Unused # {}
  /\ LET k == CHOOSE i \in Unused : \A j \in Unused : i <= j
     IN  /\ open' = open \union {k}
         /\ probe' = [at |-> "dial", on |-> k]
  /\ UNCHANGED <<vars, conn, recent, exchanges, closing, world>>

(* A tick, also one the select prefers to a closed c.done.  The link state *)
(* is read once: a recent exchange settles it, a link that is up is pinged *)
(* on its conn, and otherwise a new socket is dialed and pinged.  A dial   *)
(* that fails (DNS) changes nothing.                                       *)
ProbeTick ==
  /\ probe.at = "idle"
  /\ IF connected /\ recent
       THEN /\ recent' = FALSE
            /\ UNCHANGED <<open, probe>>
       ELSE IF connected
       THEN /\ probe' = [at |-> "ping", on |-> conn]
            /\ UNCHANGED <<open, recent>>
       ELSE /\ Unused # {}
            /\ LET k == CHOOSE i \in Unused : \A j \in Unused : i <= j
               IN  /\ open' = open \union {k}
                   /\ probe' = [at |-> "dial", on |-> k]
            /\ UNCHANGED recent
  /\ UNCHANGED <<vars, conn, exchanges, closing, world>>

(* The conn in use answers its ping: c.touch(). *)
PingOk ==
  /\ probe.at = "ping" /\ ~Hopeless(probe.on)
  /\ recent' = TRUE
  /\ probe' = NotProbing
  /\ UNCHANGED <<vars, conn, open, exchanges, closing, world>>

PingFailed ==
  /\ probe.at = "ping"
  /\ MarkDown(probe.on)
  /\ probe' = NotProbing
  /\ UNCHANGED <<recent, exchanges, closing, reachable>>

(* wasUp := c.up; c.up = true; if !wasUp { go c.onUp() }                   *)
MarkedUp(f) == pc[f] = "idle" /\ IF connected THEN UNCHANGED vars ELSE ComesUp(f)

(* Mutated form: the conn that is replaced is not closed. *)
DialOk_KeepsOld(f) ==
  /\ probe.at = "dial" /\ ~Hopeless(probe.on)
  /\ conn' = probe.on
  /\ recent' = TRUE
  /\ MarkedUp(f)
  /\ probe' = NotProbing
  /\ UNCHANGED <<open, exchanges, closing, world>>

(* The new socket answers: c.markUp closes the conn it replaces and, on    *)
(* the down-to-up edge, starts the flush.                                  *)
DialOk(f) ==
  /\ probe.at = "dial" /\ ~Hopeless(probe.on)
  /\ open' = open \ ({conn} \ {probe.on})
  /\ conn' = probe.on
  /\ recent' = TRUE
  /\ MarkedUp(f)
  /\ probe' = NotProbing
  /\ UNCHANGED <<exchanges, closing, world>>

(* Mutated form: the prober gives up after a failed dial. *)
DialFailed_GivesUp ==
  /\ probe.at = "dial"
  /\ open' = open \ {probe.on}
  /\ probe' = [at |-> "stopped", on |-> None]
  /\ UNCHANGED <<vars, conn, recent, exchanges, closing, reachable>>

(* The new socket does not answer and is closed again. *)
DialFailed ==
  /\ probe.at = "dial"
  /\ open' = open \ {probe.on}
  /\ probe' = NotProbing
  /\ UNCHANGED <<vars, conn, recent, exchanges, closing, reachable>>

ProbeStops ==
  /\ probe.at = "idle" /\ closing
  /\ probe' = [NotProbing EXCEPT !.at = "stopped"]
  /\ UNCHANGED <<vars, linkState, exchanges, closing, world>>

-----------------------------------------------------------------------------
(* Shutdown, the network, and the process *)

(* uplink.Close(), from main on SIGTERM. *)
Close ==
  /\ ~closing /\ Fault
  /\ closing' = TRUE
  /\ open' = open \ {conn}
  /\ conn' = None
  /\ LinkDown
  /\ UNCHANGED <<recent, exchanges, probe, reachable>>

PathDown ==
  /\ reachable /\ Fault
  /\ reachable' = FALSE
  /\ UNCHANGED <<vars, linkState, exchanges, probe, closing>>

PathUp ==
  /\ ~reachable
  /\ reachable' = TRUE
  /\ UNCHANGED <<vars, linkState, exchanges, probe, closing, faults>>

(* The process ends, after Close or by a crash; its datagrams may arrive.  *)
CoapRestart ==
  /\ IF closing THEN UNCHANGED faults ELSE Fault
  /\ Restart
  /\ conn' = None /\ open' = {} /\ recent' = FALSE
  /\ via' = [t \in Threads |-> None]
  /\ post' = [t \in Threads |-> "none"]
  /\ late' = late \union
       ({Head(hand[t]) : t \in {u \in Threads : post[u] = "sent"}} \ Poison)
  /\ probe' = NotProbing
  /\ closing' = FALSE
  /\ UNCHANGED reachable

-----------------------------------------------------------------------------
AgentStep(t) ==
  \/ t \in Handlers /\ Add(t)
  \/ t \in Flushers /\ (DrainStart(t, TRUE) \/ Rewrite(t, TRUE))
  \/ t = Periodic /\ (Tick \/ CheckLen(TRUE))
  \/ Measure(t, TRUE) \/ SetGauge(t)

(* What the agent's goroutines do while nothing goes wrong that costs a    *)
(* fault.                                                                  *)
Working(t) ==
  \/ AgentStep(t) /\ UNCHANGED <<linkState, exchanges, probe, closing, world>>
  \/ CoapGate(t)
  \/ CoapCall(t)
  \/ PostReplied(t)
  \/ PostFailed(t) /\ Hopeless(via[t]) /\ UNCHANGED faults
  \/ PostErrReturned(t)

Probing ==
  \/ ProbeTick
  \/ PingOk
  \/ PingFailed /\ Hopeless(probe.on) /\ UNCHANGED faults
  \/ \E f \in Reconnects : DialOk(f)
  \/ DialFailed /\ Hopeless(probe.on) /\ UNCHANGED faults
  \/ ProbeStops

Reading(h) ==
  /\ \E e \in Events : Take(h, e)
  /\ UNCHANGED <<linkState, exchanges, probe, closing, world>>

(* An exchange that might have worked fails all the same. *)
Timeout ==
  /\ \/ \E t \in Threads : PostFailed(t) /\ ~Hopeless(via[t])
     \/ PingFailed /\ ~Hopeless(probe.on)
     \/ DialFailed /\ ~Hopeless(probe.on)
  /\ Fault

CoapNext ==
  \/ \E h \in Handlers : Reading(h)
  \/ \E t \in Threads : Working(t) \/ ReceiverAnswers(t) \/ ReceiverUnavailable(t)
  \/ \E e \in Events : ArriveLate(e)
  \/ Probing
  \/ Timeout
  \/ Close
  \/ PathDown
  \/ PathUp
  \/ CoapRestart

CoapSpec == CoapInit /\ [][CoapNext]_coapVars

(* Goroutines run, timers fire, the receiver answers what reaches it, the  *)
(* prober's ticker ticks, and a process that was told to stop does.  That  *)
(* the network ever works again is not assumed here.                       *)
CoapFairness ==
  /\ \A t \in Threads : WF_coapVars(Working(t))
  /\ \A t \in Threads : WF_coapVars(ReceiverAnswers(t))
  /\ WF_coapVars(Probing)
  /\ WF_coapVars(closing /\ CoapRestart)

CoapFairSpec == CoapSpec /\ CoapFairness

-----------------------------------------------------------------------------
(* Properties *)

(* The CoAP uplink keeps the contract the agent relies on, in whatever     *)
(* order replies, timeouts, probes and Close come: Publish returns nil     *)
(* only to a goroutine that waits, and for an event the receiver's broker  *)
(* has; what arrives late was posted.  None of this is a guard of the      *)
(* steps above.                                                            *)
Contract == Spec

(* Whatever order timeouts, probes and Close come in, a link that is up    *)
(* has an open conn, so that no publisher passes the gate with a nil or a  *)
(* closed one; and every open socket is the one in use or the one being    *)
(* probed: one that was replaced, or that failed, is closed by somebody.   *)
SocketsInUse ==
  /\ connected => conn \in open
  /\ open \subseteq {conn, probe.on}

(* A link that is up on a path that is dead is noticed, also without any   *)
(* publish traffic (coap.go:8-13).                                         *)
DeadLinkNoticed == (connected /\ ~reachable) ~> (~connected \/ reachable)

(* Once the path works for good, the link comes up and stays up.           *)
LinkRecovers == <>[]reachable => <>[]connected

(* ... and every event is delivered or is one of the known losses.         *)
EventuallySettled ==
  <>[]reachable => \A e \in Events : e \in taken ~> e \in delivered \union dropped
=============================================================================
