------------------------------- MODULE EdgeAgent -------------------------------
(***************************************************************************)
(* The edge agent (edge-agent/main.go, edge-agent/buffer.go) over any      *)
(* uplink that keeps the contract of edge-agent/uplink.go:22-36.           *)
(*                                                                         *)
(* Threads.  SetOrderMatters(false) makes paho call the message handler on *)
(* a goroutine per reading: a Handler is one of them, from the moment the  *)
(* reading turned out to be an anomaly until the handler returns.          *)
(* Readings that do not decode, are not scored or are not anomalous leave  *)
(* no trace in the state kept here.  A Flusher is a goroutine in flush():  *)
(* one per `go onUp()` (Reconnects) and the 30 s ticker's (Periodic).      *)
(*                                                                         *)
(* The buffer file is a sequence, oldest event first; write(nil) removes   *)
(* the file and a missing file reads as empty, so <<>> is both.  What      *)
(* Add and Len do between Lock and Unlock touches only the file, which     *)
(* nothing else touches without the lock, so each is one step.  DrainTo    *)
(* publishes while it holds the lock and takes many.                       *)
(*                                                                         *)
(* The transport.  Publish tests the link (Gate), hands the event over     *)
(* (Call) and waits: nil only once the far side has the event, an error at *)
(* any time, and an event handed over may arrive whatever the caller was   *)
(* told.  MqttUplink and CoapUplink replace this contract by the code:     *)
(* they take over what a step does to the agent (ReturnsNil, ReturnsError, *)
(* Arrives, ComesUp) and leave out when the contract allows it, which they *)
(* have to live up to.                                                     *)
(***************************************************************************)
EXTENDS Integers, Sequences, Functions

CONSTANTS
  Events,      (* anomaly events, told apart by identity only            *)
  Handlers,    (* concurrent sensor-message handlers                     *)
  Reconnects,  (* concurrent `go onUp()` goroutines                      *)
  Periodic,    (* the goroutine of the flush ticker                      *)
  Capacity,    (* bufferCapacity, 10 000 in main.go:41                   *)
  None         (* no thread holds the lock                               *)

Flushers == Reconnects \union {Periodic}
Threads  == Handlers \union Flushers

ASSUME CapacityAssumption == Capacity \in Nat \ {0}
ASSUME ThreadsAssumption ==
  /\ Handlers \cap Flushers = {}
  /\ Periodic \notin Reconnects
  /\ None \notin Threads

VARIABLES
  file,       (* the buffer file                                           *)
  lock,       (* the thread that holds EventBuffer.mu, or None             *)
  pc,         (* where each goroutine is                                   *)
  hand,       (* a handler's event; what a flusher still has to publish    *)
  seen,       (* the Len() a goroutine is about to store in the gauge      *)
  depth,      (* the gauge edgesense_buffer_depth                          *)
  connected,  (* uplink.Connected()                                        *)
  handed,     (* events given to the transport, ever                       *)
  delivered,  (* events the far side of the uplink has                     *)
  taken,      (* history: events the handlers made                         *)
  dropped     (* history: events given up without a delivery               *)

bufferVars == <<file, lock>>
threadVars == <<pc, hand, seen>>
linkVars   == <<connected, handed, delivered>>
historyVars == <<taken, dropped>>
vars == <<bufferVars, threadVars, depth, linkVars, historyVars>>

Steps == {"idle", "tick", "drain", "gate", "call", "wait", "add", "rewrite",
          "measure", "set"}

(* Where DrainTo is between Lock and Unlock, as seen from a flusher. *)
Draining(f) == pc[f] \in {"gate", "call", "wait", "rewrite"}

TypeOK ==
  /\ file \in Seq(Events) /\ Len(file) <= Capacity
  /\ lock \in Flushers \union {None}
  /\ pc \in [Threads -> Steps]
  /\ hand \in [Threads -> Seq(Events)]
  /\ seen \in [Threads -> 0..Capacity]
  /\ depth \in 0..Capacity
  /\ connected \in BOOLEAN
  /\ handed \subseteq Events /\ delivered \subseteq Events
  /\ taken \subseteq Events /\ dropped \subseteq Events

Init ==
  /\ file = <<>> /\ lock = None
  /\ pc = [t \in Threads |-> "idle"]
  /\ hand = [t \in Threads |-> <<>>]
  /\ seen = [t \in Threads |-> 0]
  /\ depth = 0
  /\ connected = FALSE
  /\ handed = {} /\ delivered = {}
  /\ taken = {} /\ dropped = {}

Goto(t, step) == pc' = [pc EXCEPT ![t] = step]

-----------------------------------------------------------------------------
(* uplink.Publish, called by a handler on its new event and by DrainTo on  *)
(* each event it read.                                                     *)

(* What the caller does with an error: the handler spools the event, and   *)
(* DrainTo stops and rewrites the file.                                    *)
PublishFailed(t) == Goto(t, IF t \in Handlers THEN "add" ELSE "rewrite")

(* The test that makes an outage fail fast. *)
Gate(t) ==
  /\ pc[t] = "gate"
  /\ IF connected THEN Goto(t, "call") ELSE PublishFailed(t)
  /\ UNCHANGED <<bufferVars, hand, seen, depth, linkVars, historyVars>>

(* The link may have gone down since the test. *)
Call(t) ==
  /\ pc[t] = "call"
  /\ Goto(t, "wait")
  /\ handed' = handed \union {Head(hand[t])}
  /\ UNCHANGED <<bufferVars, hand, seen, depth, connected, delivered, historyVars>>

(* Publish returns nil: the handler is done, and DrainTo goes on.          *)
ReturnsNil(t) ==
  /\ hand' = [hand EXCEPT ![t] = Tail(@)]
  /\ Goto(t, IF t \in Handlers THEN "idle"
             ELSE IF Len(hand[t]) = 1 THEN "rewrite" ELSE "gate")
  /\ UNCHANGED <<bufferVars, seen, depth, linkVars, historyVars>>

ReturnsError(t) ==
  /\ PublishFailed(t)
  /\ UNCHANGED <<bufferVars, hand, seen, depth, linkVars, historyVars>>

PublishOk(t) == pc[t] = "wait" /\ Head(hand[t]) \in delivered /\ ReturnsNil(t)

PublishErr(t) == pc[t] = "wait" /\ ReturnsError(t)

-----------------------------------------------------------------------------
(* The message handler. *)

(* A reading scored as an anomaly becomes an event. *)
Take(h, e) ==
  /\ pc[h] = "idle"
  /\ e \notin taken
  /\ taken' = taken \union {e}
  /\ hand' = [hand EXCEPT ![h] = <<e>>]
  /\ Goto(h, "gate")
  /\ UNCHANGED <<bufferVars, seen, depth, linkVars, dropped>>

(* Mutated forms: the slice forgotten, and evs[:b.max]. *)
Newest_Unbounded(evs) == evs
Newest_KeepsOldest(evs) == IF Len(evs) > Capacity THEN SubSeq(evs, 1, Capacity) ELSE evs

(* evs[len(evs)-b.max:] *)
Newest(evs) ==
  IF Len(evs) > Capacity THEN SubSeq(evs, Len(evs) - Capacity + 1, Len(evs)) ELSE evs

(* EventBuffer.Add: read, append, drop the oldest beyond capacity, write. *)
Add(h) ==
  /\ pc[h] = "add" /\ lock = None
  /\ file' = Newest(Append(file, Head(hand[h])))
  /\ dropped' = dropped \union
       {file[i] : i \in 1..(Len(file) + 1 - Len(file'))}
  /\ hand' = [hand EXCEPT ![h] = <<>>]
  /\ Goto(h, "measure")
  /\ UNCHANGED <<lock, seen, depth, linkVars, taken>>

(* Reading or writing the file fails: the handler logs EVENT LOST and      *)
(* returns before it touches the gauge.                                    *)
AddFails(h) ==
  /\ pc[h] = "add" /\ lock = None
  /\ dropped' = dropped \union {Head(hand[h])}
  /\ hand' = [hand EXCEPT ![h] = <<>>]
  /\ Goto(h, "idle")
  /\ UNCHANGED <<bufferVars, seen, depth, linkVars, taken>>

-----------------------------------------------------------------------------
(* flush(trigger): DrainTo, then the gauge. *)

(* The ticker fired; Connected() and Len() > 0 are two reads, and the      *)
(* flush that follows makes neither of them again.                         *)
Tick ==
  /\ pc[Periodic] = "idle" /\ connected
  /\ Goto(Periodic, "tick")
  /\ UNCHANGED <<bufferVars, hand, seen, depth, linkVars, historyVars>>

(* Mutated form: the periodic flush never runs. *)
CheckLen_Never(readable) ==
  /\ pc[Periodic] = "tick" /\ lock = None
  /\ Goto(Periodic, "idle")
  /\ UNCHANGED <<bufferVars, hand, seen, depth, linkVars, historyVars>>

(* Len() is 0 when the file cannot be read. *)
CheckLen(readable) ==
  /\ pc[Periodic] = "tick" /\ lock = None
  /\ Goto(Periodic, IF readable /\ file # <<>> THEN "drain" ELSE "idle")
  /\ UNCHANGED <<bufferVars, hand, seen, depth, linkVars, historyVars>>

(* Mutated form: DrainTo lets go of the lock before it publishes. *)
DrainStart_Unlocked(f, readable) ==
  /\ pc[f] = "drain" /\ lock = None
  /\ IF readable /\ file # <<>>
       THEN /\ hand' = [hand EXCEPT ![f] = file]
            /\ Goto(f, "gate")
       ELSE /\ Goto(f, "measure")
            /\ UNCHANGED hand
  /\ UNCHANGED <<bufferVars, seen, depth, linkVars, historyVars>>

(* Lock and read; an empty or unreadable file ends the drain. *)
DrainStart(f, readable) ==
  /\ pc[f] = "drain" /\ lock = None
  /\ IF readable /\ file # <<>>
       THEN /\ lock' = f
            /\ hand' = [hand EXCEPT ![f] = file]
            /\ Goto(f, "gate")
       ELSE /\ Goto(f, "measure")
            /\ UNCHANGED <<lock, hand>>
  /\ UNCHANGED <<file, seen, depth, linkVars, historyVars>>

(* Mutated forms: write(nil) whatever stopped the drain; the file opened   *)
(* for appending; nothing written after a complete drain; and a return     *)
(* that does not unlock after a failed publish.                            *)
RewriteAs(f, contents, holder) ==
  /\ pc[f] = "rewrite"
  /\ file' = contents
  /\ lock' = holder
  /\ hand' = [hand EXCEPT ![f] = <<>>]
  /\ Goto(f, "measure")
  /\ UNCHANGED <<seen, depth, linkVars, historyVars>>
Rewrite_Clears(f, writable)    == RewriteAs(f, IF writable THEN <<>> ELSE file, None)
Rewrite_Appends(f, writable)   == RewriteAs(f, IF writable THEN file \o hand[f] ELSE file, None)
Rewrite_Forgets(f, writable)   ==
  RewriteAs(f, IF writable /\ hand[f] # <<>> THEN hand[f] ELSE file, None)
Rewrite_KeepsLock(f, writable) ==
  RewriteAs(f, IF writable THEN hand[f] ELSE file, IF hand[f] = <<>> THEN None ELSE f)

(* write(evs[i:]) after a failure, write(nil) after the last event: both   *)
(* keep what is still to be published.  Then Unlock.                       *)
Rewrite(f, writable) ==
  /\ pc[f] = "rewrite"
  /\ file' = IF writable THEN hand[f] ELSE file
  /\ lock' = None
  /\ hand' = [hand EXCEPT ![f] = <<>>]
  /\ Goto(f, "measure")
  /\ UNCHANGED <<seen, depth, linkVars, historyVars>>

(* bufferDepth.Set(float64(buffer.Len())), after an Add and after a drain: *)
(* the lock covers Len but not Set.                                        *)
Measure(t, readable) ==
  /\ pc[t] = "measure" /\ lock = None
  /\ seen' = [seen EXCEPT ![t] = IF readable THEN Len(file) ELSE 0]
  /\ Goto(t, "set")
  /\ UNCHANGED <<bufferVars, hand, depth, linkVars, historyVars>>

SetGauge(t) ==
  /\ pc[t] = "set"
  /\ depth' = seen[t]
  /\ seen' = [seen EXCEPT ![t] = 0]
  /\ Goto(t, "idle")
  /\ UNCHANGED <<bufferVars, hand, linkVars, historyVars>>

-----------------------------------------------------------------------------
(* The uplink and the process, as far as the agent sees them. *)

(* `go onUp()`, which is a flush ... *)
ComesUp(f) ==
  /\ connected' = TRUE
  /\ Goto(f, "drain")
  /\ UNCHANGED <<bufferVars, hand, seen, depth, handed, delivered, historyVars>>

(* ... on a down-to-up transition. *)
LinkUp(f) == ~connected /\ pc[f] = "idle" /\ ComesUp(f)

(* With a single broker the local client is the uplink too, and its        *)
(* connect handler subscribes to the readings first: when that fails it    *)
(* returns, and nothing is flushed.  (That no readings arrive until the    *)
(* next reconnect is not used: Take stays possible.)                       *)
LinkUpDeaf ==
  /\ ~connected /\ connected' = TRUE
  /\ UNCHANGED <<bufferVars, threadVars, depth, handed, delivered, historyVars>>

LinkDown ==
  /\ connected' = FALSE
  /\ UNCHANGED <<bufferVars, threadVars, depth, handed, delivered, historyVars>>

(* The far side takes an event ... *)
Arrives(e) ==
  /\ delivered' = delivered \union {e}
  /\ UNCHANGED <<bufferVars, threadVars, depth, connected, handed, historyVars>>

(* ... that was handed over. *)
Deliver(e) == e \in handed /\ Arrives(e)

(* The process ends, by SIGTERM as by a crash, without waiting for its     *)
(* goroutines, and starts again on the same file, with the gauge at Len(). *)
Restart ==
  /\ lock' = None
  /\ pc' = [t \in Threads |-> "idle"]
  /\ hand' = [t \in Threads |-> <<>>]
  /\ seen' = [t \in Threads |-> 0]
  /\ \E readable \in BOOLEAN : depth' = IF readable THEN Len(file) ELSE 0
  /\ connected' = FALSE
  /\ dropped' = dropped \union UNION {Range(hand[h]) : h \in Handlers}
  /\ UNCHANGED <<file, handed, delivered, taken>>

-----------------------------------------------------------------------------
HandlerStep(h) ==
  \/ \E e \in Events : Take(h, e)
  \/ Add(h)
  \/ AddFails(h)

FlusherStep(f) ==
  \/ \E readable \in BOOLEAN : DrainStart(f, readable)
  \/ \E writable \in BOOLEAN : Rewrite(f, writable)

PublishStep(t) == Gate(t) \/ Call(t) \/ PublishOk(t) \/ PublishErr(t)

GaugeStep(t) == (\E readable \in BOOLEAN : Measure(t, readable)) \/ SetGauge(t)

Next ==
  \/ \E h \in Handlers : HandlerStep(h)
  \/ \E f \in Flushers : FlusherStep(f)
  \/ \E t \in Threads : PublishStep(t) \/ GaugeStep(t)
  \/ Tick
  \/ \E readable \in BOOLEAN : CheckLen(readable)
  \/ \E f \in Reconnects : LinkUp(f)
  \/ LinkUpDeaf
  \/ LinkDown
  \/ \E e \in Events : Deliver(e)
  \/ Restart

Spec == Init /\ [][Next]_vars

-----------------------------------------------------------------------------
(* Properties *)

InHand == UNION {Range(hand[h]) : h \in Handlers}

(* No event disappears without a trace: whatever the threads, the link and *)
(* the disk do, an event a handler made is in a handler's hands, in the    *)
(* file, at the far side, or one of the losses the code knows about        *)
(* (EVENT LOST, oldest dropped, process stopped).                          *)
Accounted == taken \subseteq InHand \union Range(file) \union delivered \union dropped

(* An event has one place in the agent: it is not in the file twice, not   *)
(* with two handlers, and not in the file while a handler still holds it.  *)
(* A drain or an Add that put an event back a second time would replay it  *)
(* twice with no help from the network.                                    *)
OnePlace ==
  /\ IsInjective(file)
  /\ \A h \in Handlers :
       /\ Range(hand[h]) \cap Range(file) = {}
       /\ \A g \in Handlers \ {h} : Range(hand[h]) \cap Range(hand[g]) = {}

(* Every step keeps the file, appends to it, or removes its oldest         *)
(* entries; entries leave undelivered only one at a time and only from a   *)
(* full file (buffer.go:13-15).                                            *)
SpoolStep ==
  \/ \E n \in 0..Len(file) :
       /\ file' = SubSeq(file, n + 1, Len(file))
       /\ \A i \in 1..n : file[i] \in delivered
  \/ \E e \in Events :
       \/ Len(file) < Capacity /\ file' = Append(file, e)
       \/ Len(file) = Capacity /\ file' = Append(Tail(file), e)

SpoolDiscipline == [][SpoolStep]_vars

(* The agent keeps the promise of StoreForward. *)
Promise == INSTANCE StoreForward WITH inHand <- InHand, spool <- file

Promised == Promise!Spec
=============================================================================
