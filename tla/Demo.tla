---------------------------------- MODULE Demo ----------------------------------
(***************************************************************************)
(* The fault-injection demo (scripts/demo.py) against the simulator and    *)
(* the pipeline: it injects a fault, watches the sensor stream for the     *)
(* episode, counts the anomaly events that fall into it, and audits all    *)
(* events against the labels of the readings they are about.               *)
(*                                                                         *)
(* A reading's ts is its round; the intervals of demo.py:179 (0.25 s and   *)
(* 0.01 s around an episode of readings 0.5 s apart) then take the rounds  *)
(* from start to just before end.  Readings reach the feed in order, those *)
(* that reach it: the demo subscribes with QoS 0 and again after each      *)
(* reconnect (demo.py:113), so any of them may be missing.  Of the agent,  *)
(* the broker and the outages in between only this much is kept: an event  *)
(* about any published reading may arrive at any time, on either broker    *)
(* and again.                                                              *)
(***************************************************************************)
EXTENDS Simulator, FiniteSets

CONSTANTS
  Patient,    (* the machine of the scenario                              *)
  Ailment,    (* its fault                                                *)
  Ticks       (* --ticks                                                  *)

ASSUME DemoAssumption == Patient \in Fleet /\ Ailment \in FaultTypes /\ Ticks \in Int

VARIABLES
  received,   (* Feed.readings: which of each machine's have arrived      *)
  feed,       (* Feed.events: how many there are of each machine and ts   *)
  step,       (* where main() is                                          *)
  base,       (* those of the machine that had before the injection       *)
  start, end, (* the episode's first reading, and the first after it      *)
  row,        (* what the scenario reports                                *)
  audit       (* what the audit reports                                   *)

feedVars == <<received, feed>>
mainVars == <<step, base, start, end, row, audit>>
demoVars == <<simVars, feedVars, mainVars>>

Missing == [result |-> "none", flagged |-> 0, seen |-> 0, nth |-> 0]
NoAudit == [of |-> [m \in Fleet |-> {}], falsePositives |-> 0]

DemoInit ==
  /\ SimInit
  /\ received = [m \in Fleet |-> {}]
  /\ feed = [m \in Fleet |-> [k \in 1..MaxRounds |-> 0]]
  /\ step = "base" /\ base = {} /\ start = 0 /\ end = 0
  /\ row = Missing /\ audit = NoAudit

-----------------------------------------------------------------------------
(* Feed.on_message.  Its threads append whenever they like, but what they  *)
(* appended matters only when main() looks, so it is taken in then.        *)

(* Any more of the readings of some machines, in the order of the streams: *)
(* what a later one overtook is lost.                                      *)
Outstanding(m) == {k \in 1..Len(stream[m]) : \A j \in received[m] : j < k}
ReadingsArrive(ms) ==
  \E news \in [ms -> SUBSET (1..MaxRounds)] :
    /\ \A m \in ms : news[m] \subseteq Outstanding(m)
    /\ received' = [m \in Fleet |-> IF m \in ms THEN received[m] \union news[m] ELSE received[m]]

(* Mutated form: what arrives on both brokers is kept twice. *)
Kept_Twice(known, copies) == known + copies

(* An event whose machine and ts were seen before is dropped. *)
Kept(known, copies) == IF known = 0 /\ copies > 0 THEN 1 ELSE known

(* The published readings of some machines: any of them may be the subject *)
(* of events.                                                              *)
Published(ms) == {e \in ms \X (1..MaxRounds) : e[2] <= Len(stream[e[1]])}

(* The feed once these events have arrived, each on both brokers. *)
FeedWith(news) ==
  [m \in Fleet |-> [k \in 1..MaxRounds |->
     Kept(feed[m][k], IF <<m, k>> \in news THEN 2 ELSE 0)]]

(* How many events a feed has of a set of readings. *)
EventsOf(events, readings) ==
  Cardinality({e \in readings \X (1..2) : e[2] <= events[e[1][1]][e[1][2]]})

-----------------------------------------------------------------------------
(* main() *)

(* base = len(readings), before the command leaves: readings[base:] will   *)
(* be the others.                                                          *)
TakeBase ==
  /\ step = "base"
  /\ ReadingsArrive({Patient}) /\ base' = received'[Patient]
  /\ step' = "inject"
  /\ UNCHANGED <<simVars, feed, start, end, row, audit>>

Scenario ==
  [topic |-> control_topic(Layout, Patient), machine |-> Patient,
   fault |-> Ailment, ticks |-> Ticks]

Inject ==
  /\ step = "inject"
  /\ queue' = Append(queue, Scenario)
  /\ step' = "bounds"
  /\ UNCHANGED <<machineVars, turn, running, stream, sent, feedVars, base, start, end, row, audit>>

(* The least element of a set of numbers. *)
Least(S) == CHOOSE k \in S : \A j \in S : k <= j

(* What has a later ts than one of readings[base:] is one of them too. *)
Starts == {k \in received'[Patient] \ base : stream[Patient][k] = Ailment}
EndsAfter(k) == {j \in received'[Patient] : k < j /\ stream[Patient][j] = NoFault}

(* fault_bounds: both ends of the episode have been seen. *)
Bound ==
  /\ step = "bounds"
  /\ ReadingsArrive({Patient})
  /\ Starts # {} /\ EndsAfter(Least(Starts)) # {}
  /\ start' = Least(Starts) /\ end' = Least(EndsAfter(Least(Starts)))
  /\ step' = "count"
  /\ UNCHANGED <<simVars, feed, base, row, audit>>

(* wait_for returned None. *)
NeverObserved ==
  /\ step = "bounds"
  /\ row' = [Missing EXCEPT !.result = "FAIL"]
  /\ step' = "snapshot"
  /\ UNCHANGED <<simVars, feedVars, base, start, end, audit>>

(* Mutated form: the reading that ends the episode counts as part of it. *)
Inside_WithEnd(k) == start <= k /\ k <= end

Inside(k) == start <= k /\ k < end

(* machine_events, and then machine_readings. *)
Count ==
  /\ step = "count"
  /\ \E news \in SUBSET Published({Patient}) : feed' = FeedWith(news)
  /\ ReadingsArrive({Patient})
  /\ LET hits == {k \in 1..MaxRounds : Inside(k) /\ feed'[Patient][k] > 0}
         seen == {k \in received'[Patient] : start <= k /\ k < end}
     IN  row' = IF hits = {} THEN [Missing EXCEPT !.result = "MISSED"]
                ELSE [result  |-> "PASS",
                      flagged |-> EventsOf(feed', {<<Patient, k>> : k \in hits}),
                      seen    |-> Cardinality(seen),
                      nth     |-> Cardinality({k \in seen : k <= Least(hits)})]
  /\ step' = "snapshot"
  /\ UNCHANGED <<simVars, base, start, end, audit>>

(* The audit copies the readings under the lock, ... *)
Snapshot ==
  /\ step = "snapshot"
  /\ ReadingsArrive(Fleet)
  /\ audit' = [audit EXCEPT !.of = received']
  /\ step' = "audit"
  /\ UNCHANGED <<simVars, feed, base, start, end, row>>

(* The readings that the audit knows to be healthy. *)
HealthySeen ==
  {e \in Fleet \X (1..MaxRounds) : e[2] \in audit.of[e[1]] /\ stream[e[1]][e[2]] = NoFault}

(* ... and then, under the lock again, the events: one whose reading came  *)
(* too late or got lost is left out, one about a healthy reading is a      *)
(* false positive.  News about other readings makes no difference.         *)
Audit ==
  /\ step = "audit"
  /\ \E news \in SUBSET HealthySeen :
       audit' = [audit EXCEPT !.falsePositives = EventsOf(FeedWith(news), HealthySeen)]
  /\ step' = "done"  \* nobody looks at the feed again
  /\ UNCHANGED <<simVars, feedVars, base, start, end, row>>

DemoNext ==
  \/ SimNext /\ step # "done" /\ UNCHANGED <<feedVars, mainVars>>
  \/ TakeBase
  \/ Inject
  \/ Bound
  \/ NeverObserved
  \/ Count
  \/ Snapshot
  \/ Audit

DemoSpec == DemoInit /\ [][DemoNext]_demoVars

-----------------------------------------------------------------------------
(* Properties *)

(* A scenario that passes was detected within the episode, and its counts  *)
(* are possible: every reading it has of the episode is faulty, and the    *)
(* events it flags are no more than the readings of the episode, those     *)
(* that got lost included, however late, repeated or out of order the      *)
(* events came and whatever other commands hit the machine.  Only if none  *)
(* got lost are they no more than the readings it has seen (demo.py:197    *)
(* prints the one count over the other).                                   *)
RowHonest ==
  row.result = "PASS" =>
    /\ 1 <= row.nth /\ row.nth <= row.seen
    /\ 1 <= row.flagged /\ row.flagged <= end - start
    /\ start .. end - 1 \subseteq received[Patient] => row.flagged <= row.seen
    /\ \A k \in received[Patient] : Inside(k) => stream[Patient][k] # NoFault

(* However often the brokers deliver an event, and whatever arrives        *)
(* between the audit's two looks at the feed, it never finds more false    *)
(* positives than healthy readings: fp_rate is a rate (demo.py:206-226).   *)
AuditHonest ==
  step = "done" =>
    audit.falsePositives <= Cardinality(HealthySeen)
=============================================================================
