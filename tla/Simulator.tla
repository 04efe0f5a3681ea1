------------------------------- MODULE Simulator -------------------------------
(***************************************************************************)
(* The sensor simulator (simulator/simulate.py): machines whose fault      *)
(* episodes count down a reading at a time, and the control commands that  *)
(* start and end them.                                                     *)
(*                                                                         *)
(* paho's thread only queues a command; the main loop applies what is      *)
(* queued and then lets every machine publish a reading, in a fixed order. *)
(* Of a reading only the label fault_injected is kept; the k-th reading of *)
(* every machine belongs to round k.                                       *)
(***************************************************************************)
EXTENDS Topics

CONSTANTS
  Layout,        (* the topic layout in force                              *)
  Machines,      (* the machine ids, in the order of the fleet's dict      *)
  FaultTypes,    (* FAULT_TYPES                                            *)
  NoFault,       (* fault is None                                          *)
  NotANumber,    (* a value of ticks that int() refuses                    *)
  RandomTicks,   (* lengths of the episodes that start by themselves       *)
  Commands,      (* control messages that may be published                 *)
  MaxCommands,   (* how many are, not counting the demo's                  *)
  MaxRounds,     (* readings per machine                                   *)
  MaxEpisodes    (* a machine with as many does not fall ill by itself     *)

Fleet == {Machines[i] : i \in DOMAIN Machines}

ASSUME SimulatorAssumption ==
  /\ Machines \in Seq(STRING) /\ Machines # <<>> /\ Unaddressed \notin Fleet
  /\ NoFault \notin FaultTypes /\ {NoFault, "clear"} \cap FaultTypes = {}
  /\ NotANumber \notin Int /\ RandomTicks \subseteq Nat \ {0}
  /\ MaxCommands \in Nat /\ MaxRounds \in Nat /\ MaxEpisodes \in Nat

VARIABLES
  fault, left,  (* Machine.fault and Machine.fault_ticks_left               *)
  queue,        (* control_q                                                *)
  turn,         (* 0: the queue is read; i: the i-th machine is next        *)
  running,      (* the process has not died of a command                    *)
  stream,       (* the labels of the readings published                     *)
  episodes,     (* history: what was started, when and for how long         *)
  sent          (* commands published so far                                *)

machineVars == <<fault, left, episodes>>
simVars == <<machineVars, queue, turn, running, stream, sent>>

SimInit ==
  /\ fault = [m \in Fleet |-> NoFault]
  /\ left = [m \in Fleet |-> 0]
  /\ queue = <<>> /\ turn = 0 /\ running = TRUE
  /\ stream = [m \in Fleet |-> <<>>]
  /\ episodes = [m \in Fleet |-> <<>>]
  /\ sent = 0

(* max(1, ticks) *)
AtLeastOne(ticks) == IF ticks < 1 THEN 1 ELSE ticks

(* The history is told that label holds for the next length readings of m. *)
Record(m, label, length) ==
  episodes' = [episodes EXCEPT ![m] =
    Append(@, [first |-> Len(stream[m]) + 1, label |-> label, length |-> length])]

-----------------------------------------------------------------------------
(* Anybody on the local broker publishes a command. *)
Command(cmd) ==
  /\ Matches(control_filter(Layout), cmd.topic)
  /\ sent < MaxCommands /\ sent' = sent + 1
  /\ queue' = Append(queue, cmd)
  /\ UNCHANGED <<machineVars, turn, running, stream>>

(* What the MCP server's tool publishes (mcp_server/server.py): the flat   *)
(* topic, whatever the layout.                                             *)
inject_fault(machine, fault_, ticks) ==
  [topic |-> FlatControl, machine |-> machine, fault |-> fault_, ticks |-> ticks]

(* machine_id or cmd.get("machine_id", "") *)
Target(cmd) ==
  IF control_machine_id(cmd.topic) # Unaddressed THEN control_machine_id(cmd.topic)
  ELSE cmd.machine

Ignored(cmd) ==
  Target(cmd) \notin Fleet \/ cmd.fault \notin FaultTypes \union {"clear"}

(* apply_control *)
Ignore(cmd) == Ignored(cmd) /\ UNCHANGED <<machineVars, running>>

Clear(cmd) ==
  /\ ~Ignored(cmd) /\ cmd.fault = "clear"
  /\ fault' = [fault EXCEPT ![Target(cmd)] = NoFault]
  /\ left' = [left EXCEPT ![Target(cmd)] = 0]
  /\ Record(Target(cmd), NoFault, 0)
  /\ UNCHANGED running

Start(cmd) ==
  /\ ~Ignored(cmd) /\ cmd.fault # "clear" /\ cmd.ticks \in Int
  /\ fault' = [fault EXCEPT ![Target(cmd)] = cmd.fault]
  /\ left' = [left EXCEPT ![Target(cmd)] = AtLeastOne(cmd.ticks)]
  /\ Record(Target(cmd), cmd.fault, AtLeastOne(cmd.ticks))
  /\ UNCHANGED running

(* int() raises, nothing catches it, and the simulator of every machine    *)
(* ends.                                                                   *)
Die(cmd) ==
  /\ ~Ignored(cmd) /\ cmd.fault # "clear" /\ cmd.ticks \notin Int
  /\ running' = FALSE
  /\ UNCHANGED machineVars

ApplyControl ==
  /\ running /\ turn = 0 /\ queue # <<>>
  /\ \E cmd \in {Head(queue)} : Ignore(cmd) \/ Clear(cmd) \/ Start(cmd) \/ Die(cmd)
  /\ queue' = Tail(queue)
  /\ UNCHANGED <<turn, stream, sent>>

BeginRound ==
  /\ running /\ turn = 0 /\ queue = <<>>
  /\ Len(stream[Machines[1]]) < MaxRounds  \* no further round fits
  /\ turn' = 1
  /\ UNCHANGED <<machineVars, queue, running, stream, sent>>

(* Mutated form: an episode that has reached zero goes on. *)
CountDown_Late(m, label, ticks) ==
  /\ fault' = [fault EXCEPT ![m] = IF ticks < 1 THEN NoFault ELSE label]
  /\ left' = [left EXCEPT ![m] = IF label = NoFault THEN ticks ELSE ticks - 1]

(* A reading under an episode uses up a tick; the last one ends it. *)
CountDown(m, label, ticks) ==
  /\ fault' = [fault EXCEPT ![m] = IF ticks <= 1 THEN NoFault ELSE label]
  /\ left' = [left EXCEPT ![m] = IF label = NoFault THEN ticks ELSE ticks - 1]

Publish(m, label) ==
  /\ Len(stream[m]) < MaxRounds
  /\ stream' = [stream EXCEPT ![m] = Append(@, label)]
  /\ turn' = (turn + 1) % (Len(Machines) + 1)
  /\ UNCHANGED <<queue, running, sent>>

(* Machine.step: the label is the fault that shaped the reading. *)
Step(m) ==
  /\ running /\ turn # 0 /\ m = Machines[turn]
  /\ CountDown(m, fault[m], left[m])
  /\ Publish(m, fault[m])
  /\ UNCHANGED episodes

(* maybe_start_fault hits first: only a healthy machine falls ill by       *)
(* itself.                                                                 *)
StepIntoFault(m) ==
  /\ running /\ turn # 0 /\ m = Machines[turn]
  /\ fault[m] = NoFault
  /\ Len(episodes[m]) < MaxEpisodes
  /\ \E f \in FaultTypes, ticks \in RandomTicks :
       /\ CountDown(m, f, ticks)
       /\ Record(m, f, ticks)
       /\ Publish(m, f)

SimNext ==
  \/ \E cmd \in Commands : Command(cmd)
  \/ ApplyControl
  \/ BeginRound
  \/ \E m \in Fleet : Step(m)
  \/ \E m \in Fleet : StepIntoFault(m)

SimSpec == SimInit /\ [][SimNext]_simVars

-----------------------------------------------------------------------------
(* Properties *)

(* What the label of m's k-th reading ought to be: that of the episode     *)
(* started last before it, for as long as it was asked to last.            *)
DueLabel(m, k) ==
  LET started == {i \in DOMAIN episodes[m] : episodes[m][i].first <= k}
      latest  == CHOOSE i \in started : \A j \in started : j <= i
  IN  IF started = {} THEN NoFault
      ELSE IF k < episodes[m][latest].first + episodes[m][latest].length
      THEN episodes[m][latest].label ELSE NoFault

(* However commands, clears and random episodes run into each other, every *)
(* reading carries the label of the fault it was asked for: an episode of  *)
(* n ticks labels exactly the n next readings of the machine addressed     *)
(* (simulate.py:101-106 and docs of the control topic).                    *)
EpisodeHonoured ==
  \A m \in Fleet : \A k \in DOMAIN stream[m] : stream[m][k] = DueLabel(m, k)
=============================================================================
