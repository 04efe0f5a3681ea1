------------------------------- MODULE Collectors -------------------------------
(***************************************************************************)
(* The background subscribers that tail anomaly events: EventCollector of  *)
(* the MCP server, behind _get_collector(), and Collector of the           *)
(* dashboard, behind st.cache_resource.  Both are made on first use, keep  *)
(* the newest events in a bounded deque, and are shared by all callers.    *)
(* The MCP server has one endpoint and filters; the dashboard has one or   *)
(* two and shows everything.  The last endpoint is the uplink, where the   *)
(* events are; the dashboard's other one brings readings, left out here.   *)
(*                                                                         *)
(* An event is its number in the order of arrival at this process, with    *)
(* the machine it names; a payload that is JSON but no object names none.  *)
(***************************************************************************)
EXTENDS Integers, Sequences, FiniteSets

CONSTANTS
  Callers,      (* tool calls, or browser sessions                         *)
  Endpoints,    (* number of brokers a collector subscribes at             *)
  Sources,      (* machines that events name                               *)
  NotAnObject,  (* the machine of a payload that is no object              *)
  AnyMachine,   (* machine_id is None                                      *)
  Limits,       (* limits asked for                                        *)
  MaxEvents,    (* maxlen of the deque                                     *)
  MaxArrivals, MaxMade

ASSUME CollectorAssumption ==
  /\ Endpoints \in Nat \ {0} /\ MaxEvents \in Nat \ {0}
  /\ Limits \subseteq Int /\ MaxArrivals \in Nat /\ MaxMade \in Nat
  /\ NotAnObject # AnyMachine /\ {NotAnObject, AnyMachine} \cap Sources = {}

VARIABLES
  made,         (* the collectors ever made                                *)
  collector,    (* _collector: which of them, 0 for None                   *)
  holder,       (* who has _collector_lock, or nobody                      *)
  call,         (* per caller: where it is and what it asked for           *)
  arrivals      (* events that arrived so far                              *)

mcpVars == <<made, collector, holder, call, arrivals>>

NobodyHolds == [nobody |-> TRUE]

(* connected: endpoints whose loop runs; online: those now subscribed;     *)
(* events: the deque, newest first; heard: history, all it ever appended.  *)
NewCollector == [connected |-> 0, online |-> {}, events |-> <<>>, heard |-> <<>>]

NotCalled ==
  [at |-> "idle", new |-> 0, limit |-> 0, machine |-> AnyMachine,
   answer |-> <<>>, due |-> <<>>]

McpInit ==
  /\ made = <<>> /\ collector = 0 /\ holder = NobodyHolds
  /\ call = [c \in Callers |-> NotCalled]
  /\ arrivals = 0

-----------------------------------------------------------------------------
(* paho's threads. *)

AtMost(k, s) == SubSeq(s, 1, IF Len(s) < k THEN Len(s) ELSE k)

(* appendleft on a deque of at most MaxEvents *)
PushLeft(deque, e) == AtMost(MaxEvents, <<e>> \o deque)

(* An event reaches every collector that is subscribed at the uplink. *)
OnMessage(machine) ==
  /\ arrivals < MaxArrivals /\ arrivals' = arrivals + 1
  /\ LET e == [id |-> arrivals + 1, machine |-> machine]
     IN  made' = [i \in DOMAIN made |->
           IF Endpoints \notin made[i].online THEN made[i]
           ELSE [made[i] EXCEPT !.events = PushLeft(@, e), !.heard = <<e>> \o @]]
  /\ UNCHANGED <<collector, holder, call>>

(* on_connect subscribes, on every connect; a lost connection is taken up  *)
(* again by the loop.                                                      *)
OnConnect(i, broker) ==
  /\ broker <= made[i].connected /\ broker \notin made[i].online
  /\ made' = [made EXCEPT ![i].online = @ \union {broker}]
  /\ UNCHANGED <<collector, holder, call, arrivals>>

ConnectionLost(i, broker) ==
  /\ broker \in made[i].online
  /\ made' = [made EXCEPT ![i].online = @ \ {broker}]
  /\ UNCHANGED <<collector, holder, call, arrivals>>

-----------------------------------------------------------------------------
(* _get_collector() and recent(). *)

Call(c) ==
  /\ call[c].at \in {"idle", "answered"}
  /\ call' = [call EXCEPT ![c] = [NotCalled EXCEPT !.at = "get"]]
  /\ UNCHANGED <<made, collector, holder, arrivals>>

(* Mutated form: no lock around the check. *)
Get_Unlocked(c) ==
  /\ call[c].at = "get" /\ collector = 0 /\ Len(made) < MaxMade
  /\ made' = Append(made, NewCollector)
  /\ call' = [call EXCEPT ![c].at = "start", ![c].new = Len(made) + 1]
  /\ UNCHANGED <<collector, holder, arrivals>>

Get(c) ==
  /\ call[c].at = "get" /\ holder = NobodyHolds
  /\ collector = 0 /\ Len(made) < MaxMade
  /\ holder' = [nobody |-> FALSE, caller |-> c]
  /\ made' = Append(made, NewCollector)
  /\ call' = [call EXCEPT ![c].at = "start", ![c].new = Len(made) + 1]
  /\ UNCHANGED <<collector, arrivals>>

GetExisting(c) ==
  /\ call[c].at = "get" /\ holder = NobodyHolds /\ collector # 0
  /\ call' = [call EXCEPT ![c].at = "read"]
  /\ UNCHANGED <<made, collector, holder, arrivals>>

(* start(): connect() returned, and the loop of this endpoint runs. *)
StartNext(c) ==
  /\ call[c].at = "start" /\ made[call[c].new].connected < Endpoints
  /\ made' = [made EXCEPT ![call[c].new].connected = @ + 1]
  /\ UNCHANGED <<collector, holder, call, arrivals>>

(* connect() raises: the lock is released with _collector still None, and  *)
(* the loops that were started for this collector go on.                   *)
StartFails(c) ==
  /\ call[c].at = "start" /\ made[call[c].new].connected < Endpoints
  /\ holder' = NobodyHolds
  /\ call' = [call EXCEPT ![c] = NotCalled]
  /\ UNCHANGED <<made, collector, arrivals>>

Assign(c) ==
  /\ call[c].at = "start" /\ made[call[c].new].connected = Endpoints
  /\ collector' = call[c].new /\ holder' = NobodyHolds
  /\ call' = [call EXCEPT ![c].at = "read"]
  /\ UNCHANGED <<made, arrivals>>

Named(machine, e) == machine = AnyMachine \/ e.machine = machine

OneOrMore(limit) == IF limit < 1 THEN 1 ELSE limit

(* [e for e in events if e.get("machine_id") == machine_id]                *)
Selected(events, machine) ==
  LET kept[n \in 0..Len(events)] ==
        IF n = 0 THEN <<>>
        ELSE IF Named(machine, events[n]) THEN Append(kept[n - 1], events[n])
        ELSE kept[n - 1]
  IN  kept[Len(events)]

recent(events, limit, machine) == AtMost(limit, Selected(events, machine))

(* e.get of a payload that is no object. *)
Raises(events, machine) ==
  machine # AnyMachine /\ \E i \in DOMAIN events : events[i].machine = NotAnObject

(* History: what the first collector that came up ever heard. *)
Complete == {i \in DOMAIN made : made[i].connected = Endpoints}
Heard ==
  IF Complete = {} THEN <<>>
  ELSE made[CHOOSE i \in Complete : \A j \in Complete : i <= j].heard

(* The arguments of the call matter from here on. *)
Read(c, limit, machine) ==
  /\ call[c].at = "read"
  /\ ~Raises(made[collector].events, machine)
  /\ call' = [call EXCEPT ![c] =
       [at |-> "answered", new |-> 0, limit |-> limit, machine |-> machine,
        answer |-> recent(made[collector].events, OneOrMore(limit), machine),
        due    |-> AtMost(MaxEvents, Heard)]]
  /\ UNCHANGED <<made, collector, holder, arrivals>>

(* The tool call fails; so does every filtered one until the payload has   *)
(* fallen out of the deque.                                                *)
ReadRaises(c, machine) ==
  /\ call[c].at = "read"
  /\ Raises(made[collector].events, machine)
  /\ call' = [call EXCEPT ![c] = NotCalled]
  /\ UNCHANGED <<made, collector, holder, arrivals>>

McpNext ==
  \/ \E m \in Sources \union {NotAnObject} : OnMessage(m)
  \/ \E i \in DOMAIN made, b \in 1..Endpoints : OnConnect(i, b) \/ ConnectionLost(i, b)
  \/ \E c \in Callers :
       \/ Call(c) \/ Get(c) \/ GetExisting(c)
       \/ StartNext(c) \/ StartFails(c) \/ Assign(c)
       \/ \E m \in Sources \union {AnyMachine} :
            \/ \E limit \in Limits : Read(c, limit, m)
            \/ ReadRaises(c, m)

McpSpec == McpInit /\ [][McpNext]_mcpVars

-----------------------------------------------------------------------------
(* Properties *)

(* Whoever made the collector, and however many attempts failed halfway,   *)
(* every answer is cut from the one shared list: the newest of the asked   *)
(* machine's events among the last MaxEvents that arrived since the first  *)
(* collector came up (list_recent_events' docstring, server.py:178-182).   *)
AnswersFromOneList ==
  \A c \in Callers : call[c].at = "answered" =>
    LET wanted == {i \in DOMAIN call[c].due : Named(call[c].machine, call[c].due[i])}
        limit  == OneOrMore(call[c].limit)
    IN  /\ Len(call[c].answer) = IF Cardinality(wanted) < limit THEN Cardinality(wanted) ELSE limit
        /\ \A k \in DOMAIN call[c].answer :
             \E i \in wanted : /\ call[c].answer[k] = call[c].due[i]
                               /\ Cardinality({j \in wanted : j <= i}) = k
=============================================================================
