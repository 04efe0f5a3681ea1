--------------------------------- MODULE Topics ---------------------------------
(***************************************************************************)
(* The topics of EdgeSense.  The agent (edge-agent/topics.go), the         *)
(* simulator, the dashboard, the demos and the MCP server each compute     *)
(* them for themselves, in two layouts: the flat one, and the namespaced   *)
(* one that EDGESENSE_ORG or EDGESENSE_SITE turns on.                      *)
(*                                                                         *)
(* A topic or filter is the sequence of its levels.  Machine, org and site *)
(* names are single levels and no wildcards.                               *)
(***************************************************************************)
EXTENDS Integers, Sequences

Flat == [namespaced |-> FALSE, org |-> "", site |-> ""]

OrDefault(name) == IF name = "" THEN "default" ELSE name

(* An unset variable reads as "". *)
layoutFromEnv(org, site) ==
  IF org = "" /\ site = "" THEN Flat
  ELSE [namespaced |-> TRUE, org |-> OrDefault(org), site |-> OrDefault(site)]

(* A topic or filter of one kind for machine, which may be the wildcard.   *)
Namespaced(layout, machine, kind) ==
  <<"es", layout.org, layout.site, machine, kind>>

(* es/<org>/<site>/<machine>/sensors/# *)
AllSensors(layout, machine) ==
  <<"es", layout.org, layout.site, machine, "sensors", "#">>

eventTopic(layout, machine) ==
  IF layout.namespaced THEN Namespaced(layout, machine, "events")
  ELSE <<"edgesense", "events", machine>>

defaultSensorFilter(layout) ==
  IF layout.namespaced THEN AllSensors(layout, "+")
  ELSE <<"edgesense", "sensors", "#">>

machineIDFromTopic(topic) ==
  IF topic[1] = "es" /\ Len(topic) >= 4 THEN topic[4] ELSE topic[Len(topic)]

-----------------------------------------------------------------------------
(* The simulator. *)

sensor_topic(layout, machine) ==
  IF layout.namespaced THEN Namespaced(layout, machine, "sensors")
  ELSE <<"edgesense", "sensors", machine>>

FlatControl == <<"edgesense", "control", "fault">>

control_filter(layout) ==
  IF layout.namespaced THEN Namespaced(layout, "+", "control") ELSE FlatControl

(* Nobody is addressed by the flat topic: the payload says who is meant.   *)
Unaddressed == ""

control_machine_id(topic) ==
  IF topic[1] = "es" /\ Len(topic) >= 5 /\ topic[Len(topic)] = "control"
  THEN topic[4] ELSE Unaddressed

-----------------------------------------------------------------------------
(* The dashboard and the demos; the MCP server knows the flat layout only. *)

control_topic(layout, machine) ==
  IF layout.namespaced THEN Namespaced(layout, machine, "control") ELSE FlatControl

event_filter(layout) ==
  IF layout.namespaced THEN Namespaced(layout, "+", "events")
  ELSE <<"edgesense", "events", "#">>

is_reading_topic(topic) ==
  IF topic[1] = "es" THEN Len(topic) >= 5 /\ topic[5] = "sensors"
  ELSE Len(topic) >= 2 /\ topic[2] = "sensors"

-----------------------------------------------------------------------------
(* MQTT's filters: + stands for one level, a final # for any number. *)

Fits(filter, topic, n) == \A i \in 1..n : filter[i] \in {"+", topic[i]}

Matches(filter, topic) ==
  IF filter[Len(filter)] = "#"
  THEN Len(topic) >= Len(filter) - 1 /\ Fits(filter, topic, Len(filter) - 1)
  ELSE Len(topic) = Len(filter) /\ Fits(filter, topic, Len(filter))
=============================================================================
