------------------------------- MODULE BrokerAcl -------------------------------
(***************************************************************************)
(* The uplink broker's ACL as scripts/gen_broker_auth.py writes it: a list *)
(* of grants per principal.  A device is the sequence <<org, site,         *)
(* machine>>, a gateway the sequence <<org, site>>.                        *)
(***************************************************************************)
EXTENDS Topics

Grant(access, filter) == [access |-> access, filter |-> filter]

(* The layout a principal's topics belong to. *)
LayoutOf(principal) == [namespaced |-> TRUE, org |-> principal[1], site |-> principal[2]]

(* "es/{triple}/{kind}" *)
DeviceTopic(device, kind) == Namespaced(LayoutOf(device), device[3], kind)

(* "topic write es/{triple}/sensors/#", .../events, "topic read .../control" *)
DeviceGrants(device) ==
  {Grant("write", AllSensors(LayoutOf(device), device[3])),
   Grant("write", DeviceTopic(device, "events")),
   Grant("read", DeviceTopic(device, "control"))}

GatewayGrants(pair) ==
  {Grant("write", Namespaced(LayoutOf(pair), "+", "events"))}

OpsGrants ==
  {Grant("read", <<"es", "+", "+", "+", "events">>),
   Grant("write", <<"es", "+", "+", "+", "control">>)}

(* mosquitto: what no grant of the principal covers is denied. *)
Allowed(grants, access, topic) ==
  \E g \in grants : g.access = access /\ Matches(g.filter, topic)
=============================================================================
