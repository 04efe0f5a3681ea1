------------------------------ MODULE MCCompanions ------------------------------
EXTENDS Companions, TLC

CONSTANTS c1, c2, s1, s2

MCLayout == layoutFromEnv("org", "")
MCMachines == <<"m1", "m2">>

MCCommands ==
  {[topic |-> control_topic(MCLayout, "m1"), machine |-> "m2", fault |-> "f", ticks |-> 2],
   [topic |-> control_topic(MCLayout, "m1"), machine |-> "m1", fault |-> "clear", ticks |-> 2],
   [topic |-> control_topic(MCLayout, "m2"), machine |-> "m2", fault |-> "f", ticks |-> NotANumber],
   [topic |-> control_topic(MCLayout, "m9"), machine |-> "m2", fault |-> "f", ticks |-> 2],
   inject_fault("m2", "f", 2)}

MCDevice == <<"default", "default", "m1">>
MCSibling == <<"default", "default", "m2">>
MCForeign == <<"acme", "lyon", "p7">>

(* The generated grants, and what an ACL gone wrong might grant on top. *)
MCDeviations ==
  DeviceGrants(MCDevice) \union GatewayGrants(<<"default", "default">>) \union
  {Grant("write", <<"es", "+", "+", "+", "events">>),
   Grant("write", DeviceTopic(MCForeign, "events")),
   Grant("read", <<"es", "+", "+", "+", "control">>),
   Grant("read", <<"es", "default", "default", "+", "control">>)}

Interchangeable == Permutations({c1, c2}) \union Permutations({s1, s2})
=============================================================================
