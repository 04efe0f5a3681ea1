----------------------------- MODULE MCMqttUplink -----------------------------
(* Model-checking instance of MqttUplink. *)
EXTENDS MqttUplink, TLC

Symmetry == Permutations(Events) \union Permutations(Handlers)
=============================================================================
