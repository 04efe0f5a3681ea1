------------------------------ MODULE MCEdgeAgent ------------------------------
(* Model-checking instance of EdgeAgent: events and handlers are           *)
(* interchangeable, so safety is checked up to their permutations.         *)
EXTENDS EdgeAgent, TLC

Symmetry == Permutations(Events) \union Permutations(Handlers)
=============================================================================
