------------------------------ MODULE MCRegistry ------------------------------
(* Model-checking instance of Registry. *)
EXTENDS Registry, TLC

Symmetry == Permutations(Registrars) \union Permutations(Keys)
=============================================================================
