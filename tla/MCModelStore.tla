----------------------------- MODULE MCModelStore -----------------------------
(* Model-checking instance of ModelStore. *)
EXTENDS ModelStore, TLC

Symmetry == Permutations(Writers) \union Permutations(Keys)
=============================================================================
