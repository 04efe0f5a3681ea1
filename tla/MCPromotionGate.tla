--------------------------- MODULE MCPromotionGate ---------------------------
(***************************************************************************)
(* Model-checking instance of PromotionGate: one kind of fault, and        *)
(* summaries at and below the bars.                                        *)
(***************************************************************************)
EXTENDS PromotionGate, TLC

Summary(detected, latency, fp) ==
  [detected |-> [f \in Faults |-> detected], latency |-> [f \in Faults |-> latency],
   fp |-> fp, parity |-> TRUE]

(* All episodes detected, with as many false alarms and as late as the bar *)
(* allows; none, with no false alarms, which the other is worse than.      *)
MCSummaries == {Summary(1, 1, 6), Summary(0, None, 0)}

Symmetry == Permutations(Gates)
=============================================================================
