------------------------------ MODULE ModelServing ------------------------------
(***************************************************************************)
(* What the inference sidecar promises about the models it serves, without *)
(* its threads, its lock and the steps of a swap: a reload takes the model *)
(* that its source holds at that moment, or is refused and changes         *)
(* nothing; a shadow never serves; and the report of a shadow starts anew  *)
(* with every champion and every shadow (inference/server.py:224-249).     *)
(* InferenceServer refines this module.                                    *)
(***************************************************************************)
CONSTANTS
  Models, First,  (* models, and the one it boots with                      *)
  Champions,      (* sources of champions: the file, the registry           *)
  Candidate,      (* the source of shadows                                  *)
  Broken, None    (* a source without a model, no shadow                    *)

VARIABLES
  available,      (* what each source holds                                 *)
  serving,        (* the champion                                           *)
  shadow,         (* the shadow, or None                                    *)
  evidence        (* champion and shadow pairs in the shadow's report       *)

vars == <<available, serving, shadow, evidence>>

Init ==
  /\ available = [source \in Champions \union {Candidate} |-> First]
  /\ serving = First /\ shadow = None /\ evidence = {}

(* Training, promotion, or damage. *)
Change(source, model) ==
  /\ available' = [available EXCEPT ![source] = model]
  /\ UNCHANGED <<serving, shadow, evidence>>

Reload(source) ==
  /\ available[source] # Broken
  /\ serving' = available[source]
  /\ evidence' = {}
  /\ UNCHANGED <<available, shadow>>

LoadShadow ==
  /\ available[Candidate] # Broken
  /\ shadow' = available[Candidate]
  /\ evidence' = {}
  /\ UNCHANGED <<available, serving>>

UnloadShadow ==
  /\ shadow' = None
  /\ evidence' = {}
  /\ UNCHANGED <<available, serving>>

(* A request that was under way during a reload counts its old champion.   *)
Count(champion) ==
  /\ shadow # None
  /\ evidence' = evidence \union {<<champion, shadow>>}
  /\ UNCHANGED <<available, serving, shadow>>

Next ==
  \/ \E source \in Champions \union {Candidate}, model \in Models \union {Broken} :
       Change(source, model)
  \/ \E source \in Champions : Reload(source)
  \/ LoadShadow \/ UnloadShadow
  \/ \E champion \in Models : Count(champion)

Spec == Init /\ [][Next]_vars
=============================================================================
