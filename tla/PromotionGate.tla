----------------------------- MODULE PromotionGate -----------------------------
(***************************************************************************)
(* The promotion gate (ml/promote.py): a run trains a challenger or loads  *)
(* a parked one, evaluates it and the champion on disk, reads a shadow     *)
(* report if asked to, from a live sidecar or from a file that such a one  *)
(* was archived in, decides, and saves.  Runs may overlap, and training    *)
(* (ml/train.py) writes the champion's path without a gate; the sidecar    *)
(* reloads, shadows and scores meanwhile.                                  *)
(*                                                                         *)
(* The evaluation is seeded, so that a version has one summary.  A save is *)
(* one step here (ModelStore has its parts); false-positive rates are in   *)
(* steps of FpTolerance, and latencies are readings.  Versions differ in   *)
(* name (model_version has a resolution of one second, manifest.py:74).    *)
(* Which champion a report is against matters to nobody: check_shadow does *)
(* not look.                                                               *)
(***************************************************************************)
EXTENDS Integers, FiniteSetsExt

CONSTANTS
  Gates,          (* concurrent runs of the gate                            *)
  None,           (* no file, no champion, no report, never detected        *)
  Faults,         (* kinds of fault the evaluation injects                  *)
  Summaries,      (* what an evaluation may come to                         *)
  Episodes, MaxLatency, MaxFp, MinN, MinAgreement, (* QualityBar            *)
  FpTolerance, LatencyTolerance,
  MaxVersions,    (* bundles ever trained                                   *)
  MaxScored       (* readings a shadow ever scores                          *)

Versions == 1..MaxVersions
Latencies == Nat \union {None}

ASSUME GateAssumption ==
  /\ MaxVersions \in Nat /\ MaxScored \in Nat /\ MinN \in Nat \ {0}
  /\ Episodes \in Nat /\ MaxLatency \in Nat /\ MaxFp \in Nat /\ MinAgreement \in 0..100
  /\ FpTolerance \in Nat /\ LatencyTolerance \in Nat
  /\ None \notin Int

ASSUME SummaryAssumption ==
  \A q \in Summaries :
    /\ q.fp \in Nat /\ q.parity \in BOOLEAN
    /\ \A f \in Faults : q.detected[f] \in 0..Episodes /\ q.latency[f] \in Latencies

VARIABLES
  quality,      (* per version trained, what its evaluation comes to         *)
  trained,      (* versions 1..trained exist                                 *)
  champion,     (* the bundle at the champion's path                         *)
  candidate,    (* the bundle parked in the candidate directory              *)
  step,         (* where each run is                                         *)
  challenger, rival, report, (* what it gates, against what, on what report  *)
  online,       (* runs with --shadow-report                                 *)
  serving,      (* the sidecar is up                                         *)
  shadow,       (* its shadow's report, or None                              *)
  archive,      (* the report in a file, or None                             *)
  gated,        (* history: versions that a gate put at the champion's path  *)
  evidenced,    (* history: those of them that it did on a shadow report     *)
  earned        (* history: versions whose shadow met the online bar         *)

disk    == <<champion, candidate>>
making  == <<quality, trained>>
runs    == <<step, challenger, rival, report, online>>
sidecar == <<serving, shadow, archive>>
past    == <<gated, evidenced, earned>>
vars    == <<disk, making, runs, sidecar, past>>

Reports ==
  [model : Versions, n : 0..MaxScored, agree : 0..MaxScored, errors : 0..MaxScored]
OrNone(S) == S \union {None}

GateTypeOK ==
  /\ quality \in [Versions -> OrNone(Summaries)] /\ trained \in 0..MaxVersions
  /\ champion \in OrNone(Versions) /\ candidate \in OrNone(Versions)
  /\ step \in [Gates -> {"idle", "rival", "report", "decide", "promote"}]
  /\ challenger \in [Gates -> OrNone(Versions)] /\ rival \in [Gates -> OrNone(Versions)]
  /\ report \in [Gates -> OrNone(Reports)] /\ online \subseteq Gates
  /\ serving \in BOOLEAN /\ shadow \in OrNone(Reports) /\ archive \in OrNone(Reports)
  /\ gated \subseteq Versions /\ evidenced \subseteq gated /\ earned \subseteq Versions

Init ==
  /\ quality = [v \in Versions |-> None] /\ trained = 0
  /\ champion = None /\ candidate = None
  /\ step = [g \in Gates |-> "idle"] /\ online = {}
  /\ challenger = [g \in Gates |-> None] /\ rival = [g \in Gates |-> None]
  /\ report = [g \in Gates |-> None]
  /\ serving = FALSE /\ shadow = None /\ archive = None
  /\ gated = {} /\ evidenced = {} /\ earned = {}

-----------------------------------------------------------------------------
(* The decision *)

(* check_bar and the ONNX parity bar. *)
ClearsBar(q) ==
  /\ \A f \in Faults : /\ q.detected[f] = Episodes
                       /\ q.latency[f] # None /\ q.latency[f] <= MaxLatency
  /\ q.fp <= MaxFp
  /\ q.parity

TotalDetected(q) == MapThenSumSet(LAMBDA f : q.detected[f], Faults)

(* compare_to_champion *)
NoWorse(new, old) ==
  /\ TotalDetected(new) >= TotalDetected(old)
  /\ new.fp <= old.fp + FpTolerance
  /\ \A f \in Faults : old.latency[f] # None =>
       new.latency[f] # None /\ new.latency[f] <= old.latency[f] + LatencyTolerance

(* The online bar. *)
EnoughAgreement(r) ==
  /\ r.n >= MinN
  /\ r.agree * 100 >= MinAgreement * r.n
  /\ r.errors = 0

(* Mutated form: any report will do. *)
Supports_AnyModel(r, v) == EnoughAgreement(r)

(* check_shadow: the report is about the version that is gated, and good.  *)
Supports(r, v) == r.model = v /\ EnoughAgreement(r)

(* Mutated form: the comparison with the champion is forgotten.            *)
Promotes_BarOnly(g) ==
  /\ ClearsBar(quality[challenger[g]])
  /\ g \in online => Supports(report[g], challenger[g])

(* No failures: the bar, the champion that was read if there was one, and  *)
(* the shadow's report if one was asked for.                               *)
Promotes(g) ==
  /\ ClearsBar(quality[challenger[g]])
  /\ rival[g] # None => NoWorse(quality[challenger[g]], quality[rival[g]])
  /\ g \in online => Supports(report[g], challenger[g])

-----------------------------------------------------------------------------
(* run_gate *)

Go(g, to) == step' = [step EXCEPT ![g] = to]

(* A new version with any summary. *)
NewVersion(v) ==
  /\ v = trained + 1 /\ v <= MaxVersions
  /\ trained' = v
  /\ \E q \in Summaries : quality' = [quality EXCEPT ![v] = q]

(* Without --challenger; the new version has shadowed nobody, so a report  *)
(* asked for can only refuse it.                                           *)
TrainChallenger(g, withReport) ==
  /\ step[g] = "idle"
  /\ NewVersion(trained + 1)
  /\ challenger' = [challenger EXCEPT ![g] = trained + 1]
  /\ online' = IF withReport THEN online \union {g} ELSE online
  /\ Go(g, "rival")
  /\ UNCHANGED <<disk, rival, report, sidecar, past>>

(* --challenger with the parked candidate. *)
LoadChallenger(g, withReport) ==
  /\ step[g] = "idle" /\ candidate # None
  /\ challenger' = [challenger EXCEPT ![g] = candidate]
  /\ online' = IF withReport THEN online \union {g} ELSE online
  /\ Go(g, "rival")
  /\ UNCHANGED <<disk, making, rival, report, sidecar, past>>

(* The champion on disk, if there is one, is loaded and evaluated.         *)
ReadChampion(g) ==
  /\ step[g] = "rival"
  /\ rival' = [rival EXCEPT ![g] = champion]
  /\ Go(g, IF g \in online THEN "report" ELSE "decide")
  /\ UNCHANGED <<disk, making, challenger, report, online, sidecar, past>>

(* The run is over, or was killed. *)
Leave(g) ==
  /\ Go(g, "idle")
  /\ challenger' = [challenger EXCEPT ![g] = None]
  /\ rival' = [rival EXCEPT ![g] = None] /\ report' = [report EXCEPT ![g] = None]
  /\ online' = online \ {g}

(* load_shadow_report: GET /shadow, or the file, of any age. *)
ReadReport(g) ==
  /\ step[g] = "report"
  /\ \E r \in {shadow, archive} \ {None} : report' = [report EXCEPT ![g] = r]
  /\ Go(g, "decide")
  /\ UNCHANGED <<disk, making, challenger, rival, online, sidecar, past>>

(* Mutated form: a refused challenger is promoted too. *)
Park_Promotes(g) ==
  /\ step[g] = "decide"
  /\ candidate' = challenger[g]
  /\ Go(g, "promote")
  /\ UNCHANGED <<champion, making, challenger, rival, report, online, sidecar, past>>

(* The candidate is archived, promoted or not. *)
Park(g) ==
  /\ step[g] = "decide"
  /\ candidate' = challenger[g]
  /\ IF Promotes(g) THEN Go(g, "promote") /\ UNCHANGED <<challenger, rival, report, online>>
                    ELSE Leave(g)
  /\ UNCHANGED <<champion, making, sidecar, past>>

(* save_bundle at the champion's path. *)
Promote(g) ==
  /\ step[g] = "promote"
  /\ champion' = challenger[g]
  /\ gated' = gated \union {challenger[g]}
  /\ evidenced' = IF g \in online THEN evidenced \union {challenger[g]} ELSE evidenced
  /\ Leave(g)
  /\ UNCHANGED <<candidate, making, sidecar, earned>>

(* An exception, such as no report to be had, or a kill. *)
Die(g) ==
  /\ step[g] # "idle"
  /\ Leave(g)
  /\ UNCHANGED <<disk, making, sidecar, past>>

(* python ml/train.py *)
TrainDirectly ==
  /\ NewVersion(trained + 1)
  /\ champion' = trained + 1
  /\ UNCHANGED <<candidate, runs, sidecar, past>>

-----------------------------------------------------------------------------
(* The sidecar, as the gate sees it (InferenceServer has its threads)      *)

NoReadings(model) == [model |-> model, n |-> 0, agree |-> 0, errors |-> 0]

(* Boot, or a reload: the shadow starts a fresh report. *)
Reload ==
  /\ champion # None
  /\ serving' = TRUE
  /\ shadow' = IF shadow = None THEN None ELSE NoReadings(shadow.model)
  /\ UNCHANGED <<disk, making, runs, archive, past>>

(* Without a bundle, a boot fails and a reload is a 400. *)
ReloadFails == champion = None /\ UNCHANGED vars

LoadShadow ==
  /\ serving /\ candidate # None
  /\ shadow' = NoReadings(candidate)
  /\ UNCHANGED <<disk, making, runs, serving, archive, past>>

UnloadShadow ==
  /\ shadow # None
  /\ shadow' = None
  /\ UNCHANGED <<disk, making, runs, serving, archive, past>>

(* A reading is scored by both; the shadow agrees, disagrees or fails.     *)
Score(agreed, failed) ==
  /\ shadow # None /\ shadow.n + shadow.errors < MaxScored
  /\ shadow' = [shadow EXCEPT !.n = IF failed THEN @ ELSE @ + 1,
                              !.agree = IF agreed THEN @ + 1 ELSE @,
                              !.errors = IF failed THEN @ + 1 ELSE @]
  /\ earned' = IF EnoughAgreement(shadow') THEN earned \union {shadow.model} ELSE earned
  /\ UNCHANGED <<disk, making, runs, serving, archive, gated, evidenced>>

(* Somebody puts what GET /shadow returns into the file. *)
Archive ==
  /\ shadow # None
  /\ archive' = shadow
  /\ UNCHANGED <<disk, making, runs, serving, shadow, past>>

-----------------------------------------------------------------------------
Gating(g) ==
  \/ ReadChampion(g) \/ ReadReport(g) \/ Park(g) \/ Promote(g)

Next ==
  \/ \E g \in Gates :
       \/ \E withReport \in BOOLEAN : TrainChallenger(g, withReport) \/ LoadChallenger(g, withReport)
       \/ Gating(g)
       \/ Die(g)
  \/ TrainDirectly
  \/ Reload \/ ReloadFails \/ LoadShadow \/ UnloadShadow \/ Archive
  \/ Score(TRUE, FALSE) \/ Score(FALSE, FALSE) \/ Score(FALSE, TRUE)

Spec == Init /\ [][Next]_vars

-----------------------------------------------------------------------------
(* Properties *)

(* What a gate put at the champion's path clears the absolute bar, however *)
(* runs, kills and direct training mixed (promote.py:94-109).              *)
GatedClearsBar == \A v \in gated : ClearsBar(quality[v])

(* A version promoted on a shadow report earned it: in one stretch of live *)
(* traffic against one champion, that very version met the online bar,     *)
(* whichever bundles were parked, shadowed, swapped and gated meanwhile    *)
(* (promote.py:142-171).                                                   *)
EvidenceEarned == evidenced \subseteq earned

(* A gate replaces the champion it compared with only by one that is no    *)
(* worse within the tolerances (promote.py:174-195).                       *)
ReplacesNoWorse ==
  [][\A g \in Gates :
       step[g] = "promote" /\ step'[g] = "idle" /\ champion' # champion
         /\ rival[g] = champion /\ champion # None
         => NoWorse(quality[champion'], quality[champion])]_vars
=============================================================================
