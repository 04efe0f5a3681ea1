-------------------------- MODULE PromotionGateProofs --------------------------
(***************************************************************************)
(* The safety of PromotionGate, proved for any number of gates, versions   *)
(* and readings, any bars and any evaluation.                              *)
(***************************************************************************)
EXTENDS PromotionGate, TLAPS

(* Nobody refers to a version that was not trained. *)
Trained ==
  /\ champion # None => champion <= trained
  /\ candidate # None => candidate <= trained
  /\ gated \subseteq 1..trained
  /\ \A g \in Gates : /\ challenger[g] # None => challenger[g] <= trained
                      /\ rival[g] # None => rival[g] <= trained

(* What a run knows at each step; it promotes what passed. *)
Deciding ==
  \A g \in Gates :
    /\ step[g] # "idle" => challenger[g] # None
    /\ step[g] \in {"decide", "promote"} /\ g \in online => report[g] # None
    /\ step[g] = "promote" => Promotes(g)

(* A report that is good enough was earned, wherever it is. *)
Founded(r) == r # None /\ EnoughAgreement(r) => r.model \in earned

Counted ==
  /\ shadow # None => shadow.agree <= shadow.n
  /\ Founded(shadow) /\ Founded(archive)
  /\ \A g \in Gates : Founded(report[g])

GateInv == GateTypeOK /\ Trained /\ Deciding /\ GatedClearsBar /\ Counted /\ EvidenceEarned

-----------------------------------------------------------------------------
LEMMA TypeInit == Init => GateTypeOK
<1>1. Init => serving \in BOOLEAN
  BY Zenon DEF Init
<1> QED
  BY <1>1, GateAssumption DEF Init, GateTypeOK, OrNone, Versions

(* A new version is one version more; the others keep their summaries.     *)
LEMMA NewVersionAdds ==
  ASSUME GateTypeOK, NewVersion(trained + 1)
  PROVE  /\ trained + 1 \in Versions /\ trained' = trained + 1
         /\ quality' \in [Versions -> OrNone(Summaries)]
         /\ \A v \in Versions : v <= trained => quality'[v] = quality[v]
  BY GateAssumption DEF GateTypeOK, NewVersion, Versions, OrNone

LEMMA TypeStep == GateTypeOK /\ Deciding /\ Counted /\ [Next]_vars => GateTypeOK'
<1> SUFFICES ASSUME GateTypeOK, Deciding, Counted, [Next]_vars PROVE GateTypeOK'
  OBVIOUS
<1> USE GateAssumption DEF GateTypeOK, OrNone, Versions, Go, Leave, disk, making, runs, sidecar, past
<1>1. ASSUME NEW g \in Gates, NEW withReport \in BOOLEAN, TrainChallenger(g, withReport)
      PROVE  GateTypeOK'
  BY <1>1, NewVersionAdds DEF TrainChallenger
<1>2. ASSUME NEW g \in Gates, NEW withReport \in BOOLEAN, LoadChallenger(g, withReport)
      PROVE  GateTypeOK'
  BY <1>2 DEF LoadChallenger
<1>3. ASSUME NEW g \in Gates, ReadChampion(g) PROVE GateTypeOK'
  BY <1>3 DEF ReadChampion
<1>4. ASSUME NEW g \in Gates, ReadReport(g) PROVE GateTypeOK'
  BY <1>4 DEF ReadReport
<1>5. ASSUME NEW g \in Gates, Park(g) PROVE GateTypeOK'
  BY <1>5 DEF Park
<1>6. ASSUME NEW g \in Gates, Promote(g) PROVE GateTypeOK'
  BY <1>6 DEF Promote, Deciding
<1>7. ASSUME NEW g \in Gates, Die(g) PROVE GateTypeOK'
  BY <1>7 DEF Die
<1>8. CASE TrainDirectly
  BY <1>8, NewVersionAdds DEF TrainDirectly
<1>9. CASE Reload \/ ReloadFails \/ LoadShadow \/ UnloadShadow \/ Archive
  <2>1. ASSUME NEW model \in Versions PROVE NoReadings(model) \in Reports
    BY DEF NoReadings, Reports
  <2>2. shadow # None => shadow.model \in Versions
    BY DEF Reports
  <2>3. CASE Reload
    BY <2>1, <2>2, <2>3 DEF Reload
  <2>4. CASE LoadShadow
    BY <2>1, <2>4 DEF LoadShadow
  <2>5. CASE ReloadFails \/ UnloadShadow \/ Archive
    BY <2>5 DEF ReloadFails, UnloadShadow, Archive, vars
  <2> QED
    BY <1>9, <2>3, <2>4, <2>5
<1>10. ASSUME NEW agreed \in BOOLEAN, NEW failed \in BOOLEAN, Score(agreed, failed),
              ~(agreed /\ failed)
       PROVE  GateTypeOK'
  <2>1. /\ shadow \in Reports /\ shadow.agree <= shadow.n
        /\ shadow.n + shadow.errors < MaxScored
    BY <1>10 DEF Score, Counted
  <2>2. /\ shadow.n \in 0..MaxScored /\ shadow.n + 1 \in 0..MaxScored
        /\ shadow.errors \in 0..MaxScored /\ shadow.errors + 1 \in 0..MaxScored
        /\ shadow.agree \in 0..MaxScored /\ shadow.agree + 1 \in 0..MaxScored
        /\ shadow.model \in Versions
    BY <2>1 DEF Reports
  <2>3. shadow' \in Reports
    BY <1>10, <2>1, <2>2 DEF Score, Reports
  <2>4. earned' \subseteq Versions
    BY <1>10, <2>2 DEF Score
  <2> QED
    BY <1>10, <2>3, <2>4 DEF Score
<1>11. CASE UNCHANGED vars
  BY <1>11 DEF vars
<1> QED
  BY <1>1, <1>2, <1>3, <1>4, <1>5, <1>6, <1>7, <1>8, <1>9, <1>10, <1>11 DEF Next, Gating

LEMMA LeaveTrained ==
  ASSUME GateTypeOK, Trained, NEW g \in Gates, Leave(g), NEW o \in Gates
  PROVE  /\ challenger'[o] # None => challenger'[o] <= trained
         /\ rival'[o] # None => rival'[o] <= trained
  BY DEF GateTypeOK, Trained, Leave, Go

LEMMA TrainedStep == GateInv /\ [Next]_vars => Trained'
<1> SUFFICES ASSUME GateInv, [Next]_vars PROVE Trained'
  OBVIOUS
<1> USE GateAssumption DEF GateInv, GateTypeOK, Trained, OrNone, Versions, Go, Leave,
        disk, making, runs, sidecar, past
<1>1. ASSUME NEW g \in Gates, NEW withReport \in BOOLEAN, TrainChallenger(g, withReport)
      PROVE  Trained'
  BY <1>1, NewVersionAdds DEF TrainChallenger
<1>2. ASSUME NEW g \in Gates, NEW withReport \in BOOLEAN, LoadChallenger(g, withReport)
      PROVE  Trained'
  BY <1>2 DEF LoadChallenger
<1>3. ASSUME NEW g \in Gates, ReadChampion(g) PROVE Trained'
  BY <1>3 DEF ReadChampion
<1>4. ASSUME NEW g \in Gates, Park(g) PROVE Trained'
  BY <1>4 DEF Park
<1>5. ASSUME NEW g \in Gates, Promote(g) PROVE Trained'
  <2>1. challenger[g] \in 1..trained
    BY <1>5 DEF Promote, Deciding
  <2>2. trained' = trained /\ champion' = challenger[g] /\ candidate' = candidate
    BY <1>5 DEF Promote
  <2>3. gated' = gated \union {challenger[g]}
    BY <1>5 DEF Promote
  <2>4. ASSUME NEW o \in Gates
        PROVE  /\ challenger'[o] # None => challenger'[o] <= trained
               /\ rival'[o] # None => rival'[o] <= trained
    BY <1>5, LeaveTrained DEF Promote
  <2> QED
    BY <2>1, <2>2, <2>3, <2>4
<1>6. ASSUME NEW g \in Gates, ReadReport(g) \/ Die(g) PROVE Trained'
  <2>1. CASE ReadReport(g)
    BY <2>1 DEF ReadReport
  <2>2. CASE Die(g)
    BY <2>2, LeaveTrained DEF Die
  <2> QED
    BY <1>6, <2>1, <2>2
<1>7. CASE TrainDirectly
  BY <1>7, NewVersionAdds DEF TrainDirectly
<1>8. CASE \/ Reload \/ ReloadFails \/ LoadShadow \/ UnloadShadow \/ Archive
           \/ Score(TRUE, FALSE) \/ Score(FALSE, FALSE) \/ Score(FALSE, TRUE)
           \/ UNCHANGED vars
  BY <1>8 DEF Reload, ReloadFails, LoadShadow, UnloadShadow, Archive, Score, vars
<1> QED
  BY <1>1, <1>2, <1>3, <1>4, <1>5, <1>6, <1>7, <1>8 DEF Next, Gating

-----------------------------------------------------------------------------
(* A run's decision stands as long as what it holds is left alone.         *)
LEMMA PromotesStays ==
  ASSUME NEW g \in Gates, Promotes(g),
         quality'[challenger[g]] = quality[challenger[g]],
         rival[g] # None => quality'[rival[g]] = quality[rival[g]],
         challenger'[g] = challenger[g], rival'[g] = rival[g], report'[g] = report[g],
         g \in online' <=> g \in online
  PROVE  Promotes(g)'
  BY DEF Promotes

LEMMA DecidingStep == GateInv /\ [Next]_vars => Deciding'
<1> SUFFICES ASSUME GateInv, [Next]_vars, NEW o \in Gates
             PROVE  /\ step'[o] # "idle" => challenger'[o] # None
                    /\ step'[o] \in {"decide", "promote"} /\ o \in online' => report'[o] # None
                    /\ step'[o] = "promote" => Promotes(o)'
  BY DEF Deciding
<1> DEFINE Goal == /\ step'[o] # "idle" => challenger'[o] # None
                   /\ step'[o] \in {"decide", "promote"} /\ o \in online' => report'[o] # None
                   /\ step'[o] = "promote" => Promotes(o)'
<1> USE GateAssumption DEF GateInv, GateTypeOK, Deciding, OrNone, Versions, Go, Leave,
        disk, making, runs, sidecar, past
<1>1. ASSUME NEW g \in Gates, NEW withReport \in BOOLEAN, TrainChallenger(g, withReport)
      PROVE  Goal
  BY <1>1, NewVersionAdds, PromotesStays DEF TrainChallenger, Trained
<1>2. ASSUME NEW g \in Gates, NEW withReport \in BOOLEAN, LoadChallenger(g, withReport)
      PROVE  Goal
  BY <1>2, PromotesStays DEF LoadChallenger
<1>3. ASSUME NEW g \in Gates, ReadChampion(g) \/ ReadReport(g) PROVE Goal
  BY <1>3, PromotesStays DEF ReadChampion, ReadReport
<1>4. ASSUME NEW g \in Gates, Park(g) PROVE Goal
  BY <1>4, PromotesStays DEF Park
<1>5. ASSUME NEW g \in Gates, Promote(g) \/ Die(g) PROVE Goal
  BY <1>5, PromotesStays DEF Promote, Die
<1>6. CASE TrainDirectly
  BY <1>6, NewVersionAdds, PromotesStays DEF TrainDirectly, Trained
<1>7. CASE \/ Reload \/ ReloadFails \/ LoadShadow \/ UnloadShadow \/ Archive
           \/ Score(TRUE, FALSE) \/ Score(FALSE, FALSE) \/ Score(FALSE, TRUE)
           \/ UNCHANGED vars
  BY <1>7, PromotesStays DEF Reload, ReloadFails, LoadShadow, UnloadShadow, Archive, Score, vars
<1> QED
  BY <1>1, <1>2, <1>3, <1>4, <1>5, <1>6, <1>7 DEF Next, Gating

-----------------------------------------------------------------------------
LEMMA ClearsStep == GateInv /\ [Next]_vars => GatedClearsBar'
<1> SUFFICES ASSUME GateInv, [Next]_vars PROVE GatedClearsBar'
  OBVIOUS
<1> USE GateAssumption DEF GateInv, GateTypeOK, GatedClearsBar, disk, making, runs, sidecar, past
<1>1. ASSUME NEW g \in Gates, NEW withReport \in BOOLEAN, TrainChallenger(g, withReport)
      PROVE  GatedClearsBar'
  BY <1>1, NewVersionAdds DEF TrainChallenger, Trained
<1>2. CASE TrainDirectly
  BY <1>2, NewVersionAdds DEF TrainDirectly, Trained
<1>3. ASSUME NEW g \in Gates, Promote(g) PROVE GatedClearsBar'
  BY <1>3 DEF Promote, Promotes, Deciding
<1>4. ASSUME NEW g \in Gates, NEW withReport \in BOOLEAN,
             \/ LoadChallenger(g, withReport) \/ ReadChampion(g) \/ ReadReport(g)
             \/ Park(g) \/ Die(g)
      PROVE  GatedClearsBar'
  BY <1>4 DEF LoadChallenger, ReadChampion, ReadReport, Park, Die
<1>5. CASE \/ Reload \/ ReloadFails \/ LoadShadow \/ UnloadShadow \/ Archive
           \/ Score(TRUE, FALSE) \/ Score(FALSE, FALSE) \/ Score(FALSE, TRUE)
           \/ UNCHANGED vars
  BY <1>5 DEF Reload, ReloadFails, LoadShadow, UnloadShadow, Archive, Score, vars
<1> QED
  BY <1>1, <1>2, <1>3, <1>4, <1>5 DEF Next, Gating

(* A fresh report is never good enough: the bar wants readings. *)
LEMMA FreshNotEnough ==
  ASSUME NEW model PROVE ~EnoughAgreement(NoReadings(model))
  BY GateAssumption DEF EnoughAgreement, NoReadings

LEMMA CountedStep == GateInv /\ [Next]_vars => Counted'
<1> SUFFICES ASSUME GateInv, [Next]_vars PROVE Counted'
  OBVIOUS
<1> USE GateAssumption DEF GateInv, GateTypeOK, Counted, OrNone, Go, Leave,
        disk, making, runs, sidecar, past
<1>1. ASSUME NEW g \in Gates, Gating(g) \/ Die(g) PROVE Counted'
  <2>1. earned' = earned /\ shadow' = shadow
    BY <1>1 DEF Gating, ReadChampion, ReadReport, Park, Promote, Die
  <2>2. /\ archive' = archive
        /\ \A o \in Gates : report'[o] \in {None, report[o], shadow, archive}
    BY <1>1 DEF Gating, ReadChampion, ReadReport, Park, Promote, Die
  <2> QED
    BY <2>1, <2>2 DEF Founded
<1>2. ASSUME NEW g \in Gates, NEW withReport \in BOOLEAN,
             TrainChallenger(g, withReport) \/ LoadChallenger(g, withReport)
      PROVE  Counted'
  BY <1>2 DEF TrainChallenger, LoadChallenger, Founded
<1>3. CASE TrainDirectly \/ ReloadFails \/ UNCHANGED vars
  BY <1>3 DEF TrainDirectly, ReloadFails, vars, Founded
<1>4. CASE Reload \/ LoadShadow \/ UnloadShadow
  <2>1. earned' = earned /\ report' = report /\ archive' = archive
    BY <1>4 DEF Reload, LoadShadow, UnloadShadow
  <2>2. shadow' = None \/ \E model : shadow' = NoReadings(model)
    BY <1>4 DEF Reload, LoadShadow, UnloadShadow
  <2>3. Founded(shadow)'
    BY <2>2, FreshNotEnough DEF Founded
  <2>4. shadow' # None => shadow'.agree <= shadow'.n
    BY <2>2 DEF NoReadings
  <2> QED
    BY <2>1, <2>3, <2>4 DEF Founded
<1>5. ASSUME NEW agreed \in BOOLEAN, NEW failed \in BOOLEAN, Score(agreed, failed),
             ~(agreed /\ failed)
      PROVE  Counted'
  <2>1. shadow \in Reports /\ shadow.agree <= shadow.n
    BY <1>5 DEF Score
  <2>2. shadow'.model = shadow.model /\ shadow'.agree <= shadow'.n
    BY <1>5, <2>1 DEF Score, Reports
  <2>3. earned \subseteq earned' /\ report' = report /\ archive' = archive
    BY <1>5 DEF Score
  <2>4. EnoughAgreement(shadow') => shadow'.model \in earned'
    BY <1>5, <2>2 DEF Score
  <2> QED
    BY <2>2, <2>3, <2>4 DEF Founded
<1>6. CASE Archive
  BY <1>6 DEF Archive, Founded
<1> QED
  BY <1>1, <1>2, <1>3, <1>4, <1>5, <1>6 DEF Next

LEMMA EvidenceStep == GateInv /\ [Next]_vars => EvidenceEarned'
<1> SUFFICES ASSUME GateInv, [Next]_vars PROVE EvidenceEarned'
  OBVIOUS
<1> USE DEF GateInv, EvidenceEarned, disk, making, runs, sidecar, past
<1>1. ASSUME NEW g \in Gates, Promote(g) PROVE EvidenceEarned'
  <2>1. g \in online => challenger[g] \in earned
    BY <1>1 DEF Promote, Promotes, Supports, Deciding, Counted, Founded
  <2> QED
    BY <1>1, <2>1 DEF Promote
<1>2. ASSUME NEW g \in Gates, NEW withReport \in BOOLEAN,
             \/ TrainChallenger(g, withReport) \/ LoadChallenger(g, withReport)
             \/ ReadChampion(g) \/ ReadReport(g) \/ Park(g) \/ Die(g)
      PROVE  EvidenceEarned'
  BY <1>2 DEF TrainChallenger, LoadChallenger, ReadChampion, ReadReport, Park, Die
<1>3. CASE \/ TrainDirectly \/ Reload \/ ReloadFails \/ LoadShadow \/ UnloadShadow \/ Archive
           \/ Score(TRUE, FALSE) \/ Score(FALSE, FALSE) \/ Score(FALSE, TRUE)
           \/ UNCHANGED vars
  BY <1>3 DEF TrainDirectly, Reload, ReloadFails, LoadShadow, UnloadShadow, Archive, Score, vars
<1> QED
  BY <1>1, <1>2, <1>3 DEF Next, Gating

-----------------------------------------------------------------------------
LEMMA GateInvariant == Spec => []GateInv
<1>1. Init => GateInv
  BY TypeInit DEF Init, GateInv, Trained, Deciding, GatedClearsBar, Counted, Founded,
                  EvidenceEarned
<1>2. GateInv /\ [Next]_vars => GateInv'
  BY TypeStep, TrainedStep, DecidingStep, ClearsStep, CountedStep, EvidenceStep DEF GateInv
<1> QED
  BY <1>1, <1>2, PTL DEF Spec

(* Every state is well typed: a version promoted on evidence is one that a *)
(* gate promoted (promote.py:386-389).                                     *)
THEOREM GateTyped == Spec => []GateTypeOK
<1>1. GateInv => GateTypeOK
  BY DEF GateInv
<1> QED
  BY GateInvariant, <1>1, PTL

(* Whatever a gate ever put at the champion's path clears the absolute bar *)
(* (promote.py:94-109), for any number of gates that overlap.              *)
THEOREM BarKept == Spec => []GatedClearsBar
<1>1. GateInv => GatedClearsBar
  BY DEF GateInv
<1> QED
  BY GateInvariant, <1>1, PTL

(* Whatever a gate promoted on a shadow report earned it in live traffic   *)
(* (promote.py:142-171).                                                   *)
THEOREM EvidenceSound == Spec => []EvidenceEarned
<1>1. GateInv => EvidenceEarned
  BY DEF GateInv
<1> QED
  BY GateInvariant, <1>1, PTL

(* A gate replaces the champion it compared with only by one that is no    *)
(* worse within the tolerances (promote.py:174-195).                       *)
THEOREM NeverWorse == Spec => ReplacesNoWorse
<1> DEFINE A == \A g \in Gates :
                  step[g] = "promote" /\ step'[g] = "idle" /\ champion' # champion
                    /\ rival[g] = champion /\ champion # None
                    => NoWorse(quality[champion'], quality[champion])
<1>1. GateInv /\ [Next]_vars => A
  <2> SUFFICES ASSUME GateInv, [Next]_vars, NEW g \in Gates,
                      step[g] = "promote", step'[g] = "idle", champion' # champion,
                      rival[g] = champion, champion # None
               PROVE  NoWorse(quality[champion'], quality[champion])
    OBVIOUS
  <2>1. PICK o \in Gates : Promote(o)
    BY DEF Next, Gating, TrainChallenger, LoadChallenger, ReadChampion, ReadReport, Park, Die,
           TrainDirectly, Reload, ReloadFails, LoadShadow, UnloadShadow, Archive, Score, vars,
           disk, runs
  <2>2. o = g
    BY <2>1 DEF Promote, Leave, Go, GateInv, GateTypeOK
  <2> QED
    BY <2>1, <2>2 DEF Promote, Promotes, GateInv, Deciding
<1> QED
  BY GateInvariant, <1>1, PTL DEF Spec, ReplacesNoWorse
=============================================================================
