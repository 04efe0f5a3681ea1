------------------------- MODULE InferenceServerProofs -------------------------
(***************************************************************************)
(* The sidecar's swaps end consistent, a shadow's report is about that     *)
(* shadow, the whole implements ModelServing, and its lock is held up by   *)
(* nothing but a second signal, for every number of requests, signals and  *)
(* bundles.  The inductive invariant says how far the holder of            *)
(* _state_lock has got, and what a scorer took along from a state that     *)
(* may have been swapped since.                                            *)
(***************************************************************************)
EXTENDS InferenceServer, FiniteSetTheorems, TLAPS

ScorerSteps == {"idle", "score", "signals", "compute", "publish", "shadow", "compare", "respond"}
LoaderSteps == {"idle", "lock", "load", "swap", "reset", "info", "evidence",
                "attach", "detach", "clear", "label"}

(* Where a loader is between acquiring and releasing _state_lock. *)
LockedSteps == {"load", "swap", "reset", "info", "evidence", "attach", "detach"}

(* Where it has a bundle in its hands. *)
HoldingSteps == {"swap", "reset", "info", "evidence", "attach", "label"}

(* What a scorer has read: the champion's bundle, then the window with its *)
(* scaler, then the shadow.                                                *)
ScorerHolds ==
  \A r \in Scorers :
    /\ pc[r] \in ScorerSteps
    /\ pc[r] # "idle" => own[r] \in Bundles
    /\ pc[r] \in {"compute", "publish"} => ref[r] \in Frame
    /\ pc[r] = "compare" => ref[r] \in Shadows

(* What a loader was asked to do, and what it has loaded. *)
LoaderHolds ==
  \A t \in Loaders :
    /\ pc[t] \in LoaderSteps
    /\ pc[t] = "lock" => op[t] \in Sources \union {"unload"}
    /\ pc[t] = "load" => op[t] \in Sources
    /\ pc[t] \in HoldingSteps => own[t] \in Bundles

(* The lock is held by the one loader that is under it. *)
LockHeld == \A t \in Loaders : pc[t] \in LockedSteps <=> lock = t

(* Loaders that may still make a tracker. *)
PendingSteps == {"lock", "load", "swap", "reset", "info", "evidence", "attach"}
Pending      == {t \in Loaders : pc[t] \in PendingSteps}

(* A request or a signal makes one tracker at most. *)
TrackersCounted == trackers + Cardinality(Pending) <= requests + signals

(* The parts of a swap that are done name the new bundle, and the others   *)
(* still agree with each other.                                            *)
SwapProgress ==
  /\ \A t \in Loaders :
       /\ pc[t] = "swap" => own[t] = lastLoaded
       /\ pc[t] \in {"reset", "info", "evidence"} => champion = own[t]
       /\ pc[t] \in {"info", "evidence"} => drift.scaler = own[t]
       /\ pc[t] = "evidence" => modelInfo = own[t]
  /\ (\A t \in Loaders : pc[t] # "swap") => champion = lastLoaded
  /\ (\A t \in Loaders : pc[t] # "reset") => drift.scaler = champion
  /\ (\A t \in Loaders : pc[t] \notin {"reset", "info"}) => modelInfo = champion
  /\ (\A t \in Loaders : pc[t] \notin {"reset", "info", "evidence"}) =>
       (shadow # None => shadow.champion = champion)

(* Nobody has a tracker that was not made, and who has the shadow's        *)
(* tracker has the shadow.                                                 *)
TrackersApart ==
  /\ \A k \in Trackers : k > trackers => seen[k] = {}
  /\ shadow # None => shadow.tracker <= trackers
  /\ \A r \in Scorers : pc[r] = "compare" =>
       /\ ref[r].tracker <= trackers
       /\ shadow # None /\ shadow.tracker = ref[r].tracker => ref[r].model = shadow.model

ServerInv ==
  /\ TypeOK /\ ScorerHolds /\ LoaderHolds /\ LockHeld
  /\ TrackersCounted /\ SwapProgress /\ TrackersApart /\ EvidenceOwnShadow
-----------------------------------------------------------------------------
(* Counting trackers *)

LEMMA PendingFinite == IsFiniteSet(Pending) /\ Cardinality(Pending) \in Nat
<1>1. IsFiniteSet(Admins) /\ Loaders = (Admins \union {Outer}) \union {Inner}
  BY InferenceAssumption DEF Loaders, Frames
<1>2. IsFiniteSet(Loaders)
  BY <1>1, FS_AddElement
<1>3. Pending \in SUBSET Loaders
  BY DEF Pending
<1>4. IsFiniteSet(Pending)
  BY <1>2, <1>3, FS_Subset
<1> QED BY <1>4, FS_CardinalityType

(* Whoever may still make a tracker finds a number for it. *)
LEMMA RoomForTracker ==
  ASSUME TypeOK, TrackersCounted, NEW t \in Pending
  PROVE  trackers + 1 \in Trackers
<1>1. Cardinality(Pending) # 0
  BY PendingFinite, FS_EmptySet
<1> QED BY <1>1, PendingFinite, InferenceAssumption DEF TypeOK, TrackersCounted, Trackers

(* A loader that moves is pending or not by where it goes. *)
LEMMA PendingAfter ==
  ASSUME TypeOK, NEW t \in Loaders, NEW step, Goto(t, step)
  PROVE  Pending' = IF step \in PendingSteps THEN Pending \union {t} ELSE Pending \ {t}
BY DEF Goto, Pending, TypeOK, Threads

LEMMA PendingCounts ==
  ASSUME NEW t
  PROVE  /\ Cardinality(Pending \union {t}) =
              IF t \in Pending THEN Cardinality(Pending) ELSE Cardinality(Pending) + 1
         /\ Cardinality(Pending \ {t}) =
              IF t \in Pending THEN Cardinality(Pending) - 1 ELSE Cardinality(Pending)
BY PendingFinite, FS_AddElement, FS_RemoveElement

-----------------------------------------------------------------------------
(* Initially *)

LEMMA InitServerInv == Init => ServerInv
<1> SUFFICES ASSUME Init PROVE ServerInv
  OBVIOUS
<1> USE InferenceAssumption DEF Init
<1>1. TypeOK
  BY DEF TypeOK, Bundles, Trackers, Steps, Sources
<1>2. ScorerHolds /\ LoaderHolds /\ LockHeld
  BY DEF ScorerHolds, LoaderHolds, LockHeld, ScorerSteps, LoaderSteps, HoldingSteps,
         LockedSteps, Threads
<1>3. TrackersCounted
  <2>1. Pending = {}
    BY DEF Pending, PendingSteps, Threads
  <2> QED BY <2>1, FS_EmptySet DEF TrackersCounted
<1>4. SwapProgress /\ TrackersApart /\ EvidenceOwnShadow
  BY DEF SwapProgress, TrackersApart, EvidenceOwnShadow, Threads
<1> QED BY <1>1, <1>2, <1>3, <1>4 DEF ServerInv

-----------------------------------------------------------------------------
(* Types *)

LEMMA TypeScoring ==
  ASSUME ServerInv, NEW r \in Scorers, Snapshot(r) \/ Scoring(r)
  PROVE  TypeOK'
<1> USE InferenceAssumption DEF ServerInv, TypeOK, Goto, Steps, Threads,
        store, serving, gauges, locals, bounds
<1>1. CASE Snapshot(r) \/ Respond(r) \/ ScoreRaises(r)
  BY <1>1 DEF Snapshot, Respond, ScoreRaises
<1>2. CASE Score(r)
  BY <1>2 DEF Score, Observed
<1>3. CASE CopyWindow(r)
  BY <1>3 DEF CopyWindow, Frame
<1>4. CASE Compute(r)
  BY <1>4 DEF Compute, ScorerHolds, Frame
<1>5. CASE PublishDrift(r)
  BY <1>5 DEF PublishDrift, ScorerHolds
<1>6. CASE ReadShadow(r)
  BY <1>6 DEF ReadShadow
<1>7. CASE Compare(r)
  <2>1. ref[r] \in Shadows /\ own[r] \in Bundles
    BY <1>7 DEF Compare, ScorerHolds
  <2> QED BY <1>7, <2>1 DEF Compare, Shadows
<1> QED BY <1>1, <1>2, <1>3, <1>4, <1>5, <1>6, <1>7 DEF Scoring

LEMMA TypeLoading ==
  ASSUME ServerInv, NEW t \in Loaders, Loading(t)
  PROVE  TypeOK'
<1> USE InferenceAssumption DEF ServerInv, TypeOK, Goto, Steps, Threads,
        store, serving, gauges, locals, bounds
<1>1. CASE Acquire(t)
  BY <1>1 DEF Acquire
<1>2. CASE Load(t)
  <2>1. op[t] \in Sources
    BY <1>2 DEF Load, LoaderHolds
  <2> QED BY <1>2, <2>1 DEF Load
<1>3. CASE SwapState(t) \/ ResetDrift(t) \/ SwapInfo(t)
  <2>1. own[t] \in Bundles
    BY <1>3 DEF SwapState, ResetDrift, SwapInfo, LoaderHolds, HoldingSteps
  <2> QED BY <1>3, <2>1 DEF SwapState, ResetDrift, SwapInfo
<1>4. CASE SwapShadow(t) \/ Attach(t)
  <2>1. own[t] \in Bundles /\ t \in Pending
    BY <1>4 DEF SwapShadow, Attach, LoaderHolds, HoldingSteps, Pending, PendingSteps
  <2>2. trackers + 1 \in Trackers
    BY <2>1, RoomForTracker
  <2>3. shadow' \in Shadows \union {None} /\ trackers' \in Trackers
    BY <1>4, <2>1, <2>2 DEF SwapShadow, Attach, FreshTracker, Shadows
  <2> QED BY <1>4, <2>3 DEF SwapShadow, Attach
<1>5. CASE Detach(t) \/ ClearInfo(t)
  BY <1>5 DEF Detach, ClearInfo
<1>6. CASE LabelInfo(t)
  BY <1>6 DEF LabelInfo, LoaderHolds, HoldingSteps
<1> QED BY <1>1, <1>2, <1>3, <1>4, <1>5, <1>6 DEF Loading

LEMMA TypeOthers ==
  ASSUME ServerInv,
         \/ \E a \in Admins, what \in Sources \union {"unload"} : Request(a, what)
         \/ \E frame \in Frames : Signal(frame)
         \/ \E src \in Sources : Publish(src) \/ Break(src)
         \/ UNCHANGED vars
  PROVE  TypeOK'
<1> USE InferenceAssumption DEF ServerInv, TypeOK, Goto, Steps, Threads, Loaders,
        store, serving, gauges, locals, bounds
<1>1. ASSUME NEW a \in Admins, NEW what \in Sources \union {"unload"}, Request(a, what)
      PROVE  TypeOK'
  BY <1>1 DEF Request
<1>2. ASSUME NEW frame \in Frames, Signal(frame) PROVE TypeOK'
  BY <1>2 DEF Signal, Sources
<1>3. ASSUME NEW src \in Sources, Publish(src) \/ Break(src) PROVE TypeOK'
  <2>1. written' \in Bundles /\ disk' \in [Sources -> Bundles \union {Broken}]
    BY <1>3 DEF Publish, Break, Bundles
  <2> QED BY <1>3, <2>1 DEF Publish, Break
<1>4. CASE UNCHANGED vars
  BY <1>4 DEF vars
<1> QED BY <1>1, <1>2, <1>3, <1>4

-----------------------------------------------------------------------------
(* What a step leaves alone *)

LEMMA ScorerLeavesLoaders ==
  ASSUME TypeOK, NEW r \in Scorers, Snapshot(r) \/ Scoring(r)
  PROVE  /\ \A t \in Loaders : pc'[t] = pc[t] /\ own'[t] = own[t]
         /\ UNCHANGED <<op, lock, champion, shadow, trackers, modelInfo, lastLoaded, bounds>>
         /\ drift'.scaler = drift.scaler
         /\ \A s \in Scorers : s # r => pc'[s] = pc[s] /\ own'[s] = own[s] /\ ref'[s] = ref[s]
         /\ Compare(r) \/ UNCHANGED seen
<1> USE InferenceAssumption DEF TypeOK, Goto, Threads, serving, gauges, locals, bounds
<1>1. CASE Snapshot(r) \/ Respond(r) \/ ScoreRaises(r)
  BY <1>1 DEF Snapshot, Respond, ScoreRaises
<1>2. CASE Score(r)
  BY <1>2 DEF Score, Observed
<1>3. CASE CopyWindow(r) \/ Compute(r)
  BY <1>3 DEF CopyWindow, Compute
<1>4. CASE PublishDrift(r) \/ ReadShadow(r)
  BY <1>4 DEF PublishDrift, ReadShadow
<1>5. CASE Compare(r)
  BY <1>5 DEF Compare
<1> QED BY <1>1, <1>2, <1>3, <1>4, <1>5 DEF Scoring

LEMMA LoaderLeavesScorers ==
  ASSUME TypeOK, NEW t \in Loaders, Loading(t)
  PROVE  /\ \A r \in Scorers : pc'[r] = pc[r] /\ own'[r] = own[r]
         /\ UNCHANGED <<ref, seen, bounds>>
         /\ \A u \in Loaders : u # t => pc'[u] = pc[u] /\ own'[u] = own[u] /\ op'[u] = op[u]
<1> USE InferenceAssumption DEF TypeOK, Goto, Threads, serving, locals, bounds
<1>1. CASE Acquire(t) \/ Load(t)
  BY <1>1 DEF Acquire, Load
<1>2. CASE SwapState(t) \/ ResetDrift(t) \/ SwapInfo(t)
  BY <1>2 DEF SwapState, ResetDrift, SwapInfo
<1>3. CASE SwapShadow(t) \/ Attach(t) \/ Detach(t)
  BY <1>3 DEF SwapShadow, Attach, Detach
<1>4. CASE ClearInfo(t) \/ LabelInfo(t)
  BY <1>4 DEF ClearInfo, LabelInfo
<1> QED BY <1>1, <1>2, <1>3, <1>4 DEF Loading

(* A request or a signal that arrives sends an idle loader for the lock.   *)
Arrives(t) ==
  /\ pc[t] = "idle" /\ Goto(t, "lock")
  /\ requests' + signals' = requests + signals + 1
  /\ op' = [op EXCEPT ![t] = op'[t]] /\ op'[t] \in Sources \union {"unload"}
  /\ UNCHANGED <<serving, gauges, drift, lock, own, ref, lastLoaded>>

LEMMA RequestArrives ==
  ASSUME TypeOK
  PROVE  /\ \A a \in Admins, what \in Sources \union {"unload"} : Request(a, what) => Arrives(a)
         /\ \A frame \in Frames : Signal(frame) => Arrives(frame)
<1>1. ASSUME NEW a \in Admins, NEW what \in Sources \union {"unload"}, Request(a, what)
      PROVE  Arrives(a)
  BY <1>1 DEF Request, Arrives, TypeOK, Loaders
<1>2. ASSUME NEW frame \in Frames, Signal(frame) PROVE Arrives(frame)
  BY <1>2 DEF Signal, Arrives, TypeOK, Loaders, Sources
<1> QED BY <1>1, <1>2

-----------------------------------------------------------------------------
(* What the threads hold *)

LEMMA HoldsScoring ==
  ASSUME ServerInv, NEW r \in Scorers, Snapshot(r) \/ Scoring(r)
  PROVE  ScorerHolds' /\ LoaderHolds' /\ LockHeld' /\ TrackersCounted'
<1> USE InferenceAssumption DEF ServerInv
<1>1. \A s \in Scorers : s # r => pc'[s] = pc[s] /\ own'[s] = own[s] /\ ref'[s] = ref[s]
  BY ScorerLeavesLoaders
<1>2. /\ pc'[r] \in ScorerSteps
      /\ pc'[r] # "idle" => own'[r] \in Bundles
      /\ pc'[r] \in {"compute", "publish"} => ref'[r] \in Frame
      /\ pc'[r] = "compare" => ref'[r] \in Shadows
  <2> USE DEF TypeOK, ScorerHolds, ScorerSteps, Goto, Threads, locals
  <2>1. CASE Snapshot(r) \/ Respond(r) \/ ScoreRaises(r) \/ Score(r)
    BY <2>1 DEF Snapshot, Respond, ScoreRaises, Score
  <2>2. CASE CopyWindow(r)
    BY <2>2 DEF CopyWindow, Frame
  <2>3. CASE Compute(r)
    BY <2>3 DEF Compute, Frame
  <2>4. CASE PublishDrift(r) \/ ReadShadow(r) \/ Compare(r)
    BY <2>4 DEF PublishDrift, ReadShadow, Compare
  <2> QED BY <2>1, <2>2, <2>3, <2>4 DEF Scoring
<1>3. ScorerHolds'
  BY <1>1, <1>2 DEF ScorerHolds
<1>4. /\ \A t \in Loaders : pc'[t] = pc[t] /\ own'[t] = own[t]
      /\ UNCHANGED <<op, lock, trackers, requests, signals>>
  BY ScorerLeavesLoaders DEF bounds
<1>5. LoaderHolds' /\ LockHeld'
  BY <1>4 DEF LoaderHolds, LockHeld
<1>6. Pending' = Pending
  BY <1>4 DEF Pending
<1> QED BY <1>3, <1>4, <1>5, <1>6 DEF TrackersCounted

LEMMA HoldsLoading ==
  ASSUME ServerInv, NEW t \in Loaders, Loading(t)
  PROVE  ScorerHolds' /\ LoaderHolds' /\ LockHeld'
<1> USE InferenceAssumption DEF ServerInv
<1>1. ScorerHolds'
  BY LoaderLeavesScorers DEF ScorerHolds
<1>2. \A u \in Loaders : u # t => pc'[u] = pc[u] /\ own'[u] = own[u] /\ op'[u] = op[u]
  BY LoaderLeavesScorers
<1>3. /\ pc'[t] \in LoaderSteps
      /\ pc'[t] = "lock" => op'[t] \in Sources \union {"unload"}
      /\ pc'[t] = "load" => op'[t] \in Sources
      /\ pc'[t] \in HoldingSteps => own'[t] \in Bundles
      /\ \/ /\ pc[t] \in LockedSteps <=> pc'[t] \in LockedSteps
            /\ lock' = lock
         \/ pc[t] \in LockedSteps /\ pc'[t] \notin LockedSteps /\ lock' = None
         \/ lock = None /\ lock' = t /\ pc'[t] \in LockedSteps
  <2> USE DEF TypeOK, LoaderHolds, LoaderSteps, HoldingSteps, LockedSteps, Goto, Threads, locals
  <2>1. CASE Acquire(t)
    BY <2>1 DEF Acquire
  <2>2. CASE Load(t)
    BY <2>2 DEF Load, Sources
  <2>3. CASE SwapState(t) \/ ResetDrift(t) \/ SwapInfo(t)
    BY <2>3 DEF SwapState, ResetDrift, SwapInfo
  <2>4. CASE SwapShadow(t) \/ Attach(t) \/ Detach(t)
    BY <2>4 DEF SwapShadow, Attach, Detach
  <2>5. CASE ClearInfo(t) \/ LabelInfo(t)
    BY <2>5 DEF ClearInfo, LabelInfo
  <2> QED BY <2>1, <2>2, <2>3, <2>4, <2>5 DEF Loading
<1>4. LoaderHolds'
  BY <1>2, <1>3 DEF LoaderHolds
<1>5. LockHeld'
  BY <1>2, <1>3 DEF LockHeld, Threads
<1> QED BY <1>1, <1>4, <1>5

(* Only who is pending makes a tracker, and is not pending any more.       *)
LEMMA CountLoading ==
  ASSUME ServerInv, NEW t \in Loaders, Loading(t)
  PROVE  TrackersCounted'
<1> USE InferenceAssumption DEF ServerInv
<1>1. requests' = requests /\ signals' = signals
  BY LoaderLeavesScorers DEF bounds
<1>2. t \in Pending <=> pc[t] \in PendingSteps
  BY DEF Pending
<1>3. /\ trackers \in Nat /\ requests \in Nat /\ signals \in Nat
      /\ Cardinality(Pending) \in Nat
  BY PendingFinite DEF TypeOK, Trackers
<1>4. CASE SwapShadow(t) \/ Attach(t)
  <2>1. Pending' = Pending \ {t} /\ t \in Pending /\ trackers' \in {trackers, trackers + 1}
    BY <1>4, PendingAfter DEF SwapShadow, Attach, FreshTracker, PendingSteps, Pending
  <2>2. Cardinality(Pending') = Cardinality(Pending) - 1
    BY <2>1, PendingCounts
  <2> QED BY <1>1, <1>3, <2>1, <2>2 DEF TrackersCounted
<1>5. CASE ~(SwapShadow(t) \/ Attach(t))
  <2>1. trackers' = trackers /\ Pending' \in {Pending, Pending \ {t}}
    <3>1. CASE Acquire(t) \/ Load(t)
      BY <3>1, <1>2, PendingAfter DEF Acquire, Load, serving, PendingSteps
    <3>2. CASE SwapState(t) \/ ResetDrift(t) \/ SwapInfo(t)
      BY <3>2, <1>2, PendingAfter DEF SwapState, ResetDrift, SwapInfo, serving, PendingSteps
    <3>3. CASE Detach(t) \/ ClearInfo(t) \/ LabelInfo(t)
      BY <3>3, <1>2, PendingAfter DEF Detach, ClearInfo, LabelInfo, serving, PendingSteps
    <3> QED BY <1>5, <3>1, <3>2, <3>3 DEF Loading
  <2>2. Cardinality(Pending \ {t}) \in {Cardinality(Pending), Cardinality(Pending) - 1}
    BY PendingCounts
  <2>3. CASE Pending' = Pending
    BY <1>1, <2>1, <2>3 DEF TrackersCounted
  <2>4. CASE Pending' = Pending \ {t}
    BY <1>1, <1>3, <2>1, <2>2, <2>4 DEF TrackersCounted
  <2> QED BY <2>1, <2>3, <2>4
<1> QED BY <1>4, <1>5

LEMMA HoldsArrival ==
  ASSUME ServerInv, NEW t \in Loaders, Arrives(t)
  PROVE  ScorerHolds' /\ LoaderHolds' /\ LockHeld' /\ TrackersCounted'
<1> USE InferenceAssumption DEF ServerInv, Arrives
<1>1. ScorerHolds'
  BY DEF ScorerHolds, Goto, TypeOK, Threads
<1>2. LoaderHolds' /\ LockHeld'
  BY DEF LoaderHolds, LockHeld, LoaderSteps, LockedSteps, HoldingSteps, Goto, TypeOK, Threads
<1>3. Pending' = Pending \union {t}
  BY PendingAfter DEF PendingSteps
<1>4. Cardinality(Pending \union {t}) \in {Cardinality(Pending), Cardinality(Pending) + 1}
  BY PendingCounts
<1>5. /\ trackers' = trackers /\ trackers \in Nat /\ requests \in Nat /\ signals \in Nat
      /\ Cardinality(Pending) \in Nat
  BY PendingFinite DEF serving, TypeOK, Trackers
<1>6. TrackersCounted'
  BY <1>3, <1>4, <1>5 DEF TrackersCounted
<1> QED BY <1>1, <1>2, <1>6

-----------------------------------------------------------------------------
(* How far a swap has got *)

LEMMA ProgressLoading ==
  ASSUME ServerInv, NEW t \in Loaders, Loading(t)
  PROVE  SwapProgress'
<1> USE InferenceAssumption DEF ServerInv, TypeOK, LoaderHolds, LockHeld, LockedSteps, Threads,
        Goto, SwapProgress, serving, gauges, locals
<1>1. \A u \in Loaders : u # t => pc'[u] = pc[u] /\ own'[u] = own[u]
  BY LoaderLeavesScorers
<1>2. CASE Acquire(t)
  BY <1>1, <1>2 DEF Acquire
<1>3. CASE Load(t)
  BY <1>1, <1>3 DEF Load
<1>4. CASE SwapState(t)
  BY <1>1, <1>4 DEF SwapState
<1>5. CASE ResetDrift(t)
  BY <1>1, <1>5 DEF ResetDrift
<1>6. CASE SwapInfo(t)
  BY <1>1, <1>6 DEF SwapInfo
<1>7. CASE SwapShadow(t)
  BY <1>1, <1>7 DEF SwapShadow, FreshTracker
<1>8. CASE Attach(t)
  BY <1>1, <1>8 DEF Attach, FreshTracker
<1>9. CASE Detach(t)
  BY <1>1, <1>9 DEF Detach
<1>10. CASE ClearInfo(t) \/ LabelInfo(t)
  BY <1>1, <1>10 DEF ClearInfo, LabelInfo
<1> QED BY <1>2, <1>3, <1>4, <1>5, <1>6, <1>7, <1>8, <1>9, <1>10 DEF Loading

LEMMA ProgressScoring ==
  ASSUME ServerInv, NEW r \in Scorers, Snapshot(r) \/ Scoring(r)
  PROVE  SwapProgress'
BY ScorerLeavesLoaders DEF ServerInv, SwapProgress

LEMMA ProgressArrival ==
  ASSUME ServerInv, NEW t \in Loaders, Arrives(t)
  PROVE  SwapProgress'
BY DEF ServerInv, TypeOK, Threads, Arrives, Goto, SwapProgress, serving, gauges

-----------------------------------------------------------------------------
(* Whose evidence is whose *)

LEMMA TrackersScoring ==
  ASSUME ServerInv, NEW r \in Scorers, Snapshot(r) \/ Scoring(r)
  PROVE  TrackersApart' /\ EvidenceOwnShadow'
<1> USE InferenceAssumption DEF ServerInv, TrackersApart, EvidenceOwnShadow
<1>1. /\ UNCHANGED <<shadow, trackers>>
      /\ \A s \in Scorers : s # r => pc'[s] = pc[s] /\ ref'[s] = ref[s]
      /\ Compare(r) \/ UNCHANGED seen
  BY ScorerLeavesLoaders
<1>2. pc'[r] = "compare" => pc[r] = "shadow" /\ ref'[r] = shadow /\ shadow # None
  BY DEF TypeOK, Threads, Goto, Scoring, Snapshot, Respond, ScoreRaises, Score, CopyWindow, Compute,
         PublishDrift, ReadShadow, Compare
<1>3. CASE UNCHANGED seen
  BY <1>1, <1>2, <1>3
<1>4. CASE Compare(r)
  <2>1. ref[r] \in Shadows /\ pc[r] = "compare" /\ ref[r].tracker \in Trackers
    BY <1>4 DEF Compare, ScorerHolds, Shadows
  <2>2. \A k \in Trackers :
          \/ seen'[k] = seen[k]
          \/ k = ref[r].tracker /\ seen'[k] = seen[k] \union {<<own[r], ref[r].model>>}
    BY <1>4, <2>1 DEF Compare, TypeOK
  <2>3. shadow # None => shadow.tracker \in Trackers
    BY DEF TypeOK, Shadows
  <2>4. TrackersApart'
    <3>1. \A k \in Trackers : k > trackers => k # ref[r].tracker
      BY <2>1 DEF TypeOK, Trackers
    <3>2. pc'[r] # "compare"
      BY <1>2, <2>1
    <3> QED BY <1>1, <2>2, <3>1, <3>2
  <2>5. ASSUME shadow # None, NEW p \in seen'[shadow.tracker] PROVE p[2] = shadow.model
    <3>1. CASE seen'[shadow.tracker] = seen[shadow.tracker]
      BY <2>5, <3>1
    <3>2. CASE /\ shadow.tracker = ref[r].tracker
               /\ seen'[shadow.tracker] = seen[shadow.tracker] \union {<<own[r], ref[r].model>>}
      <4>1. ref[r].model = shadow.model
        BY <2>1, <2>5, <3>2
      <4>2. p \in seen[shadow.tracker] \/ p = <<own[r], ref[r].model>>
        BY <2>5, <3>2
      <4> QED BY <2>5, <4>1, <4>2
    <3> QED BY <2>2, <2>3, <2>5, <3>1, <3>2
  <2>6. EvidenceOwnShadow'
    BY <1>1, <2>5
  <2> QED BY <2>4, <2>6
<1> QED BY <1>1, <1>3, <1>4

LEMMA TrackersLoading ==
  ASSUME ServerInv, NEW t \in Loaders, Loading(t)
  PROVE  TrackersApart' /\ EvidenceOwnShadow'
<1> USE InferenceAssumption DEF ServerInv, TrackersApart, EvidenceOwnShadow
<1>1. /\ \A r \in Scorers : pc'[r] = pc[r]
      /\ UNCHANGED <<ref, seen>>
  BY LoaderLeavesScorers
<1>2. \A r \in Scorers : pc[r] = "compare" => ref[r].tracker \in Trackers
  BY DEF ScorerHolds, Shadows
<1>3. \/ UNCHANGED <<shadow, trackers>>
      \/ shadow' = None /\ trackers' = trackers
      \/ /\ t \in Pending /\ trackers' = trackers + 1
         /\ shadow' \in [model : Bundles, champion : Bundles, tracker : {trackers + 1}]
  <2> USE DEF serving
  <2>1. CASE Acquire(t) \/ Load(t) \/ SwapState(t) \/ ResetDrift(t) \/ SwapInfo(t)
    BY <2>1 DEF Acquire, Load, SwapState, ResetDrift, SwapInfo
  <2>2. CASE SwapShadow(t) \/ Attach(t)
    <3>1. own[t] \in Bundles /\ t \in Pending /\ champion \in Bundles
      BY <2>2 DEF SwapShadow, Attach, LoaderHolds, HoldingSteps, Pending, PendingSteps, TypeOK
    <3>2. shadow # None => shadow.model \in Bundles
      BY DEF TypeOK, Shadows
    <3> QED BY <2>2, <3>1, <3>2 DEF SwapShadow, Attach, FreshTracker
  <2>3. CASE Detach(t) \/ ClearInfo(t) \/ LabelInfo(t)
    BY <2>3 DEF Detach, ClearInfo, LabelInfo
  <2> QED BY <2>1, <2>2, <2>3 DEF Loading
<1>4. CASE UNCHANGED <<shadow, trackers>>
  BY <1>1, <1>4
<1>5. CASE shadow' = None /\ trackers' = trackers
  BY <1>1, <1>5
<1>6. CASE /\ t \in Pending /\ trackers' = trackers + 1
           /\ shadow' \in [model : Bundles, champion : Bundles, tracker : {trackers + 1}]
  <2>1. trackers + 1 \in Trackers /\ trackers \in Nat
    BY <1>6, RoomForTracker DEF TypeOK, Trackers
  <2>2. shadow'.tracker = trackers + 1 /\ seen[trackers + 1] = {}
    BY <1>6, <2>1
  <2> QED BY <1>1, <1>2, <1>6, <2>1, <2>2 DEF Trackers
<1> QED BY <1>3, <1>4, <1>5, <1>6

LEMMA TrackersArrival ==
  ASSUME ServerInv, NEW t \in Loaders, Arrives(t)
  PROVE  TrackersApart' /\ EvidenceOwnShadow'
BY InferenceAssumption
DEF ServerInv, TypeOK, Threads, Arrives, Goto, TrackersApart, EvidenceOwnShadow, serving

-----------------------------------------------------------------------------
(* The sources change under everybody, and nothing else does. *)
LEMMA ServerSources ==
  ASSUME ServerInv, \/ \E src \in Sources : Publish(src) \/ Break(src)
                    \/ UNCHANGED vars
  PROVE  ServerInv'
<1>1. /\ UNCHANGED <<champion, shadow, seen, trackers, modelInfo, drift, lock, pc, own, ref, op>>
      /\ UNCHANGED <<requests, signals, lastLoaded>>
  BY DEF Publish, Break, vars, serving, gauges, locals, bounds
<1>2. TypeOK'
  BY TypeOthers
<1>3. Pending' = Pending
  BY <1>1 DEF Pending
<1> QED
  BY <1>1, <1>2, <1>3
  DEF ServerInv, ScorerHolds, LoaderHolds, LockHeld, TrackersCounted, SwapProgress,
      TrackersApart, EvidenceOwnShadow

LEMMA NextServerInv ==
  ASSUME ServerInv, [Next]_vars
  PROVE  ServerInv'
<1>1. ASSUME NEW r \in Scorers, Snapshot(r) \/ Scoring(r) PROVE ServerInv'
  BY <1>1, TypeScoring, HoldsScoring, ProgressScoring, TrackersScoring DEF ServerInv
<1>2. ASSUME NEW t \in Loaders, Loading(t) PROVE ServerInv'
  BY <1>2, TypeLoading, HoldsLoading, CountLoading, ProgressLoading, TrackersLoading
  DEF ServerInv
<1>3. ASSUME NEW t \in Loaders, Arrives(t), TypeOK' PROVE ServerInv'
  BY <1>3, HoldsArrival, ProgressArrival, TrackersArrival DEF ServerInv
<1>4. ASSUME NEW a \in Admins, NEW what \in Sources \union {"unload"}, Request(a, what)
      PROVE  ServerInv'
  <2>1. TypeOK' /\ a \in Loaders
    BY <1>4, TypeOthers DEF Loaders
  <2> QED BY <1>3, <1>4, <2>1, RequestArrives DEF ServerInv
<1>5. ASSUME NEW frame \in Frames, Signal(frame) PROVE ServerInv'
  <2>1. TypeOK' /\ frame \in Loaders
    BY <1>5, TypeOthers DEF Loaders
  <2> QED BY <1>3, <1>5, <2>1, RequestArrives DEF ServerInv
<1> QED BY <1>1, <1>2, <1>4, <1>5, ServerSources DEF Next

(* What a thread of the server may rely on at each of its steps: who has   *)
(* the lock, what a request has read, how far a swap has got.              *)
THEOREM ServerInvariant == Spec => []ServerInv
<1>1. Init => ServerInv
  BY InitServerInv
<1>2. ServerInv /\ [Next]_vars => ServerInv'
  BY NextServerInv
<1> QED BY <1>1, <1>2, PTL DEF Spec

-----------------------------------------------------------------------------
(* The theorems *)

(* Every variable keeps its type: in particular there is a tracker number  *)
(* left whenever a reload or a shadow load wants one.                      *)
THEOREM ServerTyped == Spec => []TypeOK
<1>1. ServerInv => TypeOK
  BY DEF ServerInv
<1> QED BY <1>1, ServerInvariant, PTL

(* Whatever ran into what: with no load or swap under way, the serving     *)
(* bundle, the drift reference, the info gauge and the champion the shadow *)
(* is compared with are one bundle (_swap_state, server.py:235).           *)
THEOREM SwapsConsistent == Spec => []SwapConsistent
<1>1. ServerInv => SwapConsistent
  BY DEF ServerInv, SwapProgress, SwapConsistent, NoSwapUnderWay
<1> QED BY <1>1, ServerInvariant, PTL

(* However reloads overlap, the one that read its source last serves: the  *)
(* lock is held from the read to the swap (server.py:224).                 *)
LastLoadServes == NoSwapUnderWay => champion = lastLoaded

THEOREM LastLoadWins == Spec => []LastLoadServes
<1>1. ServerInv => LastLoadServes
  BY DEF ServerInv, SwapProgress, LastLoadServes, NoSwapUnderWay
<1> QED BY <1>1, ServerInvariant, PTL

(* The live shadow's report holds verdicts of that shadow only, although   *)
(* requests that read an older one are still writing (server.py:226).      *)
THEOREM EvidenceOwn == Spec => []EvidenceOwnShadow
<1>1. ServerInv => EvidenceOwnShadow
  BY DEF ServerInv
<1> QED BY <1>1, ServerInvariant, PTL

-----------------------------------------------------------------------------
(* The promise of ModelServing *)

(* The lock is held by one loader, so each step is taken by one at a time. *)
LEMMA LoaderAlone ==
  ASSUME ServerInv, NEW t \in Loaders, pc[t] \in LockedSteps, NEW u \in Loaders, u # t
  PROVE  pc[u] \notin LockedSteps
BY DEF ServerInv, LockHeld

(* What the mapped variables are, without the choice of a loader.          *)
MappingIs ==
  /\ Serving = lastLoaded
  /\ \A t \in Loaders : pc[t] = "attach" => Shadowing = own[t]
  /\ (\A t \in Loaders : pc[t] # "attach") =>
       Shadowing = IF shadow = None THEN None ELSE shadow.model
  /\ Evidence = IF NoSwapUnderWay /\ shadow # None THEN seen[shadow.tracker] ELSE {}

LEMMA Mapped == ServerInv => MappingIs
<1> SUFFICES ASSUME ServerInv PROVE MappingIs
  OBVIOUS
<1>1. ASSUME NEW step \in LockedSteps, NEW t \in Loaders, pc[t] = step
      PROVE  At({step}) # {} /\ Loaded(step) = own[t]
  <2>1. \A u \in Loaders : pc[u] = step => u = t
    BY <1>1, LoaderAlone
  <2> QED BY <1>1, <2>1 DEF At, Loaded
<1>2. ASSUME NEW step, \A t \in Loaders : pc[t] # step PROVE At({step}) = {}
  BY <1>2 DEF At
<1>3. Serving = lastLoaded
  <2>1. CASE \A t \in Loaders : pc[t] # "swap"
    BY <1>2, <2>1 DEF Serving, ServerInv, SwapProgress
  <2>2. ASSUME NEW t \in Loaders, pc[t] = "swap" PROVE Serving = lastLoaded
    BY <1>1, <2>2 DEF Serving, ServerInv, SwapProgress, LockedSteps
  <2> QED BY <2>1, <2>2
<1>4. ASSUME NEW t \in Loaders, pc[t] = "attach" PROVE Shadowing = own[t]
  BY <1>1, <1>4 DEF Shadowing, LockedSteps
<1>5. (\A t \in Loaders : pc[t] # "attach") =>
        Shadowing = IF shadow = None THEN None ELSE shadow.model
  BY <1>2 DEF Shadowing
<1> QED BY <1>3, <1>4, <1>5 DEF MappingIs, Evidence

(* Where a load has taken effect and is not finished.                      *)
SwapSteps == {"swap", "reset", "info", "evidence", "attach"}

Elsewhere(u) ==
  \/ pc'[u] = pc[u] /\ own'[u] = own[u]
  \/ pc[u] \notin SwapSteps /\ pc'[u] \notin SwapSteps

(* Nothing the promise speaks of changes. *)
Unnoticed == UNCHANGED <<disk, Serving, Shadowing, Evidence>>

(* What no loader does between its load and its last step changes neither  *)
(* the champion nor the shadow.                                            *)
LEMMA OutsideSwap ==
  ASSUME ServerInv, MappingIs, MappingIs', UNCHANGED <<lastLoaded, shadow>>,
         \A u \in Loaders : Elsewhere(u)
  PROVE  /\ UNCHANGED <<Serving, Shadowing, NoSwapUnderWay>>
         /\ seen' = seen => UNCHANGED Evidence
<1>1. \A u \in Loaders :
        /\ pc'[u] = "attach" <=> pc[u] = "attach"
        /\ pc[u] = "attach" => own'[u] = own[u]
        /\ pc'[u] \in SwapSteps <=> pc[u] \in SwapSteps
  BY DEF SwapSteps, Elsewhere
<1>2. UNCHANGED NoSwapUnderWay
  BY <1>1 DEF NoSwapUnderWay, SwapSteps
<1>3. UNCHANGED Serving
  BY DEF MappingIs
<1>4. UNCHANGED Shadowing
  <2>1. CASE \A u \in Loaders : pc[u] # "attach"
    BY <1>1, <2>1 DEF MappingIs
  <2>2. ASSUME NEW u \in Loaders, pc[u] = "attach" PROVE UNCHANGED Shadowing
    BY <1>1, <2>2 DEF MappingIs
  <2> QED BY <2>1, <2>2
<1>5. seen' = seen => UNCHANGED Evidence
  BY <1>2 DEF MappingIs
<1> QED BY <1>2, <1>3, <1>4, <1>5

LEMMA ScoringServes ==
  ASSUME ServerInv, MappingIs, MappingIs', NEW r \in Scorers, Snapshot(r) \/ Scoring(r)
  PROVE  Unnoticed \/ \E b \in Bundles : Promise!Count(b)
<1>1. /\ \A t \in Loaders : pc'[t] = pc[t] /\ own'[t] = own[t]
      /\ UNCHANGED <<shadow, lastLoaded>>
      /\ Compare(r) \/ UNCHANGED seen
  BY ScorerLeavesLoaders DEF ServerInv
<1>2. disk' = disk
  BY DEF Scoring, Snapshot, Respond, ScoreRaises, Score, CopyWindow, Compute, PublishDrift,
         ReadShadow, Compare, store
<1>3. /\ UNCHANGED <<Serving, Shadowing, NoSwapUnderWay>>
      /\ seen' = seen => UNCHANGED Evidence
  <2>1. UNCHANGED <<lastLoaded, shadow>> /\ \A u \in Loaders : Elsewhere(u)
    BY <1>1 DEF Elsewhere
  <2> QED BY <2>1, OutsideSwap
<1>4. CASE seen' = seen
  BY <1>2, <1>3, <1>4 DEF Unnoticed
<1>5. CASE Compare(r) /\ seen' # seen
  <2>1. /\ ref[r] \in Shadows /\ own[r] \in Bundles /\ pc[r] = "compare"
        /\ seen' = [seen EXCEPT ![ref[r].tracker] = @ \union {<<own[r], ref[r].model>>}]
    BY <1>5 DEF Compare, ServerInv, ScorerHolds
  <2>2. ref[r].tracker \in Trackers /\ seen \in [Trackers -> SUBSET (Bundles \X Bundles)]
    BY <2>1 DEF Shadows, ServerInv, TypeOK
  <2>3. shadow # None => shadow.tracker \in Trackers /\ shadow.model \in Bundles
    BY DEF ServerInv, TypeOK, Shadows
  <2>4. CASE NoSwapUnderWay /\ shadow # None /\ shadow.tracker = ref[r].tracker
    <3>1. ref[r].model = shadow.model
      BY <2>1, <2>4 DEF ServerInv, TrackersApart
    <3>2. Shadowing = shadow.model
      BY <2>4 DEF NoSwapUnderWay, MappingIs
    <3>3. Evidence' = Evidence \union {<<own[r], Shadowing>>}
      BY <1>1, <1>3, <2>1, <2>2, <2>4, <3>1, <3>2 DEF MappingIs
    <3>4. Shadowing # None
      BY <2>3, <2>4, <3>2, InferenceAssumption DEF Bundles
    <3> QED BY <1>2, <1>3, <2>1, <3>3, <3>4 DEF Promise!Count
  <2>5. CASE ~(NoSwapUnderWay /\ shadow # None /\ shadow.tracker = ref[r].tracker)
    <3>1. UNCHANGED Evidence
      BY <1>1, <1>3, <2>1, <2>2, <2>3, <2>5 DEF MappingIs
    <3> QED BY <1>2, <1>3, <3>1 DEF Unnoticed
  <2> QED BY <2>4, <2>5
<1> QED BY <1>1, <1>4, <1>5

LEMMA LoadServes ==
  ASSUME ServerInv, MappingIs, MappingIs', NEW t \in Loaders, Load(t)
  PROVE  Unnoticed \/ Promise!LoadShadow
         \/ \E source \in {"file", "registry"} : Promise!Reload(source)
<1>1. /\ pc[t] = "load" /\ op[t] \in Sources /\ UNCHANGED <<disk, shadow, seen>>
      /\ \A u \in Loaders : u # t => pc'[u] = pc[u] /\ own'[u] = own[u]
  BY LoaderLeavesScorers DEF ServerInv, LoaderHolds, Load, Loading, store, serving
<1>2. \A u \in Loaders : u # t => pc[u] \notin LockedSteps
  BY <1>1, LoaderAlone DEF LockedSteps
<1>3. CASE disk[op[t]] = Broken
  <2>1. pc'[t] = "idle" /\ lastLoaded' = lastLoaded
    BY <1>3 DEF Load, Goto, ServerInv, TypeOK, Threads
  <2>2. UNCHANGED <<Serving, Shadowing, Evidence>>
    <3>1. \A u \in Loaders : Elsewhere(u)
      BY <1>1, <2>1 DEF SwapSteps, Elsewhere
    <3>2. UNCHANGED <<lastLoaded, shadow>> /\ seen' = seen
      BY <1>1, <2>1
    <3> QED BY <3>1, <3>2, OutsideSwap
  <2> QED BY <1>1, <2>2 DEF Unnoticed
<1>4. CASE disk[op[t]] # Broken
  <2>1. /\ own'[t] = disk[op[t]]
        /\ lastLoaded' = IF op[t] = "candidate" THEN lastLoaded ELSE disk[op[t]]
        /\ pc'[t] = IF op[t] = "candidate" THEN "attach" ELSE "swap"
    BY <1>4 DEF Load, Goto, ServerInv, TypeOK, Threads
  <2>2. Evidence' = {}
    BY <2>1 DEF MappingIs, NoSwapUnderWay
  <2>3. CASE op[t] = "candidate"
    <3>1. Serving' = Serving /\ Shadowing' = disk["candidate"]
      BY <2>1, <2>3 DEF MappingIs
    <3> QED BY <1>1, <1>4, <2>2, <2>3, <3>1 DEF Promise!LoadShadow
  <2>4. CASE op[t] # "candidate"
    <3>1. op[t] \in {"file", "registry"} /\ Serving' = disk[op[t]]
      BY <1>1, <2>1, <2>4 DEF MappingIs, Sources
    <3>2. \A u \in Loaders : pc[u] # "attach" /\ pc'[u] # "attach"
      BY <1>1, <1>2, <2>1, <2>4 DEF LockedSteps
    <3>3. Shadowing' = Shadowing
      BY <1>1, <3>2 DEF MappingIs
    <3> QED BY <1>1, <1>4, <2>2, <3>1, <3>3 DEF Promise!Reload
  <2> QED BY <2>3, <2>4
<1> QED BY <1>3, <1>4

(* The steps of a swap after its load, and the attaching of a shadow.      *)
LEMMA SwapServes ==
  ASSUME ServerInv, MappingIs, MappingIs', NEW t \in Loaders,
         \/ SwapState(t) \/ ResetDrift(t) \/ SwapInfo(t) \/ SwapShadow(t) \/ Attach(t)
  PROVE  Unnoticed
<1>1. /\ UNCHANGED <<disk, lastLoaded, seen>>
      /\ pc[t] \in {"swap", "reset", "info", "evidence", "attach"}
      /\ \A u \in Loaders : u # t => pc'[u] = pc[u] /\ own'[u] = own[u]
  BY LoaderLeavesScorers DEF ServerInv, Loading, SwapState, ResetDrift, SwapInfo, SwapShadow,
                             Attach, store
<1>2. \A u \in Loaders : u # t => pc[u] \notin LockedSteps
  BY <1>1, LoaderAlone DEF LockedSteps
<1>3. Evidence = {} /\ Serving' = Serving
  BY <1>1 DEF MappingIs, NoSwapUnderWay
<1>4. CASE SwapState(t) \/ ResetDrift(t) \/ SwapInfo(t)
  <2>1. /\ shadow' = shadow /\ pc[t] # "attach"
        /\ pc'[t] \in {"reset", "info", "evidence"}
    BY <1>4 DEF SwapState, ResetDrift, SwapInfo, Goto, serving, ServerInv, TypeOK, Threads
  <2>2. Evidence' = {}
    BY <2>1 DEF MappingIs, NoSwapUnderWay
  <2>3. \A u \in Loaders : pc[u] # "attach" /\ pc'[u] # "attach"
    BY <1>1, <1>2, <2>1 DEF LockedSteps
  <2>4. Shadowing' = Shadowing
    BY <2>1, <2>3 DEF MappingIs
  <2> QED BY <1>1, <1>3, <2>2, <2>4 DEF Unnoticed
<1>5. CASE SwapShadow(t) \/ Attach(t)
  <2>1. pc'[t] \in {"idle", "clear"}
    BY <1>5 DEF SwapShadow, Attach, Goto, ServerInv, TypeOK, Threads
  <2>2. \A u \in Loaders : pc'[u] # "attach"
    BY <1>1, <1>2, <2>1 DEF LockedSteps
  <2>3. trackers + 1 \in Trackers /\ seen[trackers + 1] = {}
    <3>1. t \in Pending
      BY <1>1 DEF Pending, PendingSteps
    <3>2. trackers + 1 \in Trackers /\ trackers \in Nat
      BY <3>1, RoomForTracker DEF ServerInv, TypeOK, Trackers
    <3> QED BY <3>2 DEF ServerInv, TrackersApart
  <2>4. /\ shadow # None => shadow.model \in Bundles
        /\ own[t] \in Bundles /\ champion \in Bundles
    BY <1>1 DEF ServerInv, TypeOK, Shadows, LoaderHolds, HoldingSteps
  <2>5. \A model, of \in Bundles : [model |-> model, champion |-> of, tracker |-> trackers + 1] # None
    BY <2>3, InferenceAssumption DEF Shadows
  <2>6. Evidence' = {}
    <3>1. \/ shadow' = None
          \/ shadow'.tracker = trackers + 1
          \/ shadow' = shadow /\ pc[t] = "evidence" /\ shadow = None
      BY <1>5 DEF SwapShadow, Attach, FreshTracker
    <3> QED BY <1>1, <2>3, <3>1 DEF MappingIs
  <2>7. Shadowing' = Shadowing
    <3>1. CASE Attach(t)
      <4>1. shadow' # None /\ shadow'.model = own[t] /\ pc[t] = "attach"
        BY <2>4, <2>5, <3>1 DEF Attach, FreshTracker
      <4> QED BY <2>2, <4>1 DEF MappingIs
    <3>2. CASE SwapShadow(t)
      <4>1. \A u \in Loaders : pc[u] # "attach"
        BY <1>1, <1>2, <3>2 DEF SwapShadow, LockedSteps
      <4>2. IF shadow = None THEN shadow' = None
            ELSE shadow' # None /\ shadow'.model = shadow.model
        BY <2>4, <2>5, <3>2 DEF SwapShadow, FreshTracker
      <4> QED BY <2>2, <4>1, <4>2 DEF MappingIs
    <3> QED BY <1>5, <3>1, <3>2
  <2> QED BY <1>1, <1>3, <2>6, <2>7 DEF Unnoticed
<1> QED BY <1>4, <1>5

LEMMA LoadingServes ==
  ASSUME ServerInv, MappingIs, MappingIs', NEW t \in Loaders, Loading(t)
  PROVE  \/ Unnoticed \/ Promise!LoadShadow \/ Promise!UnloadShadow
         \/ \E source \in {"file", "registry"} : Promise!Reload(source)
<1>1. CASE Load(t)
  BY <1>1, LoadServes
<1>2. CASE SwapState(t) \/ ResetDrift(t) \/ SwapInfo(t) \/ SwapShadow(t) \/ Attach(t)
  BY <1>2, SwapServes
<1>3. CASE Detach(t)
  <2>1. /\ pc[t] = "detach" /\ shadow' = None /\ pc'[t] \in {"idle", "clear"}
        /\ UNCHANGED <<disk, lastLoaded>>
        /\ \A u \in Loaders : u # t => pc'[u] = pc[u]
    BY <1>3, LoaderLeavesScorers
    DEF Detach, Goto, ServerInv, TypeOK, Threads, store, Loading
  <2>2. \A u \in Loaders : pc'[u] # "attach"
    BY <2>1, LoaderAlone DEF LockedSteps
  <2>3. Serving' = Serving /\ Shadowing' = None /\ Evidence' = {}
    BY <2>1, <2>2 DEF MappingIs
  <2> QED BY <2>1, <2>3 DEF Promise!UnloadShadow
<1>4. CASE Acquire(t) \/ ClearInfo(t) \/ LabelInfo(t)
  <2>1. /\ UNCHANGED <<disk, lastLoaded, shadow, seen>>
        /\ pc[t] \notin SwapSteps /\ pc'[t] \notin SwapSteps
        /\ \A u \in Loaders : u # t => pc'[u] = pc[u] /\ own'[u] = own[u]
    BY <1>4, LoaderLeavesScorers
    DEF Acquire, ClearInfo, LabelInfo, Goto, ServerInv, TypeOK, Threads, store, serving, Loading,
        SwapSteps
  <2>2. UNCHANGED <<lastLoaded, shadow>> /\ seen' = seen
    BY <2>1
  <2>3. \A u \in Loaders : Elsewhere(u)
    BY <2>1 DEF Elsewhere
  <2> QED BY <2>1, <2>2, <2>3, OutsideSwap DEF Unnoticed
<1> QED BY <1>1, <1>2, <1>3, <1>4 DEF Loading

LEMMA OthersServe ==
  ASSUME ServerInv, MappingIs, MappingIs',
         \/ \E t \in Loaders : Arrives(t) /\ disk' = disk
         \/ \E src \in Sources : Publish(src) \/ Break(src)
         \/ UNCHANGED vars
  PROVE  \/ Unnoticed
         \/ \E source \in {"file", "registry"} \union {"candidate"}, b \in Bundles \union {Broken} :
              Promise!Change(source, b)
<1>1. /\ UNCHANGED <<lastLoaded, shadow, seen>>
      /\ \A u \in Loaders : /\ own'[u] = own[u]
                            /\ pc'[u] = pc[u] \/ (pc[u] = "idle" /\ pc'[u] = "lock")
  BY DEF Arrives, Goto, Publish, Break, vars, serving, locals, ServerInv, TypeOK, Threads
<1>2. UNCHANGED <<Serving, Shadowing, Evidence>>
  <2>1. UNCHANGED <<lastLoaded, shadow>> /\ seen' = seen
    BY <1>1
  <2>2. \A u \in Loaders : Elsewhere(u)
    BY <1>1 DEF SwapSteps, Elsewhere
  <2> QED BY <2>1, <2>2, OutsideSwap
<1>3. CASE disk' = disk
  BY <1>2, <1>3 DEF Unnoticed
<1>4. ASSUME NEW src \in Sources, Publish(src) \/ Break(src)
      PROVE  \E source \in {"file", "registry"} \union {"candidate"}, b \in Bundles \union {Broken} :
               Promise!Change(source, b)
  <2>1. PICK b \in Bundles \union {Broken} : disk' = [disk EXCEPT ![src] = b]
    <3>1. written + 1 \in Bundles \/ Break(src)
      BY <1>4, InferenceAssumption DEF ServerInv, TypeOK, Bundles, Publish
    <3> QED BY <1>4, <3>1 DEF Publish, Break
  <2> QED BY <1>2, <2>1 DEF Promise!Change, Sources
<1> QED BY <1>3, <1>4 DEF vars, store

LEMMA StepServes ==
  ASSUME ServerInv, MappingIs, MappingIs', [Next]_vars
  PROVE  [Promise!Next]_(Promise!vars)
<1>1. Unnoticed => UNCHANGED Promise!vars
  BY DEF Unnoticed, Promise!vars
<1>2. ASSUME NEW r \in Scorers, Snapshot(r) \/ Scoring(r)
      PROVE  Unnoticed \/ Promise!Next
  BY <1>2, ScoringServes DEF Promise!Next
<1>3. ASSUME NEW t \in Loaders, Loading(t) PROVE Unnoticed \/ Promise!Next
  BY <1>3, LoadingServes DEF Promise!Next
<1>4. ASSUME NEW a \in Admins, NEW what \in Sources \union {"unload"}, Request(a, what)
      PROVE  Unnoticed \/ Promise!Next
  <2>1. a \in Loaders /\ Arrives(a) /\ disk' = disk
    BY <1>4, RequestArrives DEF ServerInv, Loaders, Request, store
  <2> QED BY <2>1, OthersServe DEF Promise!Next
<1>5. ASSUME NEW frame \in Frames, Signal(frame) PROVE Unnoticed \/ Promise!Next
  <2>1. frame \in Loaders /\ Arrives(frame) /\ disk' = disk
    BY <1>5, RequestArrives DEF ServerInv, Loaders, Signal, store
  <2> QED BY <2>1, OthersServe DEF Promise!Next
<1>6. CASE (\E src \in Sources : Publish(src) \/ Break(src)) \/ UNCHANGED vars
  <2>1. \/ Unnoticed
        \/ \E source \in {"file", "registry"} \union {"candidate"}, b \in Bundles \union {Broken} :
             Promise!Change(source, b)
    BY <1>6, OthersServe, Zenon
  <2> QED BY <1>1, <2>1 DEF Promise!Next
<1> QED BY <1>1, <1>2, <1>3, <1>4, <1>5, <1>6 DEF Next

(* For any number of requests, signals and bundles the sidecar implements  *)
(* ModelServing: every load takes effect at once and in the order in which *)
(* the sources were read, and a report is never carried over               *)
(* (server.py:224-249).                                                    *)
THEOREM SidecarServesAsPromised == Spec => ServesAsPromised
<1>1. Init => Promise!Init
  <2>1. ASSUME Init PROVE At({"swap"}) = {} /\ At({"attach"}) = {} /\ shadow = None
    BY <2>1 DEF Init, At, Threads
  <2> QED BY <2>1 DEF Init, Promise!Init, Serving, Shadowing, Evidence, Sources
<1>2. ServerInv => MappingIs
  BY Mapped
<1>3. ServerInv /\ MappingIs /\ MappingIs' /\ [Next]_vars => [Promise!Next]_(Promise!vars)
  BY StepServes
<1> QED BY <1>1, <1>2, <1>3, ServerInvariant, PTL DEF Spec, ServesAsPromised, Promise!Spec

-----------------------------------------------------------------------------
(* Who waits for the lock *)

(* The main thread waits for a lock that its own interrupted frame holds.  *)
Stuck == lock = Outer /\ pc[Inner] = "lock"

(* The signal handlers do nothing but reload the file.                     *)
FramesReload ==
  \A frame \in Frames :
    /\ pc[frame] \in {"idle", "lock", "load", "swap", "reset", "info", "evidence"}
    /\ pc[frame] \in {"lock", "load"} => op[frame] = "file"

FramesInv == ServerInv /\ FramesReload

LEMMA InitFramesInv == Init => FramesInv
BY InitServerInv DEF FramesInv, FramesReload, Init, Threads, Loaders

LEMMA NextFramesInv == ASSUME FramesInv, [Next]_vars PROVE FramesInv'
<1> USE InferenceAssumption DEF FramesReload, Loaders, Threads, Goto
<1>1. ServerInv'
  BY NextServerInv DEF FramesInv
<1>2. TypeOK /\ FramesReload
  BY DEF FramesInv, ServerInv
<1>3. ASSUME UNCHANGED <<pc, op>> PROVE FramesReload'
  BY <1>2, <1>3
<1>4. ASSUME NEW r \in Scorers, Snapshot(r) \/ Scoring(r) PROVE FramesReload'
  BY <1>2, <1>4, ScorerLeavesLoaders
<1>5. ASSUME NEW t \in Loaders, Loading(t) PROVE FramesReload'
  <2>1. \A u \in Loaders : u # t => pc'[u] = pc[u] /\ op'[u] = op[u]
    BY <1>2, <1>5, LoaderLeavesScorers
  <2>2. CASE t \notin Frames
    BY <1>2, <2>1, <2>2
  <2>3. CASE t \in Frames
    <3>1. CASE Acquire(t) \/ Load(t)
      BY <1>2, <2>1, <2>3, <3>1 DEF Acquire, Load, TypeOK, locals
    <3>2. CASE SwapState(t) \/ ResetDrift(t) \/ SwapInfo(t) \/ SwapShadow(t)
      BY <1>2, <2>1, <2>3, <3>2 DEF SwapState, ResetDrift, SwapInfo, SwapShadow, TypeOK
    <3>3. ~(Attach(t) \/ Detach(t) \/ ClearInfo(t) \/ LabelInfo(t))
      BY <1>2, <2>3 DEF Attach, Detach, ClearInfo, LabelInfo
    <3> QED BY <1>5, <3>1, <3>2, <3>3 DEF Loading
  <2> QED BY <2>2, <2>3
<1>6. ASSUME NEW a \in Admins, NEW what \in Sources \union {"unload"}, Request(a, what)
      PROVE  FramesReload'
  BY <1>2, <1>6 DEF Request, TypeOK
<1>7. ASSUME NEW frame \in Frames, Signal(frame) PROVE FramesReload'
  BY <1>2, <1>7 DEF Signal, TypeOK
<1>8. ASSUME NEW src \in Sources, Publish(src) \/ Break(src) PROVE FramesReload'
  BY <1>3, <1>8 DEF Publish, Break, locals
<1>9. CASE UNCHANGED vars
  BY <1>1, <1>3, <1>9 DEF vars, locals, FramesInv
<1>10. FramesReload'
  BY <1>4, <1>5, <1>6, <1>7, <1>8, <1>9 DEF Next, FramesInv
<1> QED BY <1>1, <1>10 DEF FramesInv

LEMMA FramesInvariant == Spec => []FramesInv
<1>1. FramesInv /\ [Next]_vars => FramesInv'
  BY NextFramesInv
<1> QED BY <1>1, InitFramesInv, PTL DEF Spec

(* Whoever holds _state_lock can go on, with one exception: a signal that  *)
(* arrived on top of the handler that holds it (server.py:319, 384-392).   *)
HolderProceeds == lock # None => OnTop(lock) \/ Stuck

THEOREM OneWayToWait == Spec => []HolderProceeds
<1>1. FramesInv => HolderProceeds
  <2> SUFFICES ASSUME FramesInv, lock = Outer, pc[Inner] # "idle" PROVE pc[Inner] = "lock"
    BY DEF HolderProceeds, OnTop, Stuck
  <2>1. Inner \in Loaders /\ Inner \in Frames /\ Inner # Outer
    BY InferenceAssumption DEF Loaders, Frames
  <2>2. pc[Inner] \notin LockedSteps
    BY <2>1 DEF FramesInv, ServerInv, LockHeld
  <2> QED BY <2>1, <2>2 DEF FramesInv, FramesReload, LockedSteps
<1> QED BY <1>1, FramesInvariant, PTL

(* Whoever holds it gives it back, or comes nearer to that with each step  *)
(* of its own, and no step of another loader, a scorer, a signal or a new  *)
(* file throws it back: at most five steps lie between a lock that is      *)
(* taken and one that is free (server.py:319-334, 342-356, 372-376).       *)
StepsLeft == [step \in LockedSteps |->
                CASE step = "load"  -> 5
                  [] step = "swap"  -> 4
                  [] step = "reset" -> 3
                  [] step = "info"  -> 2
                  [] OTHER          -> 1]

HolderAdvances ==
  [][lock # None => \/ lock' = None
                    \/ /\ lock' = lock
                       /\ \/ pc'[lock] = pc[lock]
                          \/ StepsLeft[pc'[lock]] < StepsLeft[pc[lock]]]_vars

THEOREM HeldForFiveSteps == Spec => HolderAdvances
<1> DEFINE Advances == lock # None => \/ lock' = None
                                      \/ /\ lock' = lock
                                         /\ \/ pc'[lock] = pc[lock]
                                            \/ StepsLeft[pc'[lock]] < StepsLeft[pc[lock]]
<1>1. ServerInv /\ [Next]_vars => Advances
  <2> SUFFICES ASSUME ServerInv, [Next]_vars, lock # None PROVE Advances
    OBVIOUS
  <2>1. ServerInv'
    BY NextServerInv
  <2>2. TypeOK /\ LockHeld /\ LockHeld'
    BY <2>1 DEF ServerInv
  <2>3. lock \in Loaders /\ pc[lock] \in LockedSteps
    BY <2>2 DEF TypeOK, LockHeld
  <2>4. ASSUME pc'[lock] = pc[lock] PROVE Advances
    <3>1. lock' = lock
      BY <2>2, <2>3, <2>4 DEF LockHeld
    <3> QED BY <2>4, <3>1
  <2>5. ASSUME NEW r \in Scorers, Snapshot(r) \/ Scoring(r) PROVE Advances
    BY <2>2, <2>3, <2>4, <2>5, ScorerLeavesLoaders
  <2>6. ASSUME NEW t \in Loaders, Loading(t) PROVE Advances
    <3>1. CASE t # lock
      <4>1. pc'[lock] = pc[lock]
        BY <2>2, <2>3, <2>6, <3>1, LoaderLeavesScorers
      <4> QED BY <2>4, <4>1
    <3>2. CASE t = lock
      <4>1. /\ ~Acquire(t) /\ ~ClearInfo(t) /\ ~LabelInfo(t)
        BY <2>3, <3>2 DEF Acquire, ClearInfo, LabelInfo, LockedSteps
      <4>2. CASE Load(t)
        <5>1. CASE disk[op[t]] = Broken
          BY <4>2, <5>1 DEF Load
        <5>2. CASE disk[op[t]] # Broken
          <6>1. lock' = lock /\ pc[t] = "load" /\ pc'[t] \in {"attach", "swap"}
            BY <2>2, <4>2, <5>2 DEF Load, Goto, TypeOK, Threads
          <6> QED BY <3>2, <6>1 DEF StepsLeft, LockedSteps
        <5> QED BY <5>1, <5>2
      <4>3. CASE SwapState(t)
        <5>1. lock' = lock /\ pc[t] = "swap" /\ pc'[t] = "reset"
          BY <2>2, <4>3 DEF SwapState, Goto, TypeOK, Threads
        <5> QED BY <3>2, <5>1 DEF StepsLeft, LockedSteps
      <4>4. CASE ResetDrift(t)
        <5>1. lock' = lock /\ pc[t] = "reset" /\ pc'[t] = "info"
          BY <2>2, <4>4 DEF ResetDrift, Goto, TypeOK, Threads
        <5> QED BY <3>2, <5>1 DEF StepsLeft, LockedSteps
      <4>5. CASE SwapInfo(t)
        <5>1. lock' = lock /\ pc[t] = "info" /\ pc'[t] = "evidence"
          BY <2>2, <4>5 DEF SwapInfo, Goto, TypeOK, Threads
        <5> QED BY <3>2, <5>1 DEF StepsLeft, LockedSteps
      <4>6. CASE SwapShadow(t) \/ Attach(t) \/ Detach(t)
        BY <4>6 DEF SwapShadow, Attach, Detach
      <4> QED BY <2>6, <4>1, <4>2, <4>3, <4>4, <4>5, <4>6 DEF Loading
    <3> QED BY <3>1, <3>2
  <2>7. ASSUME NEW t \in Loaders, Arrives(t) PROVE Advances
    <3>1. pc'[lock] = pc[lock]
      BY <2>2, <2>3, <2>7 DEF Arrives, Goto, TypeOK, Threads, LockedSteps
    <3> QED BY <2>4, <3>1
  <2>8. ASSUME NEW a \in Admins, NEW what \in Sources \union {"unload"}, Request(a, what)
        PROVE  Advances
    BY <2>2, <2>7, <2>8, RequestArrives DEF Loaders
  <2>9. ASSUME NEW frame \in Frames, Signal(frame) PROVE Advances
    BY <2>2, <2>7, <2>9, RequestArrives DEF Loaders
  <2>10. ASSUME NEW src \in Sources, Publish(src) \/ Break(src) PROVE Advances
    BY <2>4, <2>10 DEF Publish, Break
  <2>11. CASE UNCHANGED vars
    BY <2>4, <2>11 DEF vars
  <2> QED BY <2>5, <2>6, <2>8, <2>9, <2>10, <2>11 DEF Next
<1> QED BY <1>1, ServerInvariant, PTL DEF Spec, HolderAdvances

(* And nothing ever ends it: the lock is not given back, and the main      *)
(* thread not released, whatever happens next.                             *)
THEOREM StuckForGood == Spec => [][Stuck => Stuck']_vars
<1>1. FramesInv /\ [Next]_vars => [Stuck => Stuck']_vars
  <2> SUFFICES ASSUME FramesInv, [Next]_vars, Stuck PROVE Stuck'
    OBVIOUS
  <2>1. /\ Outer \in Frames /\ Inner \in Frames /\ Frames \subseteq Loaders /\ Inner # Outer
        /\ lock = Outer /\ pc[Inner] = "lock" /\ lock # None
        /\ Outer \notin Scorers /\ Inner \notin Scorers \union Admins
    BY InferenceAssumption DEF Loaders, Frames, Stuck, Threads
  <2>2. TypeOK /\ LockHeld /\ FramesReload
    BY DEF FramesInv, ServerInv
  <2>3. ASSUME NEW r \in Scorers, Snapshot(r) \/ Scoring(r) PROVE Stuck'
    BY <2>1, <2>2, <2>3, ScorerLeavesLoaders DEF Stuck
  <2>4. ASSUME NEW t \in Loaders, Loading(t) PROVE Stuck'
    <3>1. CASE Acquire(t)
      BY <2>1, <3>1 DEF Acquire
    <3>2. CASE ClearInfo(t) \/ LabelInfo(t)
      <4>1. t # Inner /\ lock' = lock
        BY <2>1, <3>2 DEF ClearInfo, LabelInfo
      <4> QED BY <2>1, <2>2, <2>4, <4>1, LoaderLeavesScorers DEF Stuck
    <3>3. CASE ~(Acquire(t) \/ ClearInfo(t) \/ LabelInfo(t))
      <4>1. pc[t] \in LockedSteps
        BY <2>4, <3>3 DEF Loading, Load, SwapState, ResetDrift, SwapInfo, SwapShadow, Attach, Detach,
                          LockedSteps
      <4>2. t = Outer
        BY <2>1, <2>2, <4>1 DEF LockHeld
      <4>3. ~OnTop(t) /\ pc[t] \notin {"attach", "detach"}
        BY <2>1, <2>2, <4>2 DEF OnTop, FramesReload
      <4> QED
        BY <2>4, <3>3, <4>3
        DEF Loading, Load, SwapState, ResetDrift, SwapInfo, SwapShadow, Attach, Detach
    <3> QED BY <3>1, <3>2, <3>3
  <2>5. ASSUME NEW t \in Loaders, Arrives(t), lock' = lock PROVE Stuck'
    BY <2>1, <2>2, <2>5 DEF Arrives, Goto, TypeOK, Threads, Stuck
  <2>6. ASSUME NEW a \in Admins, NEW what \in Sources \union {"unload"}, Request(a, what)
        PROVE  Stuck'
    BY <2>2, <2>5, <2>6, RequestArrives DEF Request, Loaders
  <2>7. ASSUME NEW frame \in Frames, Signal(frame) PROVE Stuck'
    BY <2>1, <2>2, <2>5, <2>7, RequestArrives DEF Signal
  <2>8. ASSUME NEW src \in Sources, Publish(src) \/ Break(src) PROVE Stuck'
    BY <2>1, <2>8 DEF Publish, Break, Stuck
  <2>9. CASE UNCHANGED vars
    BY <2>1, <2>9 DEF vars, Stuck
  <2> QED BY <2>3, <2>4, <2>6, <2>7, <2>8, <2>9 DEF Next
<1> QED BY <1>1, FramesInvariant, PTL DEF Spec

(* It takes a second signal: with one at most, no holder ever waits, and   *)
(* the lock is given back as the threads run.                              *)
THEOREM OneSignalNeverStuck ==
  ASSUME MaxSignals <= 1
  PROVE  Spec => [](lock # None => OnTop(lock))
<1> DEFINE OneFrame == pc[Inner] = "idle" /\ (pc[Outer] # "idle" => 1 <= signals)
<1>1. Init => OneFrame
  BY DEF Init, Threads, Loaders, Frames
<1>2. FramesInv /\ OneFrame /\ [Next]_vars => OneFrame'
  <2> SUFFICES ASSUME FramesInv, OneFrame, [Next]_vars PROVE OneFrame'
    OBVIOUS
  <2>1. /\ Outer \in Frames /\ Inner \in Frames /\ Frames \subseteq Loaders /\ Inner # Outer
        /\ Inner \notin Scorers \union Admins /\ Outer \notin Scorers \union Admins
        /\ TypeOK /\ MaxSignals \in Nat /\ signals \in Nat
    BY InferenceAssumption DEF Loaders, Frames, FramesInv, ServerInv, TypeOK
  <2>2. ASSUME NEW r \in Scorers, Snapshot(r) \/ Scoring(r) PROVE OneFrame'
    BY <2>1, <2>2, ScorerLeavesLoaders DEF bounds
  <2>3. ASSUME NEW t \in Loaders, Loading(t) PROVE OneFrame'
    <3>1. pc[t] # "idle"
      BY <2>3 DEF Loading, Acquire, Load, SwapState, ResetDrift, SwapInfo, SwapShadow, Attach, Detach,
                  ClearInfo, LabelInfo
    <3>2. signals' = signals /\ pc'[Inner] = pc[Inner] /\ (t # Outer => pc'[Outer] = pc[Outer])
      BY <2>1, <2>3, <3>1, LoaderLeavesScorers DEF bounds
    <3> QED BY <3>1, <3>2
  <2>4. ASSUME NEW a \in Admins, NEW what \in Sources \union {"unload"}, Request(a, what)
        PROVE  OneFrame'
    BY <2>1, <2>4 DEF Request, Goto, TypeOK, Threads
  <2>5. ASSUME NEW frame \in Frames, Signal(frame) PROVE OneFrame'
    BY <2>1, <2>5 DEF Signal, Goto, TypeOK, Threads, Frames
  <2>6. ASSUME NEW src \in Sources, Publish(src) \/ Break(src) PROVE OneFrame'
    BY <2>6 DEF Publish, Break, bounds
  <2>7. CASE UNCHANGED vars
    BY <2>7 DEF vars, bounds
  <2> QED BY <2>2, <2>3, <2>4, <2>5, <2>6, <2>7 DEF Next
<1>3. OneFrame => (lock # None => OnTop(lock))
  BY DEF OnTop
<1> QED BY <1>1, <1>2, <1>3, FramesInvariant, PTL DEF Spec
=============================================================================
