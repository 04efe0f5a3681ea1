---------------------------- MODULE InferenceServer ----------------------------
(***************************************************************************)
(* The inference sidecar (inference/server.py) with its shadow tracker     *)
(* (inference/shadow.py) and drift tracker (inference/drift.py).           *)
(*                                                                         *)
(* FastAPI runs every endpoint here on a thread of a pool, so /score,      *)
(* /reload, /shadow/load and /shadow/unload interleave wherever they are   *)
(* not under _state_lock.  The main thread runs the event loop, without    *)
(* which no request is dispatched and no response leaves, and the SIGHUP   *)
(* handler: Outer is its frame, and Inner the frame of a handler that a    *)
(* second signal starts on top of the first.                               *)
(*                                                                         *)
(* A bundle is a number, larger for one written later; what a file holds   *)
(* is a bundle or Broken (missing, corrupt, refused by _validate_bundle or *)
(* by the signature check).  Foreign bundles pass validation but name      *)
(* features the Reading does not have.  A reading's value plays no part.   *)
(***************************************************************************)
EXTENDS Integers, FiniteSets

CONSTANTS
  Scorers,      (* concurrent /score requests                               *)
  Admins,       (* concurrent /reload and /shadow/* requests                *)
  Outer, Inner, (* the SIGHUP handler, and one that interrupts it           *)
  None,         (* no holder, no shadow, no value                           *)
  Broken,       (* what _load_state refuses                                 *)
  MaxBundles,   (* how often a source ever changes                          *)
  MaxRequests,  (* how many admin requests are ever made                    *)
  MaxSignals,   (* how many SIGHUPs ever arrive                             *)
  MinSamples,   (* readings before the drift signals are published          *)
  Foreign       (* bundles with other features                              *)

Bundles == 0..MaxBundles
Sources == {"file", "registry", "candidate"}
Frames  == {Outer, Inner}
Loaders == Admins \union Frames
Threads == Scorers \union Loaders
Trackers == 0..(MaxRequests + MaxSignals)
Shadows == [model : Bundles, champion : Bundles, tracker : Trackers]

ASSUME InferenceAssumption ==
  /\ MaxBundles \in Nat /\ MaxRequests \in Nat /\ MaxSignals \in Nat
  /\ MinSamples \in Nat \ {0}
  /\ Foreign \subseteq 1..MaxBundles
  /\ None \notin Threads \union Int \union Shadows /\ Broken \notin Int
  /\ Scorers \cap Loaders = {} /\ Admins \cap Frames = {} /\ Outer # Inner
  /\ IsFiniteSet(Admins)

VARIABLES
  disk,        (* what each source holds                                   *)
  written,     (* changes of the sources so far                            *)
  champion,    (* _state: the bundle that serves                           *)
  shadow,      (* _shadow: None, or a bundle and its tracker               *)
  seen,        (* per tracker, the champion and shadow pairs it counted    *)
  modelInfo,   (* gauge edgesense_model_info                               *)
  shadowInfo,  (* gauge edgesense_model_shadow_info: the labels set to 1   *)
  drift,       (* _drift: whose scaler it uses, and the readings it holds  *)
  driftGauge,  (* the drift gauges: whose window and scaler they come from *)
  lock,        (* the holder of _state_lock                                *)
  pc,          (* where each thread is                                     *)
  op,          (* what a loader was asked to do and has not done           *)
  own,         (* the bundle a thread read from _state, or loaded          *)
  ref,         (* what else a scorer holds: drift data, then the shadow    *)
  trackers,    (* trackers made so far                                     *)
  requests,    (* admin requests made so far                               *)
  signals,     (* SIGHUPs delivered so far                                 *)
  lastLoaded   (* history: what the last successful reload read            *)

store    == <<disk, written>>
serving  == <<champion, shadow, seen, trackers>>
gauges   == <<modelInfo, shadowInfo, driftGauge>>
locals   == <<own, ref, op>>
bounds   == <<requests, signals>>
vars     == <<store, serving, gauges, drift, lock, pc, locals, bounds, lastLoaded>>

Steps == {"idle",
          "score", "signals", "compute", "publish", "shadow", "compare", "respond",
          "lock", "load", "swap", "reset", "info", "evidence",
          "attach", "detach", "clear", "label"}

Frame   == [data : Bundles, scaler : Bundles]

TypeOK ==
  /\ disk \in [Sources -> Bundles \union {Broken}] /\ written \in Bundles
  /\ champion \in Bundles /\ shadow \in Shadows \union {None}
  /\ seen \in [Trackers -> SUBSET (Bundles \X Bundles)] /\ trackers \in Trackers
  /\ modelInfo \in Bundles /\ shadowInfo \subseteq Bundles
  /\ drift \in [scaler : Bundles, n : 0..MinSamples]
  /\ driftGauge \in Frame \union {None}
  /\ lock \in Loaders \union {None}
  /\ pc \in [Threads -> Steps]
  /\ own \in [Threads -> Bundles \union {None}]
  /\ ref \in [Scorers -> Shadows \union Frame \union {None}]
  /\ op \in [Loaders -> Sources \union {"unload", None}]
  /\ requests \in 0..MaxRequests /\ signals \in 0..MaxSignals
  /\ lastLoaded \in Bundles

(* Booted from the file, which also is what the registry tags.             *)
Init ==
  /\ disk = [s \in Sources |-> 0] /\ written = 0
  /\ champion = 0 /\ shadow = None
  /\ seen = [k \in Trackers |-> {}] /\ trackers = 0
  /\ modelInfo = 0 /\ shadowInfo = {}
  /\ drift = [scaler |-> 0, n |-> 0] /\ driftGauge = None
  /\ lock = None
  /\ pc = [t \in Threads |-> "idle"]
  /\ own = [t \in Threads |-> None]
  /\ ref = [r \in Scorers |-> None]
  /\ op = [t \in Loaders |-> None]
  /\ requests = 0 /\ signals = 0
  /\ lastLoaded = 0

Goto(t, step) == pc' = [pc EXCEPT ![t] = step]

(* The event loop runs while no signal handler does.                       *)
LoopRuns == pc[Outer] = "idle"

(* A frame below another one does not move.                                *)
OnTop(t) == t = Outer => pc[Inner] = "idle"

-----------------------------------------------------------------------------
(* POST /score *)

(* state = _state, and the reading in the order of state.features.         *)
Snapshot(r) ==
  /\ pc[r] = "idle" /\ LoopRuns
  /\ own' = [own EXCEPT ![r] = champion]
  /\ Goto(r, "score")
  /\ UNCHANGED <<store, serving, gauges, drift, lock, ref, op, bounds, lastLoaded>>

Observed == [drift EXCEPT !.n = IF @ < MinSamples THEN @ + 1 ELSE @]

(* score_sample(state.bundle, x), then _drift.observe(x).                  *)
Score(r) ==
  /\ pc[r] = "score" /\ own[r] \notin Foreign
  /\ drift' = Observed
  /\ Goto(r, "signals")
  /\ UNCHANGED <<store, serving, gauges, lock, locals, bounds, lastLoaded>>

(* The reading lacks a feature: a 500.                                     *)
ScoreRaises(r) ==
  /\ pc[r] = "score" /\ own[r] \in Foreign
  /\ Goto(r, "respond")
  /\ UNCHANGED <<store, serving, gauges, drift, lock, locals, bounds, lastLoaded>>

(* _drift.signals(): the window is copied under the tracker's lock, ...    *)
CopyWindow(r) ==
  /\ pc[r] = "signals"
  /\ IF drift.n < MinSamples
       THEN Goto(r, "shadow") /\ UNCHANGED ref
       ELSE /\ ref' = [ref EXCEPT ![r] = [data |-> drift.scaler, scaler |-> drift.scaler]]
            /\ Goto(r, "compute")
  /\ UNCHANGED <<store, serving, gauges, drift, lock, own, op, bounds, lastLoaded>>

(* ... and the scaler is read after it was released.                       *)
Compute(r) ==
  /\ pc[r] = "compute"
  /\ ref' = [ref EXCEPT ![r].scaler = drift.scaler]
  /\ Goto(r, "publish")
  /\ UNCHANGED <<store, serving, gauges, drift, lock, own, op, bounds, lastLoaded>>

(* The signals are written into the gauges.                                *)
PublishDrift(r) ==
  /\ pc[r] = "publish"
  /\ driftGauge' = ref[r]
  /\ ref' = [ref EXCEPT ![r] = None]
  /\ Goto(r, "shadow")
  /\ UNCHANGED <<store, serving, modelInfo, shadowInfo, drift, lock, own, op, bounds, lastLoaded>>

(* shadow = _shadow, one reference to the bundle and its tracker.          *)
ReadShadow(r) ==
  /\ pc[r] = "shadow"
  /\ ref' = [ref EXCEPT ![r] = shadow]
  /\ Goto(r, IF shadow = None THEN "respond" ELSE "compare")
  /\ UNCHANGED <<store, serving, gauges, drift, lock, own, op, bounds, lastLoaded>>

(* Mutated form: the tracker is looked up in _shadow again.                *)
Compare_Rereads(r) ==
  /\ pc[r] = "compare"
  /\ seen' = IF shadow = None \/ ref[r].model \in Foreign THEN seen
             ELSE [seen EXCEPT ![shadow.tracker] = @ \union {<<own[r], ref[r].model>>}]
  /\ ref' = [ref EXCEPT ![r] = None]
  /\ Goto(r, "respond")
  /\ UNCHANGED <<store, champion, shadow, trackers, gauges, drift, lock, own, op, bounds, lastLoaded>>

(* tracker.observe with both verdicts; a shadow that cannot score counts   *)
(* as an error, which is no evidence.                                      *)
Compare(r) ==
  /\ pc[r] = "compare"
  /\ seen' = IF ref[r].model \in Foreign THEN seen
             ELSE [seen EXCEPT ![ref[r].tracker] = @ \union {<<own[r], ref[r].model>>}]
  /\ ref' = [ref EXCEPT ![r] = None]
  /\ Goto(r, "respond")
  /\ UNCHANGED <<store, champion, shadow, trackers, gauges, drift, lock, own, op, bounds, lastLoaded>>

Respond(r) ==
  /\ pc[r] = "respond" /\ LoopRuns
  /\ own' = [own EXCEPT ![r] = None]
  /\ Goto(r, "idle")
  /\ UNCHANGED <<store, serving, gauges, drift, lock, ref, op, bounds, lastLoaded>>

-----------------------------------------------------------------------------
(* POST /reload, POST /shadow/load, POST /shadow/unload, and SIGHUP        *)

(* The event loop hands an admin request to the pool. *)
Request(a, what) ==
  /\ pc[a] = "idle" /\ LoopRuns
  /\ requests < MaxRequests /\ requests' = requests + 1
  /\ op' = [op EXCEPT ![a] = what]
  /\ Goto(a, "lock")
  /\ UNCHANGED <<store, serving, gauges, drift, lock, own, ref, signals, lastLoaded>>

(* _on_sighup calls reload_model() on the main thread, between two         *)
(* instructions of whatever runs there, an earlier _on_sighup included.    *)
Signal(frame) ==
  /\ pc[frame] = "idle"
  /\ frame = Inner => pc[Outer] # "idle"
  /\ signals < MaxSignals /\ signals' = signals + 1
  /\ op' = [op EXCEPT ![frame] = "file"]
  /\ Goto(frame, "lock")
  /\ UNCHANGED <<store, serving, gauges, drift, lock, own, ref, requests, lastLoaded>>

(* Mutated form: the reload does not wait for the lock. *)
Acquire_Unlocked(t) ==
  /\ pc[t] = "lock" /\ OnTop(t)
  /\ Goto(t, IF op[t] = "unload" THEN "detach" ELSE "load")
  /\ UNCHANGED <<store, serving, gauges, drift, lock, locals, bounds, lastLoaded>>

Acquire(t) ==
  /\ pc[t] = "lock" /\ OnTop(t) /\ lock = None
  /\ lock' = t
  /\ Goto(t, IF op[t] = "unload" THEN "detach" ELSE "load")
  /\ UNCHANGED <<store, serving, gauges, drift, locals, bounds, lastLoaded>>

(* Mutated form: a rejected load returns without releasing the lock. *)
Load_KeepsLock(t) ==
  /\ pc[t] = "load" /\ OnTop(t)
  /\ IF disk[op[t]] = Broken
       THEN /\ Goto(t, "idle")
            /\ UNCHANGED <<lock, own, lastLoaded>>
       ELSE /\ own' = [own EXCEPT ![t] = disk[op[t]]]
            /\ lastLoaded' = IF op[t] = "candidate" THEN lastLoaded ELSE disk[op[t]]
            /\ Goto(t, IF op[t] = "candidate" THEN "attach" ELSE "swap")
            /\ UNCHANGED lock
  /\ op' = [op EXCEPT ![t] = None]
  /\ UNCHANGED <<store, serving, gauges, drift, ref, bounds>>

(* Verify, load and validate; an exception is a 400 and changes nothing.   *)
Load(t) ==
  /\ pc[t] = "load" /\ OnTop(t)
  /\ IF disk[op[t]] = Broken
       THEN /\ lock' = None
            /\ Goto(t, "idle")
            /\ UNCHANGED <<own, lastLoaded>>
       ELSE /\ own' = [own EXCEPT ![t] = disk[op[t]]]
            /\ lastLoaded' = IF op[t] = "candidate" THEN lastLoaded ELSE disk[op[t]]
            /\ Goto(t, IF op[t] = "candidate" THEN "attach" ELSE "swap")
            /\ UNCHANGED lock
  /\ op' = [op EXCEPT ![t] = None]
  /\ UNCHANGED <<store, serving, gauges, drift, ref, bounds>>

(* _swap_state, which scorers do not wait for: _state first, ...           *)
SwapState(t) ==
  /\ pc[t] = "swap" /\ OnTop(t)
  /\ champion' = own[t]
  /\ Goto(t, "reset")
  /\ UNCHANGED <<store, shadow, seen, trackers, gauges, drift, lock, locals, bounds, lastLoaded>>

(* ... _drift.reset, ...                                                   *)
ResetDrift(t) ==
  /\ pc[t] = "reset" /\ OnTop(t)
  /\ drift' = [scaler |-> own[t], n |-> 0]
  /\ Goto(t, "info")
  /\ UNCHANGED <<store, serving, gauges, lock, locals, bounds, lastLoaded>>

(* ... the gauges, ...                                                     *)
SwapInfo(t) ==
  /\ pc[t] = "info" /\ OnTop(t)
  /\ driftGauge' = None
  /\ modelInfo' = own[t]
  /\ Goto(t, "evidence")
  /\ UNCHANGED <<store, serving, shadowInfo, drift, lock, locals, bounds, lastLoaded>>

(* A ShadowTracker nobody has used. *)
FreshTracker(model, of) ==
  /\ shadow' = [model |-> model, champion |-> of, tracker |-> trackers + 1]
  /\ trackers' = trackers + 1

(* Mutated form: the tracker survives the swap. *)
SwapShadow_KeepsTracker(t) ==
  /\ pc[t] = "evidence" /\ OnTop(t)
  /\ lock' = None
  /\ own' = [own EXCEPT ![t] = None]
  /\ Goto(t, "idle")
  /\ UNCHANGED <<store, serving, gauges, drift, ref, op, bounds, lastLoaded>>

(* ... and a fresh tracker for the shadow; then the lock is released.      *)
SwapShadow(t) ==
  /\ pc[t] = "evidence" /\ OnTop(t)
  /\ IF shadow = None THEN UNCHANGED <<shadow, trackers>>
                      ELSE FreshTracker(shadow.model, own[t])
  /\ lock' = None
  /\ own' = [own EXCEPT ![t] = None]
  /\ Goto(t, "idle")
  /\ UNCHANGED <<store, champion, seen, gauges, drift, ref, op, bounds, lastLoaded>>

(* The candidate shadows the champion of this moment; the lock is released *)
(* before the info gauge is set.                                           *)
Attach(t) ==
  /\ pc[t] = "attach"
  /\ FreshTracker(own[t], champion)
  /\ lock' = None
  /\ Goto(t, "clear")
  /\ UNCHANGED <<store, champion, seen, gauges, drift, locals, bounds, lastLoaded>>

(* Without a shadow, 404. *)
Detach(t) ==
  /\ pc[t] = "detach"
  /\ shadow' = None
  /\ lock' = None
  /\ op' = [op EXCEPT ![t] = None]
  /\ Goto(t, IF shadow = None THEN "idle" ELSE "clear")
  /\ UNCHANGED <<store, champion, seen, trackers, gauges, drift, own, ref, bounds, lastLoaded>>

(* metrics.set_shadow_info: SHADOW_INFO.clear(), ...                       *)
ClearInfo(t) ==
  /\ pc[t] = "clear"
  /\ shadowInfo' = {}
  /\ Goto(t, IF own[t] = None THEN "idle" ELSE "label")
  /\ UNCHANGED <<store, serving, modelInfo, driftGauge, drift, lock, locals, bounds, lastLoaded>>

(* ... then the label of the shadow this request loaded.                   *)
LabelInfo(t) ==
  /\ pc[t] = "label"
  /\ shadowInfo' = shadowInfo \union {own[t]}
  /\ own' = [own EXCEPT ![t] = None]
  /\ Goto(t, "idle")
  /\ UNCHANGED <<store, serving, modelInfo, driftGauge, drift, lock, ref, op, bounds, lastLoaded>>

-----------------------------------------------------------------------------
(* Training, promotion and shadow staging write a new bundle (external);   *)
(* os.replace makes that one step.                                         *)
Publish(src) ==
  /\ written < MaxBundles
  /\ written' = written + 1
  /\ disk' = [disk EXCEPT ![src] = written + 1]
  /\ UNCHANGED <<serving, gauges, drift, lock, pc, locals, bounds, lastLoaded>>

(* A file goes missing or bad, or the registry out of reach. *)
Break(src) ==
  /\ written < MaxBundles
  /\ written' = written + 1
  /\ disk' = [disk EXCEPT ![src] = Broken]
  /\ UNCHANGED <<serving, gauges, drift, lock, pc, locals, bounds, lastLoaded>>

-----------------------------------------------------------------------------
Scoring(r) ==
  \/ Score(r) \/ ScoreRaises(r)
  \/ CopyWindow(r) \/ Compute(r) \/ PublishDrift(r)
  \/ ReadShadow(r) \/ Compare(r)
  \/ Respond(r)

Loading(t) ==
  \/ Acquire(t) \/ Load(t)
  \/ SwapState(t) \/ ResetDrift(t) \/ SwapInfo(t) \/ SwapShadow(t)
  \/ Attach(t) \/ Detach(t) \/ ClearInfo(t) \/ LabelInfo(t)

Next ==
  \/ \E r \in Scorers : Snapshot(r) \/ Scoring(r)
  \/ \E t \in Loaders : Loading(t)
  \/ \E a \in Admins, what \in Sources \union {"unload"} : Request(a, what)
  \/ \E frame \in Frames : Signal(frame)
  \/ \E src \in Sources : Publish(src) \/ Break(src)

Spec == Init /\ [][Next]_vars

(* Threads run; nobody has to send a request, a signal or a bundle.        *)
Fairness ==
  /\ \A r \in Scorers : WF_vars(Scoring(r))
  /\ \A t \in Loaders : WF_vars(Loading(t))

FairSpec == Spec /\ Fairness

-----------------------------------------------------------------------------
(* Properties *)

(* No loader is between its load and the last of what follows from it.     *)
NoSwapUnderWay ==
  \A t \in Loaders : pc[t] \notin {"swap", "reset", "info", "evidence", "attach"}

(* Whatever reloads, shadow loads and signals ran into each other: when    *)
(* none is under way, _state, the drift reference, the info gauge and the  *)
(* champion the shadow is compared with all name one bundle.               *)
SwapConsistent ==
  NoSwapUnderWay =>
    /\ modelInfo = champion
    /\ drift.scaler = champion
    /\ shadow # None => shadow.champion = champion

(* The promise of ModelServing.  A load takes effect when it reads its     *)
(* source, under _state_lock: from then on to its last step the champion,  *)
(* or the shadow, is what it read, and the report is empty.                *)
At(steps)  == {t \in Loaders : pc[t] \in steps}
Loaded(t0) == own[CHOOSE t \in Loaders : pc[t] = t0]

Serving   == IF At({"swap"}) # {} THEN Loaded("swap") ELSE champion
Shadowing == IF At({"attach"}) # {} THEN Loaded("attach")
             ELSE IF shadow = None THEN None ELSE shadow.model
Evidence  == IF NoSwapUnderWay /\ shadow # None THEN seen[shadow.tracker] ELSE {}

Promise == INSTANCE ModelServing WITH
  Models <- Bundles, First <- 0, Champions <- {"file", "registry"}, Candidate <- "candidate",
  available <- disk, serving <- Serving, shadow <- Shadowing, evidence <- Evidence

(* However reloads, shadow loads and signals overlap, each takes effect at *)
(* once and as a whole, in the order in which they read their sources: a   *)
(* slower reload never puts an older bundle over a newer one, and no       *)
(* report is carried over to another champion or shadow (server.py:224,    *)
(* 226, 245).                                                              *)
ServesAsPromised == Promise!Spec

(* The report of the live shadow counts verdicts of that shadow only: an   *)
(* in-flight request that saw the previous one reports to the previous     *)
(* one's tracker ("swapped as one reference", server.py:226).              *)
EvidenceOwnShadow ==
  shadow # None => \A p \in seen[shadow.tracker] : p[2] = shadow.model

(* A request to score is answered, whatever is loaded and rejected         *)
(* meanwhile: with one SIGHUP at a time.                                   *)
ScoreAnswered == \A r \in Scorers : pc[r] # "idle" ~> pc[r] = "idle"

(* _state_lock is given back, whatever went wrong under it, so that no     *)
(* reload, shadow load or SIGHUP waits for ever.                           *)
LockReleased == lock # None ~> lock = None

(* docs/MLOPS.md:125: "a SIGHUP triggers the same reload".                 *)
SighupReturns == pc[Outer] # "idle" ~> pc[Outer] = "idle"
=============================================================================
