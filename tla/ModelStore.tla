------------------------------ MODULE ModelStore ------------------------------
(***************************************************************************)
(* The four files of a bundle path (ml/manifest.py): the artifact, its     *)
(* signature, the manifest copy and the model card.  Writers are training  *)
(* and promotion runs, separate processes without a common lock; a reader  *)
(* is the sidecar, which verifies the artifact and then opens it again to  *)
(* load it (inference/server.py _load_state), at boot or for a reload.     *)
(* Any process may die, or any of its writes fail, between two steps.      *)
(*                                                                         *)
(* A bundle is a number, larger for one whose save began later; bundle 0   *)
(* came with the image.  All bundles pass _validate_bundle here; the ones  *)
(* that do not are InferenceServer's Broken.                               *)
(***************************************************************************)
EXTENDS Integers, Signing

CONSTANTS
  Writers,   (* processes that call save_bundle on this path *)
  Keys,      (* signing keys                                 *)
  MaxSaves   (* saves ever begun                             *)

Bundles == 0..MaxSaves

ASSUME SavesAssumption == MaxSaves \in Nat
ASSUME NoneAssumption ==
  None # "refused" /\ None \notin Keys \union Int \union [digest : Int, key : Keys]

VARIABLES
  artifact, sig,    (* model.joblib and model.joblib.sig                     *)
  manifest, card,   (* model.manifest.json and MODEL_CARD.md                 *)
  step,             (* where each writer is in save_bundle                   *)
  saving,           (* the bundle each writer saves                          *)
  saves,            (* saves begun so far                                    *)
  keyOf,            (* per bundle, the key it is signed with, or None        *)
  carries,          (* bundles with a manifest (the legacy ones have none)   *)
  trusted, require, (* the sidecar's trust store and policy                  *)
  rd,               (* where the sidecar is in _load_state                   *)
  env,              (* the envelope it read                                  *)
  status,           (* what verify_artifact returned, or "refused"           *)
  serving,          (* the bundle that serves, with its status, or None      *)
  solo,             (* history: writers whose save overlapped no other       *)
  clean,            (* history: the last save begun ended, and was solo      *)
  quiet,            (* history: no save since before the sidecar's last load *)
  replaced          (* history: the artifact was, after it was verified      *)

files   == <<artifact, sig, manifest, card>>
writing == <<step, saving, saves, keyOf, carries, solo, clean>>
loading == <<rd, env, status, serving>>
config  == <<trusted, require>>
vars    == <<files, writing, loading, config, quiet, replaced>>

Statuses == {"verified", "unsigned", "unverifiable"}
WriterSteps == {"idle", "sign", "move", "unsign", "manifest", "card"}

StoreTypeOK ==
  /\ artifact \in Bundles /\ manifest \in Bundles /\ card \in Bundles
  /\ sig \in [digest : Bundles, key : Keys] \union {None}
  /\ step \in [Writers -> WriterSteps]
  /\ saving \in [Writers -> Bundles] /\ saves \in Bundles
  /\ keyOf \in [Bundles -> Keys \union {None}] /\ carries \subseteq Bundles
  /\ trusted \subseteq Keys /\ require \in BOOLEAN
  /\ rd \in {"idle", "exists", "read", "hash", "load"}
  /\ env \in [digest : Bundles, key : Keys] \union {None}
  /\ status \in Statuses \union {"refused", None}
  /\ serving \in [bundle : Bundles, status : Statuses, replaced : BOOLEAN] \union {None}
  /\ solo \subseteq Writers /\ clean \in BOOLEAN
  /\ quiet \in BOOLEAN /\ replaced \in BOOLEAN

(* An image with an unsigned bundle, its manifest and its card; the        *)
(* sidecar not booted yet.                                                 *)
Init ==
  /\ artifact = 0 /\ sig = None /\ manifest = 0 /\ card = 0
  /\ step = [w \in Writers |-> "idle"] /\ saving = [w \in Writers |-> 0]
  /\ saves = 0
  /\ keyOf = [b \in Bundles |-> None] /\ carries = {0}
  /\ trusted \in SUBSET Keys /\ require \in BOOLEAN
  /\ rd = "idle" /\ env = None /\ status = None /\ serving = None
  /\ solo = {} /\ clean = TRUE /\ quiet = FALSE /\ replaced = FALSE

-----------------------------------------------------------------------------
(* save_bundle *)

Go(w, to) == step' = [step EXCEPT ![w] = to]

(* Mutated form: the signing hook is not passed on. *)
Begin_NoHook(w, key, withManifest) ==
  /\ step[w] = "idle" /\ saves < MaxSaves
  /\ saves' = saves + 1
  /\ saving' = [saving EXCEPT ![w] = saves + 1]
  /\ keyOf' = [keyOf EXCEPT ![saves + 1] = key]
  /\ carries' = IF withManifest THEN carries \union {saves + 1} ELSE carries
  /\ Go(w, "move")
  /\ solo' = IF \A o \in Writers : step[o] = "idle" THEN {w} ELSE {}
  /\ clean' = FALSE /\ quiet' = FALSE
  /\ UNCHANGED <<files, loading, config, replaced>>

(* The writer's key is what EDGESENSE_SIGNING_KEY holds, or None.          *)
Begin(w, key, withManifest) ==
  /\ step[w] = "idle" /\ saves < MaxSaves
  /\ saves' = saves + 1
  /\ saving' = [saving EXCEPT ![w] = saves + 1]
  /\ keyOf' = [keyOf EXCEPT ![saves + 1] = key]
  /\ carries' = IF withManifest THEN carries \union {saves + 1} ELSE carries
  /\ Go(w, IF key = None THEN "move" ELSE "sign")
  /\ solo' = IF \A o \in Writers : step[o] = "idle" THEN {w} ELSE {}
  /\ clean' = FALSE /\ quiet' = FALSE
  /\ UNCHANGED <<files, loading, config, replaced>>

(* Where a save goes on after the artifact and the signature are settled.  *)
(* Without a manifest in the bundle it is over, and the files of the       *)
(* previous bundle stay.                                                   *)
Settled(w) ==
  IF saving[w] \in carries
    THEN Go(w, "manifest") /\ UNCHANGED clean
    ELSE Go(w, "idle") /\ clean' = (w \in solo)

(* The hook of _atomic_dump_joblib: the signature of the temp file is      *)
(* published before the file takes the artifact's place.                   *)
Sign(w) ==
  /\ step[w] = "sign"
  /\ sig' = Envelope(saving[w], keyOf[saving[w]])
  /\ Go(w, "move")
  /\ UNCHANGED <<artifact, manifest, card, saving, saves, keyOf, carries, solo, clean,
                 loading, config, quiet, replaced>>

(* Mutated form: the signature of an earlier save stays. *)
Move_KeepsSig(w) ==
  /\ step[w] = "move"
  /\ artifact' = saving[w]
  /\ replaced' = (replaced \/ rd = "load")
  /\ Settled(w)
  /\ UNCHANGED <<sig, manifest, card, saving, saves, keyOf, carries, solo, loading, config, quiet>>

(* os.replace of the artifact. *)
Move(w) ==
  /\ step[w] = "move"
  /\ artifact' = saving[w]
  /\ replaced' = (replaced \/ rd = "load")
  /\ IF keyOf[saving[w]] = None THEN Go(w, "unsign") /\ UNCHANGED clean ELSE Settled(w)
  /\ UNCHANGED <<sig, manifest, card, saving, saves, keyOf, carries, solo, loading, config, quiet>>

(* A signature left by an earlier, signed save is removed. *)
Unsign(w) ==
  /\ step[w] = "unsign"
  /\ sig' = None
  /\ Settled(w)
  /\ UNCHANGED <<artifact, manifest, card, saving, saves, keyOf, carries, solo, loading,
                 config, quiet, replaced>>

WriteManifest(w) ==
  /\ step[w] = "manifest"
  /\ manifest' = saving[w]
  /\ Go(w, "card")
  /\ UNCHANGED <<artifact, sig, card, saving, saves, keyOf, carries, solo, clean, loading,
                 config, quiet, replaced>>

WriteCard(w) ==
  /\ step[w] = "card"
  /\ card' = saving[w]
  /\ Go(w, "idle") /\ clean' = (w \in solo)
  /\ UNCHANGED <<artifact, sig, manifest, saving, saves, keyOf, carries, solo, loading,
                 config, quiet, replaced>>

(* The process is killed, or a write raises and removes its temp file.     *)
Abort(w) ==
  /\ step[w] # "idle"
  /\ Go(w, "idle")
  /\ UNCHANGED <<files, saving, saves, keyOf, carries, solo, clean, loading, config, quiet, replaced>>

-----------------------------------------------------------------------------
(* _load_state: verify_artifact, then joblib.load *)

(* At boot, or for a reload under _state_lock: one at a time. *)
StartLoad ==
  /\ rd = "idle"
  /\ rd' = "exists"
  /\ env' = None /\ status' = None
  /\ quiet' = clean
  /\ UNCHANGED <<files, writing, serving, config, replaced>>

(* What verify_artifact returned decides whether the file is opened again. *)
Decide(result) ==
  /\ status' = result
  /\ rd' = IF result = "refused" THEN "idle" ELSE "load"
  /\ replaced' = FALSE

(* sig_file.exists() *)
FindSig ==
  /\ rd = "exists"
  /\ IF sig = None
       THEN Decide(Verify(None, artifact, trusted, require))
       ELSE rd' = "read" /\ UNCHANGED <<status, replaced>>
  /\ UNCHANGED <<files, writing, env, serving, config, quiet>>

(* sig_file.read_text(): the file may be gone again, which refuses. *)
ReadSig ==
  /\ rd = "read"
  /\ env' = sig
  /\ IF sig = None THEN Decide("refused")
                   ELSE rd' = "hash" /\ UNCHANGED <<status, replaced>>
  /\ UNCHANGED <<files, writing, serving, config, quiet>>

(* file_sha256(artifact), and the rest of the decision. *)
HashArtifact ==
  /\ rd = "hash"
  /\ Decide(Verify(env, artifact, trusted, require))
  /\ UNCHANGED <<files, writing, env, serving, config, quiet>>

(* joblib.load(path): the file as it is by now. *)
LoadArtifact ==
  /\ rd = "load"
  /\ serving' = [bundle |-> artifact, status |-> status, replaced |-> replaced]
  /\ rd' = "idle"
  /\ UNCHANGED <<files, writing, env, status, config, quiet, replaced>>

(* The sidecar stops; a refused boot has left it so.  Its next boot loads. *)
Stop ==
  /\ serving' = None /\ rd' = "idle" /\ env' = None /\ status' = None
  /\ UNCHANGED <<files, writing, config, quiet, replaced>>

-----------------------------------------------------------------------------
Saving(w) ==
  \/ Sign(w) \/ Move(w) \/ Unsign(w) \/ WriteManifest(w) \/ WriteCard(w)

Reading == FindSig \/ ReadSig \/ HashArtifact \/ LoadArtifact

Next ==
  \/ \E w \in Writers :
       \/ \E key \in Keys \union {None}, withManifest \in BOOLEAN : Begin(w, key, withManifest)
       \/ Saving(w)
       \/ Abort(w)
  \/ StartLoad
  \/ Reading
  \/ Stop

Spec == Init /\ [][Next]_vars

-----------------------------------------------------------------------------
(* Properties *)

(* A save that ended and overlapped no other leaves files that belong      *)
(* together, whatever interrupted or overlapping saves left before it: the *)
(* artifact, its own signature or none, and its own manifest and card      *)
(* (save_bundle; manifest.py:217-220).                                     *)
CleanSaveAgrees ==
  clean =>
    /\ artifact = saves
    /\ sig = IF keyOf[saves] = None THEN None ELSE Envelope(saves, keyOf[saves])
    /\ saves \in carries => manifest = saves /\ card = saves

(* The policy, from a bundle's key alone. *)
Acceptable(key) ==
  IF key = None \/ trusted = {} THEN ~require ELSE key \in trusted

(* A load that no save came near is decided by the policy on the saved     *)
(* bundle, never by what earlier saves left lying about, and it ends with  *)
(* that bundle serving (server.py:148-170).                                *)
QuietLoadByPolicy ==
  quiet /\ rd = "idle" =>
    /\ status = "refused" => ~Acceptable(keyOf[saves])
    /\ status \in Statuses /\ serving # None =>
         Acceptable(keyOf[saves]) /\ serving.bundle = saves

(* Whatever the writers and crashes left: a sidecar that reports its model *)
(* as verified, or that requires signatures, serves a bundle that was      *)
(* signed with a key it trusts, provided that the file was not replaced    *)
(* between the check and the load.                                         *)
VerifiedWasSigned ==
  serving # None /\ ~serving.replaced =>
    (serving.status = "verified" \/ require => keyOf[serving.bundle] \in trusted)

(* A signed artifact takes its place when its own signature is there       *)
(* already (manifest.py:189-194), unless another save interferes.          *)
SignedBeforeMoved ==
  [][\A w \in solo :
       artifact' = saving[w] /\ artifact' # artifact /\ keyOf[saving[w]] # None
         => sig = Envelope(saving[w], keyOf[saving[w]])]_vars
=============================================================================
