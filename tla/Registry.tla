------------------------------- MODULE Registry -------------------------------
(***************************************************************************)
(* How a champion travels through the model registry: register_model.py    *)
(* writes versions, tags and the champion pointer, one remote call at a    *)
(* time; a node resolves the champion, downloads it into its cache         *)
(* directory, verifies and serves it (inference/registry.py, and           *)
(* _load_registry_state and _initial_state of inference/server.py).        *)
(*                                                                         *)
(* MLflow is external: versions are numbered in the order they are         *)
(* registered, a tag is set or not, and a download writes the files of a   *)
(* version over whatever the destination holds.  Any call may fail; a      *)
(* registrar that dies leaves what it wrote.  A bundle is a number.        *)
(***************************************************************************)
EXTENDS Integers, FiniteSetsExt, Signing

CONSTANTS
  Registrars,   (* processes that run register_model.py *)
  Keys,         (* signing keys                         *)
  MaxBundles    (* bundles ever saved or registered     *)

Bundles  == 0..MaxBundles
Versions == 1..MaxBundles

ASSUME RegistryAssumption ==
  /\ MaxBundles \in Nat
  /\ None \notin Keys \union Int \union [digest : Int, key : Keys]
  /\ None \notin [bundle : Int, source : {"file", "registry"}]

VARIABLES
  dir,              (* the bundle directory: its bundle and its signature     *)
  keyOf,            (* per bundle, the key it is signed with, or None         *)
  last,             (* versions 1..last exist                                 *)
  upload,           (* per version, the artifact and signature it holds       *)
  described,        (* versions with their edgesense_version tag              *)
  champions,        (* versions tagged role = champion                        *)
  pointer,          (* the model's champion_version tag, or None              *)
  step,             (* where each registrar is                                *)
  taken, made,      (* the files it logged, and the version it made of them   *)
  promoting,        (* registrars that run with --promote                     *)
  solo,             (* history: registrars that overlapped no other           *)
  settled,          (* history: the last promotion begun ended, and was solo  *)
  trusted, require, (* the node's trust store and policy                      *)
  node,             (* where the node is                                      *)
  fetching,         (* the version it resolved last                           *)
  cache,            (* its cache directory: an artifact and a signature       *)
  serving,          (* what it serves: a bundle and its source, or None       *)
  outcome           (* how its last load ended                                *)

registry == <<last, upload, described, champions, pointer>>
saved    == <<dir, keyOf>>
calls    == <<step, taken, made, promoting, solo, settled>>
config   == <<trusted, require>>
local    == <<node, fetching, cache, serving, outcome>>
vars     == <<registry, saved, calls, config, local>>

Sigs  == [digest : Bundles, key : Keys] \union {None}
Files == [artifact : Bundles, sig : Sigs]

RegistryTypeOK ==
  /\ dir \in Files /\ keyOf \in [Bundles -> Keys \union {None}]
  /\ last \in 0..MaxBundles /\ upload \in [Versions -> Files]
  /\ described \subseteq 1..last /\ champions \subseteq 1..last
  /\ pointer \in 1..last \union {None}
  /\ step \in [Registrars -> {"idle", "upload", "register", "describe", "role", "pointer"}]
  /\ taken \in [Registrars -> Files \union {None}] /\ made \in [Registrars -> 1..last \union {None}]
  /\ promoting \subseteq Registrars /\ solo \subseteq Registrars /\ settled \in BOOLEAN
  /\ trusted \subseteq Keys /\ require \in BOOLEAN
  /\ node \in {"off", "boot", "up", "reload", "download", "load"}
  /\ fetching \in 1..last \union {None}
  /\ cache \in [artifact : Bundles \union {None}, sig : Sigs]
  /\ serving \in [bundle : Bundles, source : {"file", "registry"}] \union {None}
  /\ outcome \in {"none", "served", "refused", "failed"}

(* The image carries bundle 0, unsigned; nothing is registered yet.        *)
Init ==
  /\ dir = [artifact |-> 0, sig |-> None] /\ keyOf = [b \in Bundles |-> None]
  /\ last = 0 /\ upload = [v \in Versions |-> dir]
  /\ described = {} /\ champions = {} /\ pointer = None
  /\ step = [r \in Registrars |-> "idle"] /\ taken = [r \in Registrars |-> None]
  /\ made = [r \in Registrars |-> None]
  /\ promoting = {} /\ solo = {} /\ settled = FALSE
  /\ trusted \in SUBSET Keys /\ require \in BOOLEAN
  /\ node = "off" /\ fetching = None /\ cache = [artifact |-> None, sig |-> None]
  /\ serving = None /\ outcome = "none"

-----------------------------------------------------------------------------
(* A training run or a promotion saves the next bundle (ModelStore).       *)
Save(key) ==
  LET b == dir.artifact + 1 IN
  /\ dir.artifact < MaxBundles
  /\ dir' = [artifact |-> b, sig |-> IF key = None THEN None ELSE Envelope(b, key)]
  /\ keyOf' = [keyOf EXCEPT ![b] = key]
  /\ UNCHANGED <<registry, calls, config, local>>

(* register_model.py *)

Go(r, to) == step' = [step EXCEPT ![r] = to]

(* The process is gone, and what it knew. *)
Leave(r) ==
  /\ Go(r, "idle")
  /\ taken' = [taken EXCEPT ![r] = None] /\ made' = [made EXCEPT ![r] = None]
  /\ promoting' = promoting \ {r}

(* The manifest is read; the other files are not looked at yet.            *)
Begin(r, promote) ==
  /\ step[r] = "idle" /\ last < MaxBundles
  /\ Go(r, "upload")
  /\ promoting' = IF promote THEN promoting \union {r} ELSE promoting
  /\ solo' = IF \A o \in Registrars : step[o] = "idle" THEN {r} ELSE {}
  /\ settled' = (settled /\ ~promote)
  /\ UNCHANGED <<registry, saved, taken, made, config, local>>

(* mlflow.log_artifacts of the directory as it is now. *)
LogArtifacts(r) ==
  /\ step[r] = "upload"
  /\ taken' = [taken EXCEPT ![r] = dir]
  /\ Go(r, "register")
  /\ UNCHANGED <<registry, saved, made, promoting, solo, settled, config, local>>

RegisterModel(r) ==
  /\ step[r] = "register" /\ last < MaxBundles
  /\ last' = last + 1
  /\ upload' = [upload EXCEPT ![last + 1] = taken[r]]
  /\ made' = [made EXCEPT ![r] = last + 1] /\ taken' = [taken EXCEPT ![r] = None]
  /\ Go(r, "describe")
  /\ UNCHANGED <<described, champions, pointer, saved, promoting, solo, settled, config, local>>

(* Mutated form: the pointer is all that a promotion sets. *)
Describe_NoRole(r) ==
  /\ step[r] = "describe"
  /\ described' = described \union {made[r]}
  /\ IF r \in promoting
       THEN Go(r, "pointer") /\ UNCHANGED <<taken, made, promoting>>
       ELSE Leave(r)
  /\ UNCHANGED <<last, upload, champions, pointer, saved, solo, settled, config, local>>

(* The edgesense_version tag.  Without --promote the role is challenger,   *)
(* which nothing here reads.                                               *)
Describe(r) ==
  /\ step[r] = "describe"
  /\ described' = described \union {made[r]}
  /\ IF r \in promoting
       THEN Go(r, "role") /\ UNCHANGED <<taken, made, promoting>>
       ELSE Leave(r)
  /\ UNCHANGED <<last, upload, champions, pointer, saved, solo, settled, config, local>>

TagChampion(r) ==
  /\ step[r] = "role"
  /\ champions' = champions \union {made[r]}
  /\ Go(r, "pointer")
  /\ UNCHANGED <<last, upload, described, pointer, saved, taken, made, promoting, solo,
                  settled, config, local>>

(* Mutated form: the pointer is set once and never moved. *)
MovePointer_Once(r) ==
  /\ step[r] = "pointer"
  /\ pointer' = IF pointer = None THEN made[r] ELSE pointer
  /\ Leave(r)
  /\ settled' = (r \in solo)
  /\ UNCHANGED <<last, upload, described, champions, saved, solo, config, local>>

MovePointer(r) ==
  /\ step[r] = "pointer"
  /\ pointer' = made[r]
  /\ Leave(r)
  /\ settled' = (r \in solo)
  /\ UNCHANGED <<last, upload, described, champions, saved, solo, config, local>>

(* A call raises, or the process is killed. *)
Abort(r) ==
  /\ step[r] # "idle"
  /\ Leave(r)
  /\ UNCHANGED <<registry, saved, solo, settled, config, local>>

-----------------------------------------------------------------------------
(* The node *)

(* resolve_champion_version: the pointer, else the newest tagged version. *)
Champion ==
  IF pointer # None THEN pointer
  ELSE IF champions # {} THEN Max(champions) ELSE None

(* A process with EDGESENSE_MODEL_SOURCE=registry starts. *)
Start ==
  /\ node = "off"
  /\ node' = "boot" /\ outcome' = "none"
  /\ UNCHANGED <<registry, saved, calls, config, fetching, cache, serving>>

(* POST /reload?source=registry, under _state_lock. *)
Reload ==
  /\ node = "up"
  /\ node' = "reload" /\ outcome' = "none"
  /\ UNCHANGED <<registry, saved, calls, config, fetching, cache, serving>>

Resolve ==
  /\ node \in {"boot", "reload"} /\ Champion # None
  /\ fetching' = Champion
  /\ node' = "download"
  /\ UNCHANGED <<registry, saved, calls, config, cache, serving, outcome>>

(* Mutated form: a file that is there already is kept. *)
Over_KeepsSig(version, files) ==
  [artifact |-> version.artifact,
   sig |-> IF files.sig = None THEN version.sig ELSE files.sig]

(* What a version's files leave in a directory that other files are in.    *)
Over(version, files) ==
  [artifact |-> version.artifact,
   sig |-> IF version.sig = None THEN files.sig ELSE version.sig]

(* Mutated form: files that are there already are not fetched again. *)
Download_Cached ==
  /\ node = "download"
  /\ cache' = IF cache.artifact = None THEN Over(upload[fetching], cache) ELSE cache
  /\ node' = "load"
  /\ UNCHANGED <<registry, saved, calls, config, fetching, serving, outcome>>

(* download_artifacts into the cache directory, which is never emptied.    *)
Download ==
  /\ node = "download"
  /\ cache' = Over(upload[fetching], cache)
  /\ node' = "load"
  /\ UNCHANGED <<registry, saved, calls, config, fetching, serving, outcome>>

(* Where a load ends: the process serves, or it does not come up.          *)
End(how) ==
  /\ outcome' = how
  /\ node' = IF serving' = None THEN "off" ELSE "up"

(* The policy on a bundle, from the key it is signed with. *)
Acceptable(b) ==
  IF keyOf[b] = None \/ trusted = {} THEN ~require ELSE keyOf[b] \in trusted

(* Mutated form: there is no fallback. *)
Unreachable_NoFallback ==
  /\ node \in {"boot", "reload", "download"}
  /\ UNCHANGED <<cache, serving>>
  /\ End("failed")
  /\ UNCHANGED <<registry, saved, calls, config, fetching>>

(* A RegistryError at any point of the fetch, with any part of the         *)
(* download done: a reload keeps what serves, a boot falls back to the     *)
(* bundle of the image, which is verified like any other.                  *)
Unreachable ==
  /\ node \in {"boot", "reload", "download"}
  /\ IF node = "download"
       THEN cache' \in {cache,
                        [cache EXCEPT !.artifact = upload[fetching].artifact],
                        [cache EXCEPT !.sig = Over(upload[fetching], cache).sig]}
       ELSE UNCHANGED cache
  /\ serving' = IF serving = None /\ Acceptable(0)
                  THEN [bundle |-> 0, source |-> "file"] ELSE serving
  /\ End("failed")
  /\ UNCHANGED <<registry, saved, calls, config, fetching>>

(* _load_state on the cached copy.  A VerificationError is fatal at boot,  *)
(* where the image's bundle would be acceptable, and a 400 for a reload.   *)
LoadCached ==
  /\ node = "load"
  /\ IF Verify(cache.sig, cache.artifact, trusted, require) = "refused"
       THEN serving' = serving /\ End("refused")
       ELSE serving' = [bundle |-> cache.artifact, source |-> "registry"] /\ End("served")
  /\ UNCHANGED <<registry, saved, calls, config, fetching, cache>>

(* The process stops; its cache directory outlives it. *)
Stop ==
  /\ node # "off"
  /\ node' = "off" /\ serving' = None /\ fetching' = None /\ outcome' = "none"
  /\ UNCHANGED <<registry, saved, calls, config, cache>>

(* A new container: an empty cache directory. *)
Recreate ==
  /\ node = "off"
  /\ cache' = [artifact |-> None, sig |-> None]
  /\ UNCHANGED <<registry, saved, calls, config, node, fetching, serving, outcome>>

-----------------------------------------------------------------------------
Registering(r) ==
  \/ LogArtifacts(r) \/ RegisterModel(r) \/ Describe(r) \/ TagChampion(r) \/ MovePointer(r)

Next ==
  \/ \E key \in Keys \union {None} : Save(key)
  \/ \E r \in Registrars :
       \/ \E promote \in BOOLEAN : Begin(r, promote)
       \/ Registering(r)
       \/ Abort(r)
  \/ Start \/ Reload \/ Resolve \/ Download \/ Unreachable \/ LoadCached
  \/ Stop \/ Recreate

Spec == Init /\ [][Next]_vars

-----------------------------------------------------------------------------
(* Properties *)

(* Whatever registrars died at or ran into each other: the pointer names a *)
(* version with all its tags, so that a node never resolves a half         *)
(* recorded one by it (register_model.py: the pointer is set last).        *)
PointerComplete ==
  /\ pointer # None => pointer \in described \intersect champions
  /\ champions \subseteq described

(* Both ways to resolve the champion agree after a promotion that ran      *)
(* alone (registry.py:16-17), whatever was left unfinished before it.      *)
PathsAgree == settled => pointer # None /\ pointer = Max(champions)

(* A load that succeeded serves the artifact of the version it resolved,   *)
(* which is a promoted one, whatever the cache directory held and however  *)
(* many downloads were cut short before.                                   *)
ServesResolved ==
  outcome = "served" =>
    /\ serving = [bundle |-> upload[fetching].artifact, source |-> "registry"]
    /\ fetching \in champions

(* A signed champion that the policy accepts is not refused for what       *)
(* earlier downloads left in the cache.                                    *)
SignedNeverRefused ==
  outcome = "refused" =>
    LET b == upload[fetching].artifact IN keyOf[b] # None => ~Acceptable(b)

(* A node that boots without the registry serves the bundle of its image   *)
(* (server.py:198-200); it stays down only for a refused artifact.         *)
OfflineBoots == node = "off" /\ outcome = "failed" => require

(* docs/MLOPS.md:294-295: "unsigned bundles keep serving until             *)
(* EDGESENSE_REQUIRE_SIGNATURE is set".                                    *)
UnsignedServes ==
  outcome = "refused" =>
    LET b == upload[fetching].artifact IN keyOf[b] = None => require
=============================================================================
