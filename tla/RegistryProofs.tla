---------------------------- MODULE RegistryProofs ----------------------------
(***************************************************************************)
(* Proofs about Registry: its type invariant and the five invariants the   *)
(* registry run checks.                                                    *)
(*                                                                         *)
(* None of them is inductive.  RegistryInv adds what each process may rely *)
(* on between two remote calls: a registrar that has tagged a version      *)
(* still knows which one (Progress); while one registrar runs alone, the   *)
(* version it made is the newest there is, and after its promotion nobody  *)
(* is promoting (Alone, Undisturbed); the files of a bundle agree wherever *)
(* they were copied to (SignedFiles); and a load under way is of a         *)
(* champion, whose artifact and signature the cache got (Loading).         *)
(***************************************************************************)
EXTENDS Registry, WellFoundedInduction, TLAPS

-----------------------------------------------------------------------------
(* The inductive invariant *)

HasVersion == {"describe", "role", "pointer"}

Progress ==
  \A r \in Registrars :
    /\ step[r] = "idle" => r \notin promoting
    /\ step[r] = "register" => taken[r] \in Files
    /\ step[r] \in HasVersion => made[r] \in 1..last
    /\ step[r] \in {"role", "pointer"} => r \in promoting /\ made[r] \in described
    /\ step[r] = "pointer" => made[r] \in champions

Alone ==
  \A r \in solo :
    /\ \A o \in Registrars \ {r} : step[o] = "idle"
    /\ step[r] \in HasVersion => made[r] = last

Undisturbed ==
  settled => /\ promoting = {}
             /\ pointer \in champions /\ \A c \in champions : c <= pointer

(* The signature of a bundle's files is the one the bundle was saved with. *)
AsSaved(files) ==
  /\ files.artifact <= dir.artifact
  /\ files.sig = IF keyOf[files.artifact] = None THEN None
                 ELSE Envelope(files.artifact, keyOf[files.artifact])

SignedFiles ==
  /\ keyOf[0] = None
  /\ AsSaved(dir)
  /\ \A v \in Versions : AsSaved(upload[v])
  /\ \A r \in Registrars : step[r] = "register" => AsSaved(taken[r])

Loading ==
  /\ node \in {"boot", "reload", "download", "load"} => outcome = "none"
  /\ node \in {"download", "load"} \/ outcome \in {"served", "refused"} => fetching \in champions
  /\ node = "load" =>
       LET version == upload[fetching] IN
       /\ cache.artifact = version.artifact
       /\ version.sig # None => cache.sig = version.sig

RegistryInv ==
  /\ RegistryTypeOK /\ Progress /\ Alone /\ Undisturbed /\ SignedFiles /\ Loading
  /\ PointerComplete /\ ServesResolved /\ SignedNeverRefused /\ OfflineBoots

-----------------------------------------------------------------------------
(* Operators *)

(* The newest of some versions exists and is what Max names. *)
LEMMA NewestVersion ==
  ASSUME NEW n \in Nat, NEW V \in SUBSET (1..n), V # {}
  PROVE  Max(V) \in V /\ \A v \in V : Max(V) >= v
<1>0. \A v \in V : v \in Int /\ 1 <= v /\ v <= n
  OBVIOUS
<1> DEFINE T == {n - v : v \in V}
<1>1. T \subseteq Nat /\ T # {}
  <2>1. \A v \in V : n - v \in Nat
    BY <1>0
  <2>2. PICK v \in V : n - v \in T
    OBVIOUS
  <2> QED BY <2>1, <2>2
<1>2. PICK x \in T : \A y \in T : ~(<<y, x>> \in OpToRel(<, Nat))
  <2> HIDE DEF T
  <2> QED BY <1>1, WFMin, NatLessThanWellFounded, Zenon
<1>3. PICK m \in V : x = n - m
  OBVIOUS
<1>4. ASSUME NEW v \in V PROVE m >= v
  <2>1. n - v \in T /\ n - v \in Nat /\ x \in Nat
    OBVIOUS
  <2>2. ~(n - v < x)
    <3> HIDE DEF T
    <3> QED BY <1>2, <2>1, Zenon DEF OpToRel
  <2>3. v \in Int /\ m \in Int
    BY <1>0
  <2> QED BY <1>3, <2>1, <2>2, <2>3
<1> QED BY <1>4 DEF Max

(* A version that is no older than any other of them is what Max names. *)
LEMMA NewestIs ==
  ASSUME NEW n \in Nat, NEW V \in SUBSET (1..n), NEW m \in V, \A v \in V : v <= m
  PROVE  Max(V) = m
<1>1. Max(V) \in V /\ Max(V) >= m
  BY NewestVersion
<1>2. \A v \in V : v \in Int
  OBVIOUS
<1>3. Max(V) <= m /\ Max(V) \in Int /\ m \in Int
  BY <1>1, <1>2
<1> QED BY <1>1, <1>3

(* What a fetch resolves is a promoted version, once there is one. *)
LEMMA ChampionIsOne ==
  ASSUME RegistryTypeOK, PointerComplete, Champion # None
  PROVE  Champion \in champions
<1>1. CASE pointer # None
  BY <1>1 DEF Champion, PointerComplete
<1>2. CASE pointer = None
  <2>1. champions # {} /\ Champion = Max(champions)
    BY <1>2 DEF Champion
  <2>2. last \in Nat /\ champions \subseteq 1..last
    BY RegistryAssumption DEF RegistryTypeOK
  <2> QED BY <2>1, <2>2, NewestVersion
<1> QED BY <1>1, <1>2

(* Of a bundle as it was saved, the policy of the trust store is all that  *)
(* decides.                                                                *)
LEMMA SignedVerdict ==
  ASSUME NEW b \in Bundles, keyOf[b] # None,
         Verify(Envelope(b, keyOf[b]), b, trusted, require) = "refused",
         RegistryTypeOK
  PROVE  ~Acceptable(b)
<1>1. keyOf[b] \in Keys /\ Envelope(b, keyOf[b]) \in [digest : Int, key : Keys]
  BY RegistryAssumption DEF RegistryTypeOK, Envelope, Bundles
<1>2. Envelope(b, keyOf[b]) # None
  BY <1>1, RegistryAssumption
<1>3. Envelope(b, keyOf[b]).digest = b /\ Envelope(b, keyOf[b]).key = keyOf[b]
  BY DEF Envelope
<1>4. CASE trusted = {}
  BY <1>2, <1>3, <1>4 DEF Verify, Acceptable
<1>5. CASE trusted # {}
  BY <1>2, <1>3, <1>5 DEF Verify, Acceptable
<1> QED BY <1>4, <1>5

-----------------------------------------------------------------------------
(* Types *)

LEMMA TypesNext == RegistryInv /\ [Next]_vars => RegistryTypeOK'
<1> SUFFICES ASSUME RegistryInv, [Next]_vars PROVE RegistryTypeOK'
  OBVIOUS
<1> USE RegistryAssumption DEF RegistryInv, RegistryTypeOK
<1>1. last \in Nat /\ Bundles \subseteq Int /\ \A n \in Int : n \in 0..MaxBundles => n \in Bundles
  BY DEF Bundles
<1>2. CASE UNCHANGED vars
  BY <1>2 DEF vars, registry, saved, calls, config, local
<1>3. ASSUME NEW key \in Keys \union {None}, Save(key) PROVE RegistryTypeOK'
  <2>1. dir.artifact + 1 \in Bundles
    BY <1>3, <1>1 DEF Save, Files, Bundles
  <2>2. dir' \in Files
    BY <1>3, <2>1 DEF Save, Files, Sigs, Envelope
  <2>3. keyOf' \in [Bundles -> Keys \union {None}]
    BY <1>3, <2>1 DEF Save
  <2> QED BY <1>3, <2>2, <2>3 DEF Save, registry, calls, config, local
<1>4. ASSUME NEW r \in Registrars, NEW promote \in BOOLEAN, Begin(r, promote)
      PROVE  RegistryTypeOK'
  BY <1>4 DEF Begin, Go, registry, saved, config, local
<1>5. ASSUME NEW r \in Registrars, LogArtifacts(r) PROVE RegistryTypeOK'
  BY <1>5 DEF LogArtifacts, Go, registry, saved, config, local
<1>6. ASSUME NEW r \in Registrars, RegisterModel(r) PROVE RegistryTypeOK'
  <2>1. taken[r] \in Files /\ last + 1 \in 1..MaxBundles
    BY <1>6, <1>1 DEF RegisterModel, Progress
  <2>2. last' = last + 1 /\ last' \in 0..MaxBundles /\ 1..last \subseteq 1..last'
    BY <1>6, <1>1, <2>1 DEF RegisterModel
  <2>3. upload' \in [Versions -> Files]
    BY <1>6, <2>1 DEF RegisterModel, Versions
  <2>4. made' \in [Registrars -> 1..last' \union {None}]
        /\ taken' \in [Registrars -> Files \union {None}]
    BY <1>6, <2>2 DEF RegisterModel
  <2> QED BY <1>6, <2>2, <2>3, <2>4 DEF RegisterModel, Go, saved, config, local
<1>7. ASSUME NEW r \in Registrars, Describe(r) PROVE RegistryTypeOK'
  <2>1. made[r] \in 1..last
    BY <1>7 DEF Describe, Progress, HasVersion
  <2> QED BY <1>7, <2>1 DEF Describe, Leave, Go, saved, config, local
<1>8. ASSUME NEW r \in Registrars, TagChampion(r) PROVE RegistryTypeOK'
  <2>1. made[r] \in 1..last
    BY <1>8 DEF TagChampion, Progress, HasVersion
  <2> QED BY <1>8, <2>1 DEF TagChampion, Go, saved, config, local
<1>9. ASSUME NEW r \in Registrars, MovePointer(r) PROVE RegistryTypeOK'
  <2>1. made[r] \in 1..last
    BY <1>9 DEF MovePointer, Progress, HasVersion
  <2> QED BY <1>9, <2>1 DEF MovePointer, Leave, Go, saved, config, local
<1>10. ASSUME NEW r \in Registrars, Abort(r) PROVE RegistryTypeOK'
  BY <1>10 DEF Abort, Leave, Go, registry, saved, config, local
<1>11. CASE Start \/ Reload \/ Stop \/ Recreate
  BY <1>11 DEF Start, Reload, Stop, Recreate, Sigs, registry, saved, calls, config, local
<1>12. CASE Resolve
  <2>1. Champion \in 1..last
    BY <1>12, ChampionIsOne DEF Resolve
  <2> QED BY <1>12, <2>1 DEF Resolve, registry, saved, calls, config
<1>13. ASSUME node = "download"
       PROVE  upload[fetching] \in Files /\ Over(upload[fetching], cache) \in [artifact : Bundles, sig : Sigs]
  <2>1. fetching \in Versions
    BY <1>13 DEF Loading, Versions
  <2>2. upload[fetching] \in Files
    BY <2>1
  <2> QED BY <2>2 DEF Over, Files
<1>14. CASE Download
  BY <1>13, <1>14 DEF Download, registry, saved, calls, config
<1>15. CASE Unreachable
  <2>1. cache' \in [artifact : Bundles \union {None}, sig : Sigs]
    BY <1>13, <1>15 DEF Unreachable, Files
  <2>2. serving' \in [bundle : Bundles, source : {"file", "registry"}] \union {None}
    BY <1>15, <1>1 DEF Unreachable
  <2> QED BY <1>15, <2>1, <2>2 DEF Unreachable, End, registry, saved, calls, config
<1>16. CASE LoadCached
  <2>1. cache.artifact \in Bundles
    <3>1. fetching \in Versions
      BY <1>16 DEF LoadCached, Loading, Versions
    <3> QED BY <1>16, <3>1 DEF LoadCached, Loading, Files
  <2>2. serving' \in [bundle : Bundles, source : {"file", "registry"}] \union {None}
    BY <1>16, <2>1 DEF LoadCached
  <2> QED BY <1>16, <2>2 DEF LoadCached, End, registry, saved, calls, config
<1> QED
  BY <1>2, <1>3, <1>4, <1>5, <1>6, <1>7, <1>8, <1>9, <1>10, <1>11, <1>12, <1>14, <1>15, <1>16
  DEF Next, Registering

-----------------------------------------------------------------------------
(* Registrars *)

LEMMA ProgressNext == RegistryInv /\ [Next]_vars => Progress'
<1> SUFFICES ASSUME RegistryInv, [Next]_vars PROVE Progress'
  OBVIOUS
<1> USE DEF HasVersion
<1>1. /\ RegistryTypeOK /\ Progress /\ PointerComplete
      /\ last \in Nat /\ dir \in Files
      /\ step \in [Registrars -> {"idle", "upload", "register", "describe", "role", "pointer"}]
      /\ taken \in [Registrars -> Files \union {None}]
      /\ made \in [Registrars -> 1..last \union {None}]
  BY RegistryAssumption DEF RegistryInv, RegistryTypeOK
<1>2. CASE UNCHANGED <<calls, registry>>
  BY <1>1, <1>2 DEF calls, registry, Progress
<1>3. ASSUME NEW r \in Registrars, NEW promote \in BOOLEAN, Begin(r, promote) PROVE Progress'
  BY <1>1, <1>3 DEF Progress, Begin, Go, registry
<1>4. ASSUME NEW r \in Registrars, LogArtifacts(r) PROVE Progress'
  BY <1>1, <1>4 DEF Progress, LogArtifacts, Go, registry
<1>5. ASSUME NEW r \in Registrars, RegisterModel(r) PROVE Progress'
  <2>1. last' = last + 1 /\ last' \in 1..last' /\ 1..last \subseteq 1..last'
    BY <1>1, <1>5 DEF RegisterModel
  <2> QED BY <1>1, <1>5, <2>1 DEF Progress, RegisterModel, Go
<1>6. ASSUME NEW r \in Registrars, Describe(r) PROVE Progress'
  BY <1>1, <1>6 DEF Progress, Describe, Leave, Go
<1>7. ASSUME NEW r \in Registrars, TagChampion(r) PROVE Progress'
  BY <1>1, <1>7 DEF Progress, TagChampion, Go
<1>8. ASSUME NEW r \in Registrars, MovePointer(r) PROVE Progress'
  BY <1>1, <1>8 DEF Progress, MovePointer, Leave, Go
<1>9. ASSUME NEW r \in Registrars, Abort(r) PROVE Progress'
  BY <1>1, <1>9 DEF Progress, Abort, Leave, Go, registry
<1>10. CASE \/ UNCHANGED vars \/ \E key \in Keys \union {None} : Save(key)
            \/ Start \/ Reload \/ Resolve \/ Download \/ Unreachable \/ LoadCached
            \/ Stop \/ Recreate
  BY <1>2, <1>10
  DEF vars, Save, Start, Reload, Resolve, Download, Unreachable, LoadCached, Stop, Recreate
<1> QED BY <1>3, <1>4, <1>5, <1>6, <1>7, <1>8, <1>9, <1>10 DEF Next, Registering

(* A step of any other process leaves the registrars and the registry as   *)
(* they are.                                                               *)
LEMMA OthersLeaveRegistry ==
  ASSUME [Next]_vars
  PROVE  \/ UNCHANGED <<calls, registry>>
         \/ \E r \in Registrars : (\E promote \in BOOLEAN : Begin(r, promote))
                                  \/ Registering(r) \/ Abort(r)
BY DEF Next, vars, Save, Start, Reload, Resolve, Download, Unreachable, LoadCached, Stop, Recreate

LEMMA AloneNext == RegistryInv /\ [Next]_vars => Alone'
<1> SUFFICES ASSUME RegistryInv, [Next]_vars PROVE Alone'
  OBVIOUS
<1> USE DEF HasVersion
<1>1. /\ Alone /\ Progress
      /\ last \in Nat /\ solo \subseteq Registrars
      /\ step \in [Registrars -> {"idle", "upload", "register", "describe", "role", "pointer"}]
      /\ made \in [Registrars -> 1..last \union {None}]
  BY RegistryAssumption DEF RegistryInv, RegistryTypeOK
<1>2. CASE UNCHANGED <<calls, registry>>
  BY <1>1, <1>2 DEF calls, registry, Alone
<1>3. ASSUME NEW r \in Registrars, NEW promote \in BOOLEAN, Begin(r, promote) PROVE Alone'
  BY <1>1, <1>3 DEF Alone, Begin, Go, registry
<1>4. ASSUME NEW r \in Registrars, LogArtifacts(r) PROVE Alone'
  BY <1>1, <1>4 DEF Alone, LogArtifacts, Go, registry
<1>5. ASSUME NEW r \in Registrars, RegisterModel(r) PROVE Alone'
  <2>1. \A o \in solo : o = r
    BY <1>1, <1>5 DEF Alone, RegisterModel
  <2> QED BY <1>1, <1>5, <2>1 DEF Alone, RegisterModel, Go
<1>6. ASSUME NEW r \in Registrars, Describe(r) PROVE Alone'
  BY <1>1, <1>6 DEF Alone, Describe, Leave, Go
<1>7. ASSUME NEW r \in Registrars, TagChampion(r) PROVE Alone'
  BY <1>1, <1>7 DEF Alone, TagChampion, Go
<1>8. ASSUME NEW r \in Registrars, MovePointer(r) PROVE Alone'
  BY <1>1, <1>8 DEF Alone, MovePointer, Leave, Go
<1>9. ASSUME NEW r \in Registrars, Abort(r) PROVE Alone'
  BY <1>1, <1>9 DEF Alone, Abort, Leave, Go, registry
<1> QED
  BY <1>2, <1>3, <1>4, <1>5, <1>6, <1>7, <1>8, <1>9, OthersLeaveRegistry DEF Registering

LEMMA UndisturbedNext == RegistryInv /\ [Next]_vars => Undisturbed' /\ PointerComplete'
<1> SUFFICES ASSUME RegistryInv, [Next]_vars PROVE Undisturbed' /\ PointerComplete'
  OBVIOUS
<1> USE DEF HasVersion
<1>1. /\ Undisturbed /\ PointerComplete /\ Alone /\ Progress
      /\ last \in Nat /\ champions \subseteq 1..last /\ promoting \subseteq Registrars
      /\ step \in [Registrars -> {"idle", "upload", "register", "describe", "role", "pointer"}]
      /\ made \in [Registrars -> 1..last \union {None}]
  BY RegistryAssumption DEF RegistryInv, RegistryTypeOK
<1>2. CASE UNCHANGED <<calls, registry>>
  BY <1>1, <1>2 DEF calls, registry, Undisturbed, PointerComplete
<1>3. ASSUME NEW r \in Registrars, NEW promote \in BOOLEAN, Begin(r, promote)
      PROVE  Undisturbed' /\ PointerComplete'
  BY <1>1, <1>3 DEF Undisturbed, PointerComplete, Begin, registry
<1>4. ASSUME NEW r \in Registrars, LogArtifacts(r) PROVE Undisturbed' /\ PointerComplete'
  BY <1>1, <1>4 DEF Undisturbed, PointerComplete, LogArtifacts, registry
<1>5. ASSUME NEW r \in Registrars, RegisterModel(r) PROVE Undisturbed' /\ PointerComplete'
  BY <1>1, <1>5 DEF Undisturbed, PointerComplete, RegisterModel
<1>6. ASSUME NEW r \in Registrars, Describe(r) PROVE Undisturbed' /\ PointerComplete'
  BY <1>1, <1>6 DEF Undisturbed, PointerComplete, Describe, Leave
<1>7. ASSUME NEW r \in Registrars, TagChampion(r) PROVE Undisturbed' /\ PointerComplete'
  <2>1. r \in promoting /\ made[r] \in described
    BY <1>1, <1>7 DEF Progress, TagChampion
  <2> QED BY <1>1, <1>7, <2>1 DEF Undisturbed, PointerComplete, TagChampion
<1>8. ASSUME NEW r \in Registrars, MovePointer(r) PROVE Undisturbed' /\ PointerComplete'
  <2>1. made[r] \in champions /\ made[r] \in described /\ pointer' = made[r] /\ champions' = champions
        /\ described' = described
    BY <1>1, <1>8 DEF Progress, MovePointer
  <2>2. ASSUME r \in solo
        PROVE  promoting' = {} /\ \A v \in champions : v <= made[r]
    <3>1. \A o \in Registrars \ {r} : o \notin promoting
      BY <1>1, <2>2 DEF Alone, Progress
    <3>2. made[r] = last
      BY <1>1, <1>8, <2>2 DEF Alone, MovePointer
    <3> QED BY <1>1, <1>8, <3>1, <3>2 DEF MovePointer, Leave
  <2>3. settled' = (r \in solo)
    BY <1>8 DEF MovePointer
  <2> QED BY <1>1, <2>1, <2>2, <2>3 DEF Undisturbed, PointerComplete
<1>9. ASSUME NEW r \in Registrars, Abort(r) PROVE Undisturbed' /\ PointerComplete'
  BY <1>1, <1>9 DEF Undisturbed, PointerComplete, Abort, Leave, registry
<1> QED
  BY <1>2, <1>3, <1>4, <1>5, <1>6, <1>7, <1>8, <1>9, OthersLeaveRegistry DEF Registering

-----------------------------------------------------------------------------
(* Files *)

(* Saving the next bundle changes the key of no bundle that exists. *)
LEMMA SavedStays ==
  ASSUME RegistryTypeOK, NEW key \in Keys \union {None}, Save(key),
         NEW files \in Files, AsSaved(files)
  PROVE  AsSaved(files)'
<1>1. files.artifact \in Bundles /\ files.artifact <= dir.artifact /\ dir.artifact \in Int
  BY DEF RegistryTypeOK, Files, Bundles, AsSaved
<1>2. files.artifact \in Int /\ dir.artifact + 1 \in Int
  BY <1>1 DEF Bundles
<1>3. files.artifact # dir.artifact + 1
  BY <1>1, <1>2
<1>4. keyOf'[files.artifact] = keyOf[files.artifact]
  BY <1>1, <1>3 DEF Save, RegistryTypeOK
<1>5. dir'.artifact = dir.artifact + 1
  BY DEF Save
<1> QED BY <1>1, <1>2, <1>4, <1>5 DEF AsSaved, Envelope

LEMMA SignedFilesNext == RegistryInv /\ [Next]_vars => SignedFiles'
<1> SUFFICES ASSUME RegistryInv, [Next]_vars PROVE SignedFiles'
  OBVIOUS
<1>1. /\ RegistryTypeOK /\ SignedFiles /\ Progress
      /\ last \in Nat /\ dir \in Files /\ upload \in [Versions -> Files]
      /\ step \in [Registrars -> {"idle", "upload", "register", "describe", "role", "pointer"}]
      /\ taken \in [Registrars -> Files \union {None}]
  BY RegistryAssumption DEF RegistryInv, RegistryTypeOK
<1>2. ASSUME NEW key \in Keys \union {None}, Save(key) PROVE SignedFiles'
  <2>1. dir.artifact \in Nat /\ dir.artifact + 1 \in Bundles /\ keyOf \in [Bundles -> Keys \union {None}]
    BY <1>1, <1>2, RegistryAssumption DEF Save, Files, Bundles, RegistryTypeOK
  <2>2. keyOf'[0] = keyOf[0] /\ keyOf'[dir.artifact + 1] = key
    BY <1>2, <2>1 DEF Save
  <2>3. dir' = [artifact |-> dir.artifact + 1,
                sig |-> IF key = None THEN None ELSE Envelope(dir.artifact + 1, key)]
    BY <1>2 DEF Save
  <2>4. AsSaved(dir)'
    BY <2>1, <2>2, <2>3 DEF AsSaved, Envelope
  <2>5. \A v \in Versions : AsSaved(upload[v])'
    <3> SUFFICES ASSUME NEW v \in Versions PROVE AsSaved(upload[v])'
      OBVIOUS
    <3>1. upload[v] \in Files /\ AsSaved(upload[v]) /\ upload' = upload
      BY <1>1, <1>2 DEF SignedFiles, Save, registry
    <3> QED BY <1>1, <1>2, <3>1, SavedStays DEF AsSaved
  <2>6. \A r \in Registrars : (step[r] = "register" => AsSaved(taken[r]))'
    <3> SUFFICES ASSUME NEW r \in Registrars, step[r] = "register" PROVE AsSaved(taken[r])'
      BY <1>2 DEF Save, calls
    <3>1. taken[r] \in Files /\ AsSaved(taken[r]) /\ taken' = taken
      BY <1>1, <1>2 DEF SignedFiles, Progress, Save, calls
    <3> QED BY <1>1, <1>2, <3>1, SavedStays DEF AsSaved
  <2> QED BY <1>1, <2>2, <2>4, <2>5, <2>6 DEF SignedFiles
<1>3. ASSUME NEW r \in Registrars, LogArtifacts(r) PROVE SignedFiles'
  BY <1>1, <1>3 DEF SignedFiles, AsSaved, LogArtifacts, Go, registry, saved
<1>4. ASSUME NEW r \in Registrars, RegisterModel(r) PROVE SignedFiles'
  <2>1. \A v \in Versions : upload'[v] \in {upload[v], taken[r]}
    BY <1>1, <1>4 DEF RegisterModel
  <2>2. \A o \in Registrars : step'[o] = "register" => step[o] = "register" /\ taken'[o] = taken[o]
    BY <1>1, <1>4 DEF RegisterModel, Go
  <2>3. AsSaved(taken[r])
    BY <1>1, <1>4 DEF RegisterModel, SignedFiles
  <2>4. UNCHANGED <<dir, keyOf>>
    BY <1>4 DEF RegisterModel, saved
  <2> QED BY <1>1, <2>1, <2>2, <2>3, <2>4 DEF SignedFiles, AsSaved
<1>5. ASSUME NEW r \in Registrars,
             \/ \E promote \in BOOLEAN : Begin(r, promote)
             \/ Describe(r) \/ TagChampion(r) \/ MovePointer(r) \/ Abort(r)
      PROVE  SignedFiles'
  <2>1. UNCHANGED <<dir, keyOf, upload>>
    BY <1>5 DEF Begin, Describe, TagChampion, MovePointer, Abort, registry, saved
  <2>2. \A o \in Registrars : step'[o] = "register" => step[o] = "register" /\ taken'[o] = taken[o]
    BY <1>1, <1>5 DEF Begin, Describe, TagChampion, MovePointer, Abort, Leave, Go
  <2> QED BY <1>1, <2>1, <2>2 DEF SignedFiles, AsSaved
<1>6. CASE UNCHANGED <<saved, registry, calls>>
  BY <1>1, <1>6 DEF SignedFiles, AsSaved, saved, registry, calls
<1>7. CASE \/ UNCHANGED vars
           \/ Start \/ Reload \/ Resolve \/ Download \/ Unreachable \/ LoadCached
           \/ Stop \/ Recreate
  BY <1>6, <1>7
  DEF vars, Start, Reload, Resolve, Download, Unreachable, LoadCached, Stop, Recreate
<1> QED BY <1>2, <1>3, <1>4, <1>5, <1>7 DEF Next, Registering

-----------------------------------------------------------------------------
(* The node *)

(* What was downloaded stays as it was: a version's files never change and *)
(* a tag is never taken away.                                              *)
LEMMA VersionsStay ==
  ASSUME RegistryInv, [Next]_vars
  PROVE  /\ champions \subseteq champions' /\ UNCHANGED config
         /\ \A v \in 1..last : upload'[v] = upload[v]
         /\ \A b \in Bundles : b <= dir.artifact => keyOf'[b] = keyOf[b]
<1>1. last \in Nat /\ upload \in [Versions -> Files] /\ dir.artifact \in Int
      /\ keyOf \in [Bundles -> Keys \union {None}]
  BY RegistryAssumption DEF RegistryInv, RegistryTypeOK, Files, Bundles
<1>2. ASSUME NEW key \in Keys \union {None}, Save(key)
      PROVE  UNCHANGED <<champions, upload, config>>
             /\ \A b \in Bundles : b <= dir.artifact => keyOf'[b] = keyOf[b]
  <2>1. \A b \in Bundles : b <= dir.artifact => b # dir.artifact + 1
    BY <1>1 DEF Bundles
  <2> QED BY <1>1, <1>2, <2>1 DEF Save, registry
<1>3. ASSUME NEW r \in Registrars, RegisterModel(r)
      PROVE  UNCHANGED <<champions, keyOf, config>> /\ \A v \in 1..last : upload'[v] = upload[v]
  <2>1. \A v \in 1..last : v # last + 1
    BY <1>1
  <2>2. last \in 0..MaxBundles
    BY DEF RegistryInv, RegistryTypeOK
  <2>3. 1..last \subseteq Versions
    BY <2>2, RegistryAssumption DEF Versions
  <2> QED BY <1>1, <1>3, <2>1, <2>3 DEF RegisterModel, saved
<1>4. CASE UNCHANGED <<upload, keyOf, config>> /\ champions \subseteq champions'
  BY <1>4
<1>5. ASSUME NEW r \in Registrars,
             \/ \E promote \in BOOLEAN : Begin(r, promote)
             \/ LogArtifacts(r) \/ Describe(r) \/ TagChampion(r) \/ MovePointer(r) \/ Abort(r)
      PROVE  UNCHANGED <<upload, keyOf, config>> /\ champions \subseteq champions'
  BY <1>5 DEF Begin, LogArtifacts, Describe, TagChampion, MovePointer, Abort, registry, saved
<1>6. CASE \/ UNCHANGED vars
           \/ Start \/ Reload \/ Resolve \/ Download \/ Unreachable \/ LoadCached
           \/ Stop \/ Recreate
  BY <1>4, <1>6 DEF vars, saved, registry,
     Start, Reload, Resolve, Download, Unreachable, LoadCached, Stop, Recreate
<1> QED BY <1>2, <1>3, <1>4, <1>5, <1>6 DEF Next, Registering

(* What the node's state is about does not change under the steps of the   *)
(* others, nor under its own.                                              *)
LEMMA FetchedStays ==
  ASSUME RegistryInv, [Next]_vars, fetching \in champions
  PROVE  /\ upload'[fetching] = upload[fetching] /\ upload[fetching] \in Files
         /\ AsSaved(upload[fetching])
         /\ upload[fetching].artifact \in Bundles
         /\ \A b \in Bundles : b = upload[fetching].artifact =>
              keyOf'[b] = keyOf[b] /\ (Acceptable(b)' <=> Acceptable(b))
<1>1. fetching \in 1..last /\ fetching \in Versions
  BY RegistryAssumption DEF RegistryInv, RegistryTypeOK, Versions
<1>2. upload'[fetching] = upload[fetching] /\ upload[fetching] \in Files
      /\ AsSaved(upload[fetching])
  BY <1>1, VersionsStay DEF RegistryInv, RegistryTypeOK, SignedFiles
<1>3. ASSUME NEW b \in Bundles, b = upload[fetching].artifact
      PROVE  keyOf'[b] = keyOf[b] /\ (Acceptable(b)' <=> Acceptable(b))
  <2>1. b <= dir.artifact
    BY <1>2, <1>3 DEF AsSaved
  <2>2. keyOf'[b] = keyOf[b] /\ trusted' = trusted /\ require' = require
    BY <2>1, VersionsStay DEF config
  <2> QED BY <2>2 DEF Acceptable
<1> QED BY <1>2, <1>3 DEF Files

(* Steps of the other processes. *)
LEMMA NodeUntouched ==
  ASSUME RegistryInv, [Next]_vars, UNCHANGED local
  PROVE  Loading' /\ ServesResolved' /\ SignedNeverRefused' /\ OfflineBoots'
<1>1. /\ Loading /\ ServesResolved /\ SignedNeverRefused /\ OfflineBoots
      /\ UNCHANGED <<node, fetching, cache, serving, outcome>>
  BY DEF RegistryInv, local
<1>2. champions \subseteq champions' /\ require' = require
  BY VersionsStay DEF config
<1>3. Loading'
  BY <1>1, <1>2, FetchedStays DEF Loading
<1>4. ServesResolved'
  BY <1>1, <1>2, FetchedStays DEF ServesResolved, Loading
<1>5. SignedNeverRefused'
  BY <1>1, FetchedStays DEF SignedNeverRefused, Loading
<1>6. OfflineBoots'
  BY <1>1, <1>2 DEF OfflineBoots
<1> QED BY <1>3, <1>4, <1>5, <1>6

LEMMA NodeNext ==
  RegistryInv /\ [Next]_vars => Loading' /\ ServesResolved' /\ SignedNeverRefused' /\ OfflineBoots'
<1> SUFFICES ASSUME RegistryInv, [Next]_vars
             PROVE  Loading' /\ ServesResolved' /\ SignedNeverRefused' /\ OfflineBoots'
  OBVIOUS
<1>1. /\ RegistryTypeOK /\ Loading /\ ServesResolved /\ SignedNeverRefused /\ OfflineBoots
      /\ SignedFiles /\ PointerComplete
  BY DEF RegistryInv
<1>2. CASE Start
  BY <1>1, <1>2 DEF Start, Loading, ServesResolved, SignedNeverRefused, OfflineBoots, registry
<1>3. CASE Reload
  BY <1>1, <1>3 DEF Reload, Loading, ServesResolved, SignedNeverRefused, OfflineBoots, registry
<1>4. CASE Resolve
  <2>1. outcome' = "none" /\ node' = "download"
    BY <1>1, <1>4 DEF Resolve, Loading
  <2>2. fetching' \in champions /\ champions' = champions
    BY <1>1, <1>4, ChampionIsOne DEF Resolve, registry
  <2> QED BY <2>1, <2>2 DEF Loading, ServesResolved, SignedNeverRefused, OfflineBoots
<1>5. CASE Download
  <2>1. outcome' = "none" /\ node' = "load" /\ fetching' = fetching /\ fetching \in champions
        /\ upload' = upload /\ champions' = champions /\ cache' = Over(upload[fetching], cache)
    BY <1>1, <1>5 DEF Download, Loading, registry
  <2> QED BY <2>1 DEF Over, Loading, ServesResolved, SignedNeverRefused, OfflineBoots
<1>6. CASE Unreachable
  <2>1. outcome' = "failed" /\ node' \in {"off", "up"}
        /\ (node' = "off" => serving' = None)
    BY <1>6 DEF Unreachable, End
  <2>2. ASSUME serving' = None PROVE require
    <3>1. [bundle |-> 0, source |-> "file"] # None
      BY RegistryAssumption
    <3>2. ~Acceptable(0) /\ keyOf[0] = None
      BY <1>1, <1>6, <2>2, <3>1 DEF Unreachable, SignedFiles
    <3> QED BY <3>2 DEF Acceptable
  <2>3. require' = require
    BY <1>6 DEF Unreachable, config
  <2> QED BY <2>1, <2>2, <2>3 DEF Loading, ServesResolved, SignedNeverRefused, OfflineBoots
<1>7. CASE LoadCached
  <2>1. /\ node = "load" /\ fetching \in champions /\ cache.artifact = upload[fetching].artifact
        /\ upload[fetching].sig # None => cache.sig = upload[fetching].sig
        /\ UNCHANGED <<fetching, upload, champions, trusted, require>>
    BY <1>1, <1>7 DEF LoadCached, Loading, registry, config
  <2>2. node' \in {"off", "up"}
    BY <1>7 DEF LoadCached, End
  <2>3. CASE Verify(cache.sig, cache.artifact, trusted, require) # "refused"
    BY <1>7, <2>1, <2>2, <2>3
    DEF LoadCached, End, Loading, ServesResolved, SignedNeverRefused, OfflineBoots
  <2>4. CASE Verify(cache.sig, cache.artifact, trusted, require) = "refused"
    <3>1. outcome' = "refused" /\ fetching' \in champions'
      BY <1>7, <2>1, <2>4 DEF LoadCached, End
    <3>2. ASSUME NEW b \in Bundles, b = upload[fetching].artifact, keyOf[b] # None
          PROVE  ~Acceptable(b)
      <4>1. upload[fetching].sig = Envelope(b, keyOf[b])
        BY <2>1, <3>2, FetchedStays DEF AsSaved
      <4>2. Envelope(b, keyOf[b]) # None
        <5>1. keyOf[b] \in Keys /\ b \in Int
          BY <1>1, <3>2 DEF RegistryTypeOK, Bundles
        <5>2. Envelope(b, keyOf[b]) \in [digest : Int, key : Keys]
          BY <5>1 DEF Envelope
        <5> QED BY <5>2, RegistryAssumption
      <4>3. Verify(Envelope(b, keyOf[b]), b, trusted, require) = "refused"
        BY <2>1, <2>4, <3>2, <4>1, <4>2
      <4> QED BY <1>1, <3>2, <4>3, SignedVerdict
    <3>3. SignedNeverRefused'
      BY <2>1, <3>2, FetchedStays DEF SignedNeverRefused
    <3> QED BY <2>2, <3>1, <3>3 DEF Loading, ServesResolved, OfflineBoots
  <2> QED BY <2>3, <2>4
<1>8. CASE Stop
  BY <1>8 DEF Stop, Loading, ServesResolved, SignedNeverRefused, OfflineBoots
<1>9. CASE Recreate
  <2>1. node' = "off" /\ UNCHANGED <<upload, champions, keyOf, trusted, require, node, fetching, serving, outcome>>
    BY <1>9 DEF Recreate, registry, saved, config
  <2>2. Loading' /\ ServesResolved' /\ OfflineBoots'
    BY <1>1, <2>1 DEF Loading, ServesResolved, OfflineBoots
  <2>3. SignedNeverRefused'
    BY <1>1, <2>1 DEF SignedNeverRefused, Acceptable
  <2> QED BY <2>2, <2>3
<1>10. CASE UNCHANGED local
  BY <1>10, NodeUntouched
<1>11. ASSUME NEW r \in Registrars,
              (\E promote \in BOOLEAN : Begin(r, promote)) \/ Registering(r) \/ Abort(r)
       PROVE  UNCHANGED local
  BY <1>11 DEF Begin, Registering, LogArtifacts, RegisterModel, Describe, TagChampion,
     MovePointer, Abort
<1>12. ASSUME NEW key \in Keys \union {None}, Save(key) PROVE UNCHANGED local
  BY <1>12 DEF Save
<1> QED
  BY <1>2, <1>3, <1>4, <1>5, <1>6, <1>7, <1>8, <1>9, <1>10, <1>11, <1>12 DEF Next, vars

-----------------------------------------------------------------------------
(* The theorems *)

LEMMA RegistryInvInit == Init => RegistryInv
<1> SUFFICES ASSUME Init PROVE RegistryInv
  OBVIOUS
<1>1. 0 \in Bundles /\ [artifact |-> 0, sig |-> None] \in Files
  BY RegistryAssumption DEF Bundles, Files, Sigs
<1>2. RegistryTypeOK
  <2>1. dir \in Files /\ keyOf \in [Bundles -> Keys \union {None}]
        /\ last \in 0..MaxBundles /\ upload \in [Versions -> Files]
    BY <1>1, RegistryAssumption DEF Init
  <2>2. cache \in [artifact : Bundles \union {None}, sig : Sigs]
    BY DEF Init, Sigs
  <2>3. /\ step \in [Registrars -> {"idle", "upload", "register", "describe", "role", "pointer"}]
        /\ taken \in [Registrars -> Files \union {None}]
        /\ made \in [Registrars -> 1..last \union {None}]
    BY DEF Init
  <2> QED BY <2>1, <2>2, <2>3 DEF Init, RegistryTypeOK
<1>3. Progress /\ Alone /\ Undisturbed /\ Loading
  BY DEF Init, Progress, Alone, Undisturbed, Loading, HasVersion
<1>4. SignedFiles
  BY <1>1 DEF Init, SignedFiles, AsSaved
<1>5. PointerComplete /\ ServesResolved /\ SignedNeverRefused /\ OfflineBoots
  BY DEF Init, PointerComplete, ServesResolved, SignedNeverRefused, OfflineBoots
<1> QED BY <1>2, <1>3, <1>4, <1>5 DEF RegistryInv

(* A champion's way through the registry, whatever registrars and nodes    *)
(* die at: what each of them may rely on between two remote calls.         *)
THEOREM RegistryInvariant == Spec => []RegistryInv
<1>1. RegistryInv /\ [Next]_vars => RegistryInv'
  BY TypesNext, ProgressNext, AloneNext, UndisturbedNext, SignedFilesNext, NodeNext
  DEF RegistryInv
<1> QED BY <1>1, RegistryInvInit, PTL DEF Spec

(* Versions, tags, caches and what is served keep their types.             *)
THEOREM RegistryTyped == Spec => []RegistryTypeOK
<1>1. RegistryInv => RegistryTypeOK
  BY DEF RegistryInv
<1> QED BY <1>1, RegistryInvariant, PTL

(* register_model.py sets the pointer last: wherever registrars die or run *)
(* into each other, it names a version that has all its tags.              *)
THEOREM PointerIsComplete == Spec => []PointerComplete
<1>1. RegistryInv => PointerComplete
  BY DEF RegistryInv
<1> QED BY <1>1, RegistryInvariant, PTL

(* After a promotion that ran alone, a node that follows the pointer and   *)
(* one that falls back to the newest tag (registry.py:16-17) resolve the   *)
(* same version.                                                           *)
THEOREM ResolutionsAgree == Spec => []PathsAgree
<1>1. ASSUME RegistryInv PROVE PathsAgree
  <2>1. SUFFICES ASSUME settled PROVE pointer # None /\ pointer = Max(champions)
    BY DEF PathsAgree
  <2>2. last \in Nat /\ champions \subseteq 1..last
    BY <1>1, RegistryAssumption DEF RegistryInv, RegistryTypeOK
  <2>3. pointer \in champions /\ \A c \in champions : c <= pointer
    BY <1>1, <2>1 DEF RegistryInv, Undisturbed
  <2>4. pointer = Max(champions)
    BY <2>2, <2>3, NewestIs
  <2>5. pointer \in Int
    BY <2>2, <2>3
  <2> QED BY <2>4, <2>5, RegistryAssumption
<1> QED BY <1>1, RegistryInvariant, PTL

(* A load that succeeded serves the artifact of the promoted version it    *)
(* resolved, whatever the cache held and however often it was cut short.   *)
THEOREM ServesWhatItResolved == Spec => []ServesResolved
<1>1. RegistryInv => ServesResolved
  BY DEF RegistryInv
<1> QED BY <1>1, RegistryInvariant, PTL

(* A signed champion that the policy accepts is never refused for what     *)
(* earlier downloads left in the cache directory.                          *)
THEOREM SignedIsServed == Spec => []SignedNeverRefused
<1>1. RegistryInv => SignedNeverRefused
  BY DEF RegistryInv
<1> QED BY <1>1, RegistryInvariant, PTL

(* Without the registry a node boots on the bundle of its image            *)
(* (server.py:198-200), unless unsigned bundles are refused.               *)
THEOREM BootsOffline == Spec => []OfflineBoots
<1>1. RegistryInv => OfflineBoots
  BY DEF RegistryInv
<1> QED BY <1>1, RegistryInvariant, PTL
=============================================================================
