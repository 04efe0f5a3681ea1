--------------------------- MODULE ModelStoreProofs ---------------------------
(***************************************************************************)
(* The safety of ModelStore, proved for any number of writers, keys and    *)
(* saves, any trust store and either policy.                               *)
(***************************************************************************)
EXTENDS ModelStore, TLAPS

Own(b) == IF keyOf[b] = None THEN None ELSE Envelope(b, keyOf[b])

(* Bundles that do not exist yet are mentioned nowhere. *)
Begun ==
  /\ artifact <= saves
  /\ \A w \in Writers : saving[w] <= saves
  /\ sig # None => sig.digest <= saves
  /\ env # None => env.digest <= saves
  /\ serving # None => serving.bundle <= saves

(* An envelope was made with the key of the bundle it covers. *)
Genuine ==
  /\ sig # None => sig.key = keyOf[sig.digest]
  /\ env # None => env.key = keyOf[env.digest]
  /\ \A w \in Writers : step[w] = "sign" => keyOf[saving[w]] # None
  /\ rd = "hash" => env # None

(* What the sidecar learnt before it opens the artifact again. *)
Checked ==
  rd = "load" =>
    /\ status \in Statuses
    /\ ~replaced => (status = "verified" \/ require => keyOf[artifact] \in trusted)

TrustInv == StoreTypeOK /\ Begun /\ Genuine /\ Checked /\ VerifiedWasSigned

(* How far a save that overlaps no other has got. *)
Progress(w) ==
  /\ step[w] # "idle" => saving[w] = saves
  /\ step[w] = "sign" => keyOf[saves] # None
  /\ step[w] = "move" /\ keyOf[saves] # None => sig = Own(saves)
  /\ step[w] \in {"unsign", "manifest", "card"} => artifact = saves
  /\ step[w] = "unsign" => keyOf[saves] = None
  /\ step[w] \in {"manifest", "card"} => sig = Own(saves)
  /\ step[w] = "card" => manifest = saves

Alone ==
  /\ \A w \in solo : Progress(w) /\ \A o \in Writers \ {w} : step[o] = "idle"
  /\ clean => \A w \in Writers : step[w] = "idle"

(* A load with no save near it sees the files of the last one. *)
Undisturbed ==
  quiet =>
    /\ clean
    /\ rd = "read" => sig # None
    /\ rd = "hash" => env = sig
    /\ rd = "load" => status \in Statuses /\ status = Verify(sig, artifact, trusted, require)

StoreInv == StoreTypeOK /\ Alone /\ CleanSaveAgrees /\ Undisturbed /\ QuietLoadByPolicy

-----------------------------------------------------------------------------
(* What verify_artifact returns is one of its four outcomes; it verifies   *)
(* only what a trusted key covers, and accepts nothing else if signatures  *)
(* are required.                                                           *)
LEMMA VerifySound ==
  ASSUME NEW s, NEW a, NEW t, NEW r \in BOOLEAN
  PROVE  LET v == Verify(s, a, t, r)
         IN /\ v \in Statuses \union {"refused"}
            /\ v \in Statuses /\ (v = "verified" \/ r) =>
                 s # None /\ s.digest = a /\ s.key \in t
  BY DEF Verify, Statuses

(* With the bundle's own signature, or none if it has no key, it returns   *)
(* what the policy on that key says.                                       *)
LEMMA VerifyOwn ==
  ASSUME NEW a \in Bundles, keyOf[a] \in Keys \union {None}, trusted \subseteq Keys,
         require \in BOOLEAN
  PROVE  Verify(Own(a), a, trusted, require) = "refused" <=> ~Acceptable(keyOf[a])
  <1>1. CASE keyOf[a] = None
    BY <1>1 DEF Verify, Own, Acceptable
  <1>2. CASE keyOf[a] # None
    <2>1. keyOf[a] \in Keys
      BY <1>2
    <2>2. Own(a) = [digest |-> a, key |-> keyOf[a]]
      BY <1>2 DEF Own, Envelope
    <2>3. Own(a) # None
      BY <2>1, <2>2, NoneAssumption, SavesAssumption DEF Bundles
    <2>4. Own(a).digest = a /\ Own(a).key = keyOf[a]
      BY <2>2
    <2>5. keyOf[a] \in trusted => trusted # {}
      OBVIOUS
    <2> QED
      BY <1>2, <2>3, <2>4, <2>5 DEF Verify, Acceptable
  <1> QED
    BY <1>1, <1>2

-----------------------------------------------------------------------------
(* Types *)

LEMMA TypeInit == Init => StoreTypeOK
<1> SUFFICES ASSUME Init PROVE StoreTypeOK
  OBVIOUS
<1>1. 0 \in Bundles
  BY SavesAssumption DEF Bundles
<1>2. keyOf \in [Bundles -> Keys \union {None}]
  BY DEF Init
<1>3. step \in [Writers -> WriterSteps] /\ saving \in [Writers -> Bundles]
  BY <1>1 DEF Init, WriterSteps
<1> QED
  BY <1>1, <1>2, <1>3 DEF Init, StoreTypeOK

LEMMA SettledType ==
  ASSUME StoreTypeOK, NEW w \in Writers, Settled(w)
  PROVE  step' \in [Writers -> WriterSteps] /\ clean' \in BOOLEAN
<1>1. CASE saving[w] \in carries
  <2>1. Go(w, "manifest") /\ clean' = clean
    BY <1>1 DEF Settled
  <2> QED
    BY <2>1 DEF StoreTypeOK, Go, WriterSteps
<1>2. CASE saving[w] \notin carries
  <2>1. Go(w, "idle") /\ clean' = (w \in solo)
    BY <1>2, Zenon DEF Settled
  <2>2. (w \in solo) \in BOOLEAN
    OBVIOUS
  <2>3. clean' \in BOOLEAN
    BY <2>1, <2>2
  <2> QED
    BY <2>1, <2>3 DEF StoreTypeOK, Go, WriterSteps
<1> QED
  BY <1>1, <1>2

LEMMA TypeNext == StoreTypeOK /\ Genuine /\ Checked /\ [Next]_vars => StoreTypeOK'
  <1> SUFFICES ASSUME StoreTypeOK, Genuine, Checked, [Next]_vars
               PROVE  StoreTypeOK'
    OBVIOUS
  <1> USE SavesAssumption DEF StoreTypeOK
  <1>1. ASSUME NEW w \in Writers, NEW key \in Keys \union {None}, NEW m \in BOOLEAN,
               Begin(w, key, m)
        PROVE  StoreTypeOK'
    <2>1. saves + 1 \in Bundles
      BY <1>1 DEF Begin, Bundles
    <2>2. /\ saves' \in Bundles /\ saving' \in [Writers -> Bundles]
          /\ keyOf' \in [Bundles -> Keys \union {None}] /\ carries' \subseteq Bundles
      BY <1>1, <2>1 DEF Begin
    <2>3. step' \in [Writers -> WriterSteps] /\ solo' \subseteq Writers
      BY <1>1 DEF Begin, Go, WriterSteps
    <2> QED
      BY <1>1, <2>2, <2>3 DEF Begin, files, loading, config
  <1>2. ASSUME NEW w \in Writers, Sign(w)
        PROVE  StoreTypeOK'
    <2>1. sig' \in [digest : Bundles, key : Keys]
      BY <1>2 DEF Sign, Envelope, Genuine
    <2> QED
      BY <1>2, <2>1 DEF Sign, Go, WriterSteps, loading, config
  <1>3. ASSUME NEW w \in Writers, Move(w)
        PROVE  StoreTypeOK'
    <2>1. step' \in [Writers -> WriterSteps] /\ clean' \in BOOLEAN
      <3>1. CASE keyOf[saving[w]] = None
        BY <1>3, <3>1 DEF Move, Go, WriterSteps
      <3>2. CASE keyOf[saving[w]] # None
        BY <1>3, <3>2, SettledType DEF Move
      <3> QED
        BY <3>1, <3>2
    <2>2. replaced' \in BOOLEAN
      BY <1>3, Zenon DEF Move
    <2> QED
      BY <1>3, <2>1, <2>2 DEF Move, loading, config
  <1>4. ASSUME NEW w \in Writers, Unsign(w)
        PROVE  StoreTypeOK'
    <2>1. step' \in [Writers -> WriterSteps] /\ clean' \in BOOLEAN
      BY <1>4, SettledType DEF Unsign
    <2> QED
      BY <1>4, <2>1 DEF Unsign, loading, config
  <1>5. ASSUME NEW w \in Writers, WriteManifest(w)
        PROVE  StoreTypeOK'
    BY <1>5 DEF WriteManifest, Go, WriterSteps, loading, config
  <1>6. ASSUME NEW w \in Writers, WriteCard(w)
        PROVE  StoreTypeOK'
    BY <1>6 DEF WriteCard, Go, WriterSteps, loading, config
  <1>7. ASSUME NEW w \in Writers, Abort(w)
        PROVE  StoreTypeOK'
    BY <1>7 DEF Abort, Go, WriterSteps, files, loading, config
  <1>8. CASE StartLoad
    BY <1>8 DEF StartLoad, files, writing, config
  <1>9. CASE FindSig
    <2>1. Verify(None, artifact, trusted, require) \in Statuses \union {"refused"}
      BY VerifySound
    <2> QED
      BY <1>9, <2>1 DEF FindSig, Decide, files, writing, config
  <1>10. CASE ReadSig
    BY <1>10 DEF ReadSig, Decide, files, writing, config
  <1>11. CASE HashArtifact
    <2>1. Verify(env, artifact, trusted, require) \in Statuses \union {"refused"}
      BY VerifySound
    <2> QED
      BY <1>11, <2>1 DEF HashArtifact, Decide, files, writing, config
  <1>12. CASE LoadArtifact
    BY <1>12 DEF LoadArtifact, Checked, files, writing, config
  <1>13. CASE Stop
    BY <1>13 DEF Stop, files, writing, config
  <1>14. CASE UNCHANGED vars
    BY <1>14 DEF vars, files, writing, loading, config
  <1> QED
    BY <1>1, <1>2, <1>3, <1>4, <1>5, <1>6, <1>7, <1>8, <1>9, <1>10, <1>11, <1>12, <1>13, <1>14
    DEF Next, Saving, Reading

-----------------------------------------------------------------------------
(* Signatures *)

LEMMA TrustInit == Init => TrustInv
<1> SUFFICES ASSUME Init PROVE TrustInv
  OBVIOUS
<1>1. StoreTypeOK
  BY TypeInit
<1>2. Begun /\ Genuine /\ Checked /\ VerifiedWasSigned
  BY DEF Init, Begun, Genuine, Checked, VerifiedWasSigned
<1> QED
  BY <1>1, <1>2 DEF TrustInv

(* A new bundle gets its key; those that exist keep theirs. *)
LEMMA KeysStay ==
  ASSUME TrustInv, NEW w \in Writers, NEW key \in Keys \union {None}, NEW m \in BOOLEAN,
         Begin(w, key, m)
  PROVE  /\ saves \in Int /\ saves' = saves + 1 /\ saves + 1 \in Bundles
         /\ keyOf'[saves + 1] = key
         /\ \A b \in Bundles : b <= saves => keyOf'[b] = keyOf[b]
<1>1. saves \in Int /\ saves' = saves + 1 /\ saves + 1 \in Bundles
  BY SavesAssumption DEF Begin, TrustInv, StoreTypeOK, Bundles
<1>2. keyOf' = [keyOf EXCEPT ![saves + 1] = key] /\ keyOf \in [Bundles -> Keys \union {None}]
  BY DEF Begin, TrustInv, StoreTypeOK
<1>3. \A b \in Bundles : b <= saves => b # saves + 1
  BY <1>1 DEF Bundles
<1> QED
  BY <1>1, <1>2, <1>3

LEMMA TrustBegin ==
  ASSUME TrustInv, NEW w \in Writers, NEW key \in Keys \union {None}, NEW m \in BOOLEAN,
         Begin(w, key, m)
  PROVE  Begun' /\ Genuine' /\ Checked' /\ VerifiedWasSigned'
<1> USE DEF TrustInv
<1>1. UNCHANGED <<files, loading, config, replaced>>
  BY DEF Begin
<1>2. UNCHANGED <<artifact, sig, rd, env, status, serving, trusted, require, replaced>>
  BY <1>1 DEF files, loading, config
<1>3. /\ step' = [step EXCEPT ![w] = IF key = None THEN "move" ELSE "sign"]
      /\ saving' = [saving EXCEPT ![w] = saves + 1]
  BY DEF Begin, Go
<1>4. Begun'
  <2>1. \A b \in Bundles : b <= saves => b <= saves'
    BY KeysStay DEF Bundles
  <2>2. saves + 1 <= saves'
    BY KeysStay
  <2>3. ASSUME NEW o \in Writers
        PROVE  saving'[o] <= saves'
    BY <1>3, <2>1, <2>2 DEF Begun, StoreTypeOK
  <2> QED
    BY <1>2, <2>1, <2>3 DEF Begun, StoreTypeOK
<1>5. Genuine'
  <2>1. sig # None => sig.digest \in Bundles /\ sig.digest <= saves /\ sig.key = keyOf[sig.digest]
    BY DEF StoreTypeOK, Begun, Genuine
  <2>2. env # None => env.digest \in Bundles /\ env.digest <= saves /\ env.key = keyOf[env.digest]
    BY DEF StoreTypeOK, Begun, Genuine
  <2>3. ASSUME NEW o \in Writers, step'[o] = "sign"
        PROVE  keyOf'[saving'[o]] # None
    <3>1. CASE o = w
      BY <1>3, <2>3, <3>1, KeysStay DEF StoreTypeOK
    <3>2. CASE o # w
      BY <1>3, <2>3, <3>2, KeysStay DEF StoreTypeOK, Genuine, Begun
    <3> QED
      BY <3>1, <3>2
  <2> QED
    BY <1>2, <2>1, <2>2, <2>3, KeysStay DEF Genuine
<1>6. Checked' /\ VerifiedWasSigned'
  BY <1>2, KeysStay DEF Checked, VerifiedWasSigned, StoreTypeOK, Begun
<1> QED
  BY <1>4, <1>5, <1>6

(* The steps of a save after its first one. *)
LEMMA TrustSaving ==
  ASSUME TrustInv, NEW w \in Writers, Saving(w) \/ Abort(w)
  PROVE  Begun' /\ Genuine' /\ Checked' /\ VerifiedWasSigned'
<1> USE DEF TrustInv
<1>1. /\ UNCHANGED <<saving, saves, keyOf, rd, env, status, serving, trusted, require>>
      /\ \E to \in WriterSteps \ {"sign"} : step' = [step EXCEPT ![w] = to]
  BY DEF Saving, Abort, Sign, Move, Unsign, WriteManifest, WriteCard, Settled, Go, WriterSteps,
         files, loading, config
<1>2. \/ sig' = sig
      \/ sig' = None
      \/ step[w] = "sign" /\ sig' = Envelope(saving[w], keyOf[saving[w]])
  BY DEF Saving, Abort, Sign, Move, Unsign, WriteManifest, WriteCard, files
<1>3. \/ artifact' = artifact /\ replaced' = replaced
      \/ artifact' = saving[w] /\ (rd = "load" => replaced')
  BY DEF Saving, Abort, Sign, Move, Unsign, WriteManifest, WriteCard, files
<1>4. Begun'
  BY <1>1, <1>2, <1>3 DEF Begun, Envelope
<1>5. Genuine'
  BY <1>1, <1>2 DEF Genuine, Envelope, StoreTypeOK
<1>6. Checked' /\ VerifiedWasSigned'
  BY <1>1, <1>3 DEF Checked, VerifiedWasSigned
<1> QED
  BY <1>4, <1>5, <1>6

(* The steps of the sidecar. *)
LEMMA TrustReading ==
  ASSUME TrustInv, StartLoad \/ Reading \/ Stop
  PROVE  Begun' /\ Genuine' /\ Checked' /\ VerifiedWasSigned'
<1> USE DEF TrustInv
<1>1. UNCHANGED <<artifact, sig, step, saving, saves, keyOf, trusted, require>>
  BY DEF StartLoad, Reading, FindSig, ReadSig, HashArtifact, LoadArtifact, Stop, files, writing, config
<1>2. CASE StartLoad \/ Stop
  BY <1>1, <1>2 DEF StartLoad, Stop, Begun, Genuine, Checked, VerifiedWasSigned
<1>3. CASE FindSig
  <2>1. \A v \in {Verify(None, artifact, trusted, require)} :
           v \in Statuses => v # "verified" /\ ~require
    BY VerifySound DEF StoreTypeOK
  <2>2. Verify(None, artifact, trusted, require) \in Statuses \union {"refused"}
    BY VerifySound DEF StoreTypeOK
  <2> QED
    BY <1>1, <1>3, <2>1, <2>2 DEF FindSig, Decide, Begun, Genuine, Checked, VerifiedWasSigned
<1>4. CASE ReadSig
  BY <1>1, <1>4 DEF ReadSig, Decide, Begun, Genuine, Checked, VerifiedWasSigned
<1>5. CASE HashArtifact
  <2> DEFINE v == Verify(env, artifact, trusted, require)
  <2>1. /\ v \in Statuses \union {"refused"}
        /\ v \in Statuses /\ (v = "verified" \/ require) =>
             env # None /\ env.digest = artifact /\ env.key \in trusted
    BY VerifySound DEF StoreTypeOK
  <2>2. status' = v /\ rd' \in {"idle", "load"} /\ (rd' = "load" => v # "refused")
    BY <1>5 DEF HashArtifact, Decide
  <2>3. UNCHANGED <<env, serving>>
    BY <1>5 DEF HashArtifact
  <2> HIDE DEF v
  <2>4. v \in Statuses /\ (v = "verified" \/ require) => keyOf[artifact] \in trusted
    BY <2>1 DEF Genuine
  <2> QED
    BY <1>1, <2>1, <2>2, <2>3, <2>4 DEF Begun, Genuine, Checked, VerifiedWasSigned
<1>6. CASE LoadArtifact
  BY <1>1, <1>6 DEF LoadArtifact, Begun, Genuine, Checked, VerifiedWasSigned
<1> QED
  BY <1>2, <1>3, <1>4, <1>5, <1>6 DEF Reading

LEMMA TrustNext == TrustInv /\ [Next]_vars => TrustInv'
<1> SUFFICES ASSUME TrustInv, [Next]_vars
             PROVE  TrustInv'
  OBVIOUS
<1>1. StoreTypeOK'
  BY TypeNext DEF TrustInv
<1>2. Begun' /\ Genuine' /\ Checked' /\ VerifiedWasSigned'
  <2>1. CASE Next
    BY <2>1, TrustBegin, TrustSaving, TrustReading DEF Next
  <2>2. CASE UNCHANGED vars
    BY <2>2 DEF vars, files, writing, loading, config, TrustInv, Begun, Genuine, Checked, VerifiedWasSigned
  <2> QED
    BY <2>1, <2>2
<1> QED
  BY <1>1, <1>2 DEF TrustInv

(* A sidecar that reports its model as verified, or that requires          *)
(* signatures, serves a bundle signed with a key it trusts, unless the     *)
(* file was replaced between the check and the load: for any writers,      *)
(* overlapping or killed at any step (manifest.py:183-237,                 *)
(* signing.py:260-332, server.py:148-170).                                 *)
THEOREM SignatureHonest == Spec => []VerifiedWasSigned
<1>1. TrustInv => VerifiedWasSigned
  BY DEF TrustInv
<1> QED
  BY TrustInit, TrustNext, <1>1, PTL DEF Spec
-----------------------------------------------------------------------------
(* The files after a save that overlaps no other *)

LEMMA StoreInit == Init => Alone /\ CleanSaveAgrees /\ Undisturbed /\ QuietLoadByPolicy
<1> SUFFICES ASSUME Init
             PROVE  Alone /\ CleanSaveAgrees /\ Undisturbed /\ QuietLoadByPolicy
  OBVIOUS
<1>1. 0 \in Bundles
  BY SavesAssumption DEF Bundles
<1> QED
  BY <1>1 DEF Init, Alone, CleanSaveAgrees, Undisturbed, QuietLoadByPolicy

LEMMA StoreBegin ==
  ASSUME StoreInv, NEW w \in Writers, NEW key \in Keys \union {None}, NEW m \in BOOLEAN,
         Begin(w, key, m)
  PROVE  Alone' /\ CleanSaveAgrees' /\ Undisturbed' /\ QuietLoadByPolicy'
<1>1. /\ saves' = saves + 1 /\ ~clean' /\ ~quiet'
      /\ step' = [step EXCEPT ![w] = IF key = None THEN "move" ELSE "sign"]
      /\ saving' = [saving EXCEPT ![w] = saves + 1]
  BY DEF Begin, Go
<1>2. keyOf'[saves'] = key
  BY <1>1, SavesAssumption DEF Begin, StoreInv, StoreTypeOK, Bundles
<1>3. /\ step'[w] = IF key = None THEN "move" ELSE "sign"
      /\ saving'[w] = saves'
      /\ \A o \in Writers \ {w} : step'[o] = step[o]
  BY <1>1 DEF StoreInv, StoreTypeOK
<1>4. Progress(w)'
  BY <1>2, <1>3 DEF Progress
<1>5. Alone'
  BY <1>1, <1>3, <1>4 DEF Begin, Alone
<1> QED
  BY <1>1, <1>5 DEF CleanSaveAgrees, Undisturbed, QuietLoadByPolicy

(* The end of a save, or what comes after the signature, for the writer    *)
(* that is alone.                                                          *)
LEMMA SettledAlone ==
  ASSUME StoreInv, NEW w \in solo, Settled(w), saving[w] = saves,
         artifact' = saves, sig' = Own(saves),
         UNCHANGED <<saving, saves, keyOf, carries, solo>>
  PROVE  Progress(w)' /\ (clean' => clean \/ (step'[w] = "idle" /\ CleanSaveAgrees'))
<1> USE DEF StoreInv
<1>1. w \in Writers /\ saves' = saves /\ keyOf' = keyOf /\ saving' = saving /\ carries' = carries
  BY DEF StoreTypeOK
<1>2. sig' = Own(saves)' /\ artifact' = saves'
  BY <1>1 DEF Own
<1>3. CASE saving[w] \in carries
  <2>1. step'[w] = "manifest" /\ clean' = clean
    BY <1>1, <1>3 DEF Settled, Go, StoreTypeOK
  <2> QED
    BY <1>1, <1>2, <2>1 DEF Progress
<1>4. CASE saving[w] \notin carries
  <2>1. step'[w] = "idle"
    BY <1>1, <1>4 DEF Settled, Go, StoreTypeOK
  <2>2. CleanSaveAgrees'
    BY <1>1, <1>2, <1>4 DEF CleanSaveAgrees, Own
  <2> QED
    BY <2>1, <2>2 DEF Progress
<1> QED
  BY <1>3, <1>4

(* One step of a save that no other overlaps. *)
LEMMA ProgressSaving ==
  ASSUME StoreInv, NEW w \in solo, Saving(w) \/ Abort(w)
  PROVE  Progress(w)' /\ (clean' => clean \/ (step'[w] = "idle" /\ CleanSaveAgrees'))
<1> USE DEF StoreInv
<1>1. w \in Writers /\ Progress(w)
  BY DEF StoreTypeOK, Alone
<1>2. UNCHANGED <<saving, saves, keyOf, carries, solo>> /\ step[w] # "idle" /\ saving[w] = saves
  BY <1>1 DEF Saving, Abort, Sign, Move, Unsign, WriteManifest, WriteCard, Progress
<1>3. Own(saves)' = Own(saves)
  BY <1>2 DEF Own
<1>4. CASE Sign(w)
  <2>1. step'[w] = "move" /\ clean' = clean /\ sig' = Envelope(saves, keyOf[saves])
    BY <1>1, <1>2, <1>4 DEF Sign, Go, StoreTypeOK
  <2>2. keyOf[saves] # None
    BY <1>1, <1>4 DEF Sign, Progress
  <2>3. sig' = Own(saves)
    BY <2>1, <2>2 DEF Own
  <2> QED
    BY <1>2, <1>3, <2>1, <2>3 DEF Progress
<1>5. CASE Move(w)
  <2>1. artifact' = saves /\ sig' = sig /\ step[w] = "move"
    BY <1>2, <1>5 DEF Move
  <2>2. CASE keyOf[saves] = None
    <3>1. step'[w] = "unsign" /\ clean' = clean
      BY <1>1, <1>2, <1>5, <2>2 DEF Move, Go, StoreTypeOK
    <3> QED
      BY <1>2, <2>1, <2>2, <3>1 DEF Progress
  <2>3. CASE keyOf[saves] # None
    <3>1. Settled(w)
      BY <1>2, <1>5, <2>3 DEF Move
    <3>2. sig' = Own(saves)
      BY <1>1, <2>1, <2>3 DEF Progress
    <3> QED
      BY <1>2, <2>1, <3>1, <3>2, SettledAlone
  <2> QED
    BY <2>2, <2>3
<1>6. CASE Unsign(w)
  <2>1. artifact' = saves /\ sig' = Own(saves) /\ Settled(w)
    BY <1>1, <1>6 DEF Unsign, Progress, Own
  <2> QED
    BY <1>2, <2>1, SettledAlone
<1>7. CASE WriteManifest(w)
  <2>1. /\ step'[w] = "card" /\ clean' = clean /\ artifact' = artifact /\ sig' = sig
        /\ manifest' = saves /\ artifact = saves /\ sig = Own(saves)
    BY <1>1, <1>2, <1>7 DEF WriteManifest, Go, Progress, StoreTypeOK
  <2> QED
    BY <1>2, <1>3, <2>1 DEF Progress
<1>8. CASE WriteCard(w)
  <2>1. /\ step'[w] = "idle" /\ artifact' = artifact /\ sig' = sig /\ manifest' = manifest
        /\ card' = saves /\ manifest = saves /\ artifact = saves /\ sig = Own(saves)
    BY <1>1, <1>2, <1>8 DEF WriteCard, Go, Progress, StoreTypeOK
  <2>2. CleanSaveAgrees'
    BY <1>2, <1>3, <2>1 DEF CleanSaveAgrees, Own
  <2> QED
    BY <2>1, <2>2 DEF Progress
<1>9. CASE Abort(w)
  <2>1. step'[w] = "idle" /\ clean' = clean
    BY <1>1, <1>9 DEF Abort, Go, StoreTypeOK
  <2> QED
    BY <2>1 DEF Progress
<1> QED
  BY <1>4, <1>5, <1>6, <1>7, <1>8, <1>9 DEF Saving

LEMMA StoreSaving ==
  ASSUME StoreInv, NEW w \in Writers, Saving(w) \/ Abort(w)
  PROVE  Alone' /\ CleanSaveAgrees' /\ Undisturbed' /\ QuietLoadByPolicy'
<1> USE DEF StoreInv
<1>1. step[w] # "idle" /\ UNCHANGED <<solo, quiet>>
  BY DEF Saving, Abort, Sign, Move, Unsign, WriteManifest, WriteCard
<1>2. ~clean /\ ~quiet'
  BY <1>1 DEF Alone, Undisturbed
<1>3. \A o \in Writers \ {w} : step'[o] = step[o]
  BY DEF Saving, Abort, Sign, Move, Unsign, WriteManifest, WriteCard, Settled, Go, StoreTypeOK
<1>4. \A o \in solo : o = w
  BY <1>1 DEF Alone, StoreTypeOK
<1>5. clean' => w \in solo
  BY <1>2 DEF Saving, Abort, Sign, Move, Unsign, WriteManifest, WriteCard, Settled
<1>6. w \in solo => /\ Progress(w)' /\ (clean' => step'[w] = "idle" /\ CleanSaveAgrees')
                    /\ \A o \in Writers \ {w} : step'[o] = "idle"
  BY <1>2, <1>3, ProgressSaving DEF Alone
<1>7. Alone'
  BY <1>1, <1>4, <1>5, <1>6 DEF Alone
<1>8. CleanSaveAgrees'
  BY <1>5, <1>6 DEF CleanSaveAgrees
<1> QED
  BY <1>2, <1>7, <1>8 DEF Undisturbed, QuietLoadByPolicy

LEMMA StoreReading ==
  ASSUME StoreInv, StartLoad \/ Reading \/ Stop
  PROVE  Alone' /\ CleanSaveAgrees' /\ Undisturbed' /\ QuietLoadByPolicy'
<1> USE DEF StoreInv
<1>1. UNCHANGED <<artifact, sig, manifest, card, step, saving, saves, keyOf, carries, solo, clean,
                  trusted, require>>
  BY DEF StartLoad, Reading, FindSig, ReadSig, HashArtifact, LoadArtifact, Stop, files, writing, config
<1>2. Alone' /\ CleanSaveAgrees'
  BY <1>1 DEF Alone, Progress, Own, CleanSaveAgrees
<1>3. Verify(sig, artifact, trusted, require)' = Verify(sig, artifact, trusted, require)
  BY <1>1
<1>4. clean => /\ artifact = saves
               /\ Verify(sig, artifact, trusted, require) = "refused" <=> ~Acceptable(keyOf[saves])
               /\ Acceptable(keyOf[saves])' = Acceptable(keyOf[saves])
  <2>1. clean => artifact = saves /\ sig = Own(saves)
    BY DEF CleanSaveAgrees, Own
  <2>2. Verify(Own(saves), saves, trusted, require) = "refused" <=> ~Acceptable(keyOf[saves])
    BY VerifyOwn DEF StoreTypeOK
  <2> QED
    BY <1>1, <2>1, <2>2 DEF Acceptable
<1>5. Verify(sig, artifact, trusted, require) \in Statuses \union {"refused"}
  BY VerifySound DEF StoreTypeOK
<1>6. CASE StartLoad
  BY <1>1, <1>2, <1>6 DEF StartLoad, Undisturbed, QuietLoadByPolicy
<1>7. CASE FindSig
  BY <1>1, <1>2, <1>3, <1>4, <1>5, <1>7 DEF FindSig, Decide, Undisturbed, QuietLoadByPolicy, Statuses
<1>8. CASE ReadSig
  BY <1>1, <1>2, <1>3, <1>8 DEF ReadSig, Decide, Undisturbed, QuietLoadByPolicy
<1>9. CASE HashArtifact
  BY <1>1, <1>2, <1>3, <1>4, <1>5, <1>9 DEF HashArtifact, Decide, Undisturbed, QuietLoadByPolicy, Statuses
<1>10. CASE LoadArtifact
  BY <1>1, <1>2, <1>3, <1>4, <1>5, <1>10 DEF LoadArtifact, Undisturbed, QuietLoadByPolicy, Statuses
<1>11. CASE Stop
  BY <1>1, <1>2, <1>11, NoneAssumption DEF Stop, Undisturbed, QuietLoadByPolicy
<1> QED
  BY <1>6, <1>7, <1>8, <1>9, <1>10, <1>11 DEF Reading

LEMMA StoreNext ==
  StoreInv /\ [Next]_vars => Alone' /\ CleanSaveAgrees' /\ Undisturbed' /\ QuietLoadByPolicy'
<1> SUFFICES ASSUME StoreInv, [Next]_vars
             PROVE  Alone' /\ CleanSaveAgrees' /\ Undisturbed' /\ QuietLoadByPolicy'
  OBVIOUS
<1>1. CASE Next
  BY <1>1, StoreBegin, StoreSaving, StoreReading DEF Next
<1>2. CASE UNCHANGED vars
  BY <1>2 DEF vars, files, writing, loading, config, StoreInv, Alone, Progress, Own, Acceptable,
              CleanSaveAgrees, Undisturbed, QuietLoadByPolicy, Verify
<1> QED
  BY <1>1, <1>2

LEMMA Invariant == Spec => [](TrustInv /\ StoreInv)
<1>1. Init => TrustInv /\ StoreInv
  BY TrustInit, StoreInit DEF TrustInv, StoreInv
<1>2. (TrustInv /\ StoreInv) /\ [Next]_vars => (TrustInv /\ StoreInv)'
  BY TrustNext, StoreNext DEF TrustInv, StoreInv
<1> QED
  BY <1>1, <1>2, PTL DEF Spec

(* Every state is well typed: a serving model has one of the three         *)
(* statuses that verify_artifact returns (signing.py:260-332).             *)
THEOREM StoreTyped == Spec => []StoreTypeOK
<1>1. StoreInv => StoreTypeOK
  BY DEF StoreInv
<1> QED
  BY Invariant, <1>1, PTL

(* The last save, if it ended and overlapped no other, left an artifact,   *)
(* a signature, a manifest and a card that belong together, whatever       *)
(* crashes and overlapping saves left before it (manifest.py:210-237).     *)
THEOREM StoreConsistent == Spec => []CleanSaveAgrees
<1>1. StoreInv => CleanSaveAgrees
  BY DEF StoreInv
<1> QED
  BY Invariant, <1>1, PTL

(* A load with no save near it is decided by the policy on the saved       *)
(* bundle alone, and serves it if the policy accepts it.                   *)
THEOREM LoadByPolicy == Spec => []QuietLoadByPolicy
<1>1. StoreInv => QuietLoadByPolicy
  BY DEF StoreInv
<1> QED
  BY Invariant, <1>1, PTL

(* A signed artifact never takes its place under an older signature, in a  *)
(* save that overlaps no other (manifest.py:189-194).                      *)
THEOREM SignatureFirst == Spec => SignedBeforeMoved
<1> DEFINE A == \A w \in solo :
                  artifact' = saving[w] /\ artifact' # artifact /\ keyOf[saving[w]] # None
                    => sig = Envelope(saving[w], keyOf[saving[w]])
<1>1. StoreInv /\ [Next]_vars => A
  <2> SUFFICES ASSUME StoreInv, [Next]_vars, artifact' # artifact,
                      NEW w \in solo, keyOf[saving[w]] # None
               PROVE  sig = Envelope(saving[w], keyOf[saving[w]])
    OBVIOUS
  <2>1. PICK o \in Writers : Move(o)
    BY DEF Next, Saving, Reading, Begin, Sign, Unsign, WriteManifest, WriteCard, Abort,
           StartLoad, FindSig, ReadSig, HashArtifact, LoadArtifact, Stop, vars, files
  <2>2. o = w /\ step[w] = "move" /\ Progress(w)
    BY <2>1 DEF StoreInv, Alone, Move
  <2> QED
    BY <2>2 DEF Progress, Own
<1> QED
  BY Invariant, <1>1, PTL DEF Spec, SignedBeforeMoved
=============================================================================
