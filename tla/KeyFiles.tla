------------------------------- MODULE KeyFiles -------------------------------
(***************************************************************************)
(* The signing tool (ml/signing.py keygen, sign, verify) and the files it  *)
(* shares between runs: the private key, its public half beside it, and a  *)
(* trust file to which the operator concatenates public keys.  The runs    *)
(* are separate processes without a lock, and any of them may die between  *)
(* two steps.                                                              *)
(*                                                                         *)
(* A key is a number, its key id.  A file is the set of its PEM blocks.    *)
(* The artifact stays the same here; ModelStore is about saves.            *)
(***************************************************************************)
EXTENDS Integers, Signing

CONSTANTS
  Keygens,      (* keygen processes                                        *)
  MaxKeys,      (* keys ever generated, the first one included             *)
  SigningError  (* the exception                                           *)

ASSUME KeyFilesAssumption ==
  /\ MaxKeys \in Nat \ {0}
  /\ {None, SigningError} \cap Nat = {} /\ None # SigningError
  /\ None \notin [digest : Nat, key : Nat]

VARIABLES
  file,         (* the private, the public and the trust file              *)
  generated,    (* keys generated so far                                   *)
  keygen,       (* per process: where it is, its key, and whether it is    *)
                (* the only one (history)                                  *)
  signer,       (* the sign command: where it is, its key, and whether it  *)
                (* has its turn in the rotation (history)                  *)
  signature,    (* the artifact's envelope                                 *)
  verifier,     (* the verify command, its trust store, its outcome, and   *)
                (* whether it must succeed (history)                       *)
  phase         (* history: where the operator is in a rotation            *)

keyVars == <<file, generated, keygen, signer, signature, verifier, phase>>

TheArtifact == 0
KeySources == {"unset", "private", "public", "trusted"}

Private(k) == [kind |-> "private", key |-> k]
Public(k) == [kind |-> "public", key |-> k]

(* _pem_bytes raises for a file that is not there: neither loader takes it. *)
Absent == {[kind |-> "absent", key |-> 0]}

NotRun == [at |-> "idle", key |-> None, alone |-> FALSE]
NotSigning == [at |-> "idle", key |-> None, inTurn |-> FALSE]
NotVerifying ==
  [at |-> "idle", source |-> "unset", require |-> FALSE, store |-> {}, onTrack |-> FALSE,
   result |-> None]

KeyIds == 1..MaxKeys
PrivateFiles == SUBSET {Private(k) : k \in KeyIds}
PublicFiles == SUBSET {Public(k) : k \in KeyIds}

KeygenRuns == [at : {"idle", "open", "private", "openPublic", "public"},
               key : KeyIds \union {None}, alone : BOOLEAN]
VerifyRuns == [at : {"idle", "read", "done"}, source : KeySources, require : BOOLEAN,
               store : SUBSET KeyIds, onTrack : BOOLEAN,
               result : {"verified", "unverifiable", "refused", "error", None}]

KeyTypeOK ==
  /\ file \in [private : PrivateFiles \union {Absent}, public : PublicFiles \union {Absent},
              trusted : PublicFiles \union {Absent}]
  /\ generated \in KeyIds
  /\ keygen \in [Keygens -> KeygenRuns]
  /\ signer \in [at : {"idle", "write"}, key : KeyIds \union {None}, inTurn : BOOLEAN]
  /\ signature \in [digest : {TheArtifact}, key : KeyIds]
  /\ verifier \in VerifyRuns
  /\ phase \in {"steady", "generated", "both", "resigned", "off"}

(* The artifact is signed with the one key there is, and that is trusted.  *)
KeyInit ==
  /\ file = [private |-> {Private(1)}, public |-> {Public(1)}, trusted |-> {Public(1)}]
  /\ generated = 1
  /\ keygen = [g \in Keygens |-> NotRun]
  /\ signer = NotSigning /\ verifier = NotVerifying
  /\ signature = Envelope(TheArtifact, 1)
  /\ phase = "steady"

-----------------------------------------------------------------------------
(* Loading keys.  The source is "unset" or one of the files. *)

(* No source means no key; everything that is not one private key is an    *)
(* error.                                                                  *)
load_private_key(source) ==
  IF source = "unset" THEN None
  ELSE IF \E k \in KeyIds : file[source] = {Private(k)}
  THEN CHOOSE k \in KeyIds : file[source] = {Private(k)}
  ELSE SigningError

(* load_trusted_keys raises: no block, or one that is no public key. *)
TrustRefused(source) ==
  source # "unset" /\
    (file[source] = {} \/ \E b \in file[source] : b.kind # "public")

(* No source means an empty trust store. *)
load_trusted_keys(source) ==
  IF source = "unset" THEN {} ELSE {b.key : b \in file[source]}

-----------------------------------------------------------------------------
(* _cmd_keygen *)

Running == {g \in Keygens : keygen[g].at # "idle"}

(* Without --force it returns if the private file exists. *)
KeygenStart(g, force) ==
  /\ g \notin Running /\ generated < MaxKeys
  /\ file.private = Absent \/ force
  /\ generated' = generated + 1
  /\ keygen' = [o \in Keygens |->
       IF o = g THEN [at |-> "open", key |-> generated + 1, alone |-> Running = {}]
       ELSE [keygen[o] EXCEPT !.alone = FALSE]]
  /\ UNCHANGED <<file, signer, signature, verifier, phase>>

GoOn(g, to) == keygen' = [keygen EXCEPT ![g].at = to]

(* os.open with O_TRUNC.  Up to the sign command of a rotation a new pair  *)
(* only takes the operator back to its start.                              *)
KeygenOpen(g) ==
  /\ keygen[g].at = "open"
  /\ file' = [file EXCEPT !.private = {}]
  /\ GoOn(g, "private")
  /\ phase' = IF phase \in {"steady", "generated"} THEN "steady" ELSE "off"
  /\ UNCHANGED <<generated, signer, signature, verifier>>

KeygenPrivate(g) ==
  /\ keygen[g].at = "private"
  /\ file' = [file EXCEPT !.private = {Private(keygen[g].key)}]
  /\ GoOn(g, "openPublic")
  /\ UNCHANGED <<generated, signer, signature, verifier, phase>>

(* Mutated form: a public file that exists is left alone, like the private *)
(* one.                                                                    *)
KeygenOpenPublic_KeepsExisting(g) ==
  /\ keygen[g].at = "openPublic" /\ file.public # Absent
  /\ keygen' = [keygen EXCEPT ![g] = NotRun]
  /\ phase' = IF phase = "steady" /\ keygen[g].alone THEN "generated" ELSE phase
  /\ UNCHANGED <<file, generated, signer, signature, verifier>>

(* write_bytes truncates before it writes, too. *)
KeygenOpenPublic(g) ==
  /\ keygen[g].at = "openPublic"
  /\ file' = [file EXCEPT !.public = {}]
  /\ GoOn(g, "public")
  /\ UNCHANGED <<generated, signer, signature, verifier, phase>>

(* The end of the command.  Both files are of one pair if nobody else was  *)
(* at it meanwhile.                                                        *)
KeygenPublic(g) ==
  /\ keygen[g].at = "public"
  /\ file' = [file EXCEPT !.public = {Public(keygen[g].key)}]
  /\ keygen' = [keygen EXCEPT ![g] = NotRun]
  /\ phase' = IF phase = "steady" /\ keygen[g].alone THEN "generated" ELSE phase
  /\ UNCHANGED <<generated, signer, signature, verifier>>

KeygenDies(g) ==
  /\ g \in Running
  /\ keygen' = [keygen EXCEPT ![g] = NotRun]
  /\ UNCHANGED <<file, generated, signer, signature, verifier, phase>>

-----------------------------------------------------------------------------
(* The operator: trust the new key alongside the old one, re-sign, then    *)
(* drop the old (signing.py:36-38).                                        *)

TrustToo ==
  /\ Absent \notin {file.public, file.trusted}
  /\ file' = [file EXCEPT !.trusted = @ \union file.public]
  /\ phase' = IF phase = "generated" THEN "both" ELSE phase
  /\ UNCHANGED <<generated, keygen, signer, signature, verifier>>

DropOld ==
  /\ file.public # Absent
  /\ file' = [file EXCEPT !.trusted = file.public]
  /\ phase' = IF phase = "resigned" THEN "steady" ELSE "off"
  /\ UNCHANGED <<generated, keygen, signer, signature, verifier>>

(* A file may be moved away; the private key is kept elsewhere once used. *)
PutAway(f) ==
  /\ Running = {} /\ file[f] # Absent
  /\ file' = [file EXCEPT ![f] = Absent]
  /\ phase' = IF f = "private" /\ phase \in {"steady", "resigned"} THEN phase ELSE "off"
  /\ UNCHANGED <<generated, keygen, signer, signature, verifier>>

-----------------------------------------------------------------------------
(* _cmd_sign.  Without a key, or with a broken one, it ends there. *)

SignLoad(source) ==
  /\ signer.at = "idle"
  /\ load_private_key(source) \notin {None, SigningError}
  /\ signer' = [at |-> "write", key |-> load_private_key(source), inTurn |-> phase = "both"]
  /\ UNCHANGED <<file, generated, keygen, signature, verifier, phase>>

(* sign_artifact replaces the envelope in one step.  A verify command that *)
(* loaded its keys before cannot be held to the new one.                   *)
SignWrite ==
  /\ signer.at = "write"
  /\ signature' = Envelope(TheArtifact, signer.key)
  /\ signer' = NotSigning
  /\ phase' = IF signer.inTurn /\ phase = "both" THEN "resigned" ELSE "off"
  /\ verifier' = [verifier EXCEPT !.onTrack = @ /\ verifier.at = "done"]
  /\ UNCHANGED <<file, generated, keygen>>

SignDies ==
  /\ signer.at = "write" /\ signer' = NotSigning
  /\ UNCHANGED <<file, generated, keygen, signature, verifier, phase>>

-----------------------------------------------------------------------------
(* _cmd_verify *)

VerifyRefuses(source) ==
  /\ verifier.at # "read" /\ TrustRefused(source)
  /\ verifier' = [NotVerifying EXCEPT !.at = "done", !.source = source, !.result = "error",
                                      !.onTrack = source = "trusted" /\ phase # "off"]
  /\ UNCHANGED <<file, generated, keygen, signer, signature, phase>>

VerifyLoad(source, require) ==
  /\ verifier.at # "read" /\ ~TrustRefused(source)
  /\ verifier' = [at |-> "read", source |-> source, require |-> require,
                  store |-> load_trusted_keys(source), result |-> None,
                  onTrack |-> source = "trusted" /\ phase # "off"]
  /\ UNCHANGED <<file, generated, keygen, signer, signature, phase>>

VerifyRead ==
  /\ verifier.at = "read"
  /\ verifier' = [NotVerifying EXCEPT !.at = "done", !.source = verifier.source,
       !.onTrack = verifier.onTrack /\ phase # "off",
       !.result = Verify(signature, TheArtifact, verifier.store, verifier.require)]
  /\ UNCHANGED <<file, generated, keygen, signer, signature, phase>>

(* What the process returns for an outcome. *)
ExitCode(result) == CASE result = "error" -> 2 [] result = "refused" -> 1 [] OTHER -> 0

KeyNext ==
  \/ \E g \in Keygens :
       \/ \E force \in BOOLEAN : KeygenStart(g, force)
       \/ KeygenOpen(g) \/ KeygenPrivate(g) \/ KeygenOpenPublic(g) \/ KeygenPublic(g)
       \/ KeygenDies(g)
  \/ TrustToo
  \/ DropOld
  \/ \E f \in {"private", "public", "trusted"} : PutAway(f)
  \/ \E source \in KeySources :
       \/ SignLoad(source)
       \/ VerifyRefuses(source)
       \/ \E require \in BOOLEAN : VerifyLoad(source, require)
  \/ SignWrite
  \/ SignDies
  \/ VerifyRead

KeySpec == KeyInit /\ [][KeyNext]_keyVars

-----------------------------------------------------------------------------
(* Properties *)

(* In a rotation done in the documented order every verification against   *)
(* the trust file says verified, however many keygen runs died, overlapped *)
(* or were repeated before the new key was trusted; and whatever the order,*)
(* a trust file that is missing, empty or of the wrong kind never lets the *)
(* command succeed as if no trust store were configured                    *)
(* (signing.py:36-38, 173-200).                                            *)
RotationServes ==
  verifier.at = "done" =>
    /\ verifier.onTrack => verifier.result = "verified"
    /\ verifier.source # "unset" /\ ExitCode(verifier.result) = 0 => verifier.result = "verified"
=============================================================================
