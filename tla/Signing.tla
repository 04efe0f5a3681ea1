-------------------------------- MODULE Signing --------------------------------
(***************************************************************************)
(* What signing.py decides about an artifact and the signature beside it.  *)
(* An artifact is an identity, and so its digest; an envelope names the    *)
(* digest it covers and the key it was made with.  A forged or malformed   *)
(* signature is not modelled: envelopes are written by sign_artifact,      *)
(* atomically.                                                             *)
(***************************************************************************)

CONSTANT None  (* no signature file, no key, no value *)

Envelope(artifact, key) == [digest |-> artifact, key |-> key]

(* Mutated form: a store that is empty cannot verify, so it refuses.       *)
Verify_EmptyRefuses(sig, artifact, trusted, require) ==
  CASE sig = None            -> IF require THEN "refused" ELSE "unsigned"
    [] sig # None /\ sig.digest = artifact /\ sig.key \in trusted -> "verified"
    [] OTHER                 -> "refused"

(* Mutated form: a fitting digest is enough. *)
Verify_AnyKey(sig, artifact, trusted, require) ==
  CASE sig = None            -> IF require THEN "refused" ELSE "unsigned"
    [] sig # None /\ sig.digest = artifact -> "verified"
    [] OTHER                 -> "refused"

(* verify_artifact with the signature file and the artifact's digest as    *)
(* they were read.  An empty trust store can check the digest only; a      *)
(* signature that is there and does not fit is fatal in any case.          *)
Verify(sig, artifact, trusted, require) ==
  IF sig = None THEN IF require THEN "refused" ELSE "unsigned"
  ELSE CASE sig.digest # artifact -> "refused"
         [] sig.digest = artifact /\ trusted = {} ->
              IF require THEN "refused" ELSE "unverifiable"
         [] sig.digest = artifact /\ trusted # {} ->
              IF sig.key \in trusted THEN "verified" ELSE "refused"
=============================================================================
