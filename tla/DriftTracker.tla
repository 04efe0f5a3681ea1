------------------------------ MODULE DriftTracker ------------------------------
(***************************************************************************)
(* The drift tracker of the inference sidecar (inference/drift.py): a ring *)
(* of the raw readings scored, and the training mean and scale they are    *)
(* compared with.  /score observes, a reload or a promotion resets, and    *)
(* /metrics computes signals, each in a thread of its own.                 *)
(*                                                                         *)
(* A reading is the number of its observation; of a scaler, only which     *)
(* reset brought it (0: the constructor) is kept, and of the signals, what *)
(* they are computed from.                                                 *)
(***************************************************************************)
EXTENDS Integers, Sequences

CONSTANTS
  Window,       (* capacity of the ring                                    *)
  MinSamples,   (* no signals from fewer readings                          *)
  Scrapers,     (* threads that compute signals                            *)
  MaxReadings, MaxResets

ASSUME DriftAssumption ==
  /\ Window \in Nat \ {0} /\ MinSamples \in 1..Window
  /\ MaxReadings \in Nat /\ MaxResets \in Nat

VARIABLES
  buf,            (* _buf: the reading in each slot, 0 before the first    *)
  n,              (* _n                                                    *)
  mean, scale,    (* _mean, _scale                                         *)
  locked,         (* reset() holds _lock                                   *)
  scrape,         (* signals() in progress or finished, per scraper        *)
  observed,       (* readings ever observed                                *)
  resets,         (* resets begun                                          *)
  since           (* history: the readings since the window was cleared    *)

driftVars == <<buf, n, mean, scale, locked, scrape, observed, resets, since>>

Idle == [at |-> "idle", data |-> {}, of |-> {}, from |-> 0, mean |-> 0, scale |-> 0, calm |-> TRUE]

DriftInit ==
  /\ buf = [slot \in 0..Window - 1 |-> 0]
  /\ n = 0 /\ mean = 0 /\ scale = 0 /\ locked = FALSE
  /\ scrape = [s \in Scrapers |-> Idle]
  /\ observed = 0 /\ resets = 0 /\ since = <<>>

(* size: how much of the ring is in use. *)
size == IF n < Window THEN n ELSE Window

-----------------------------------------------------------------------------
Observe ==
  /\ ~locked /\ observed < MaxReadings
  /\ observed' = observed + 1
  /\ buf' = [buf EXCEPT ![n % Window] = observed + 1]
  /\ n' = n + 1
  /\ since' = Append(since, observed + 1)
  /\ UNCHANGED <<mean, scale, locked, scrape, resets>>

(* reset(): the mean, the scale and the count, in this order and under the *)
(* lock.  The history knows which signals it overlaps.                     *)
ResetMean ==
  /\ ~locked /\ resets < MaxResets
  /\ resets' = resets + 1 /\ locked' = TRUE
  /\ mean' = resets + 1
  /\ scrape' = [s \in Scrapers |->
                  IF scrape[s].at \in {"mean", "scale"}
                  THEN [scrape[s] EXCEPT !.calm = FALSE] ELSE scrape[s]]
  /\ UNCHANGED <<buf, n, scale, observed, since>>

ResetScale ==
  /\ locked /\ scale # mean
  /\ scale' = mean
  /\ UNCHANGED <<buf, n, mean, locked, scrape, observed, resets, since>>

(* Mutated form: the new window still counts the old readings. *)
ResetCount_Kept ==
  /\ locked /\ scale = mean
  /\ locked' = FALSE /\ since' = <<>>
  /\ UNCHANGED <<buf, n, mean, scale, scrape, observed, resets>>

ResetCount ==
  /\ locked /\ scale = mean
  /\ n' = 0 /\ locked' = FALSE /\ since' = <<>>
  /\ UNCHANGED <<buf, mean, scale, scrape, observed, resets>>

(* History: the last readings of the window, as many as it holds. *)
Recent == {since[j] : j \in DOMAIN since} \ {since[j] : j \in 1..Len(since) - Window}

(* The part of signals() under the lock: {} or a copy of the window. *)

(* Mutated form: the copy does not wait for the lock. *)
Copy_Unlocked(s) ==
  /\ scrape[s].at \in {"idle", "done"}
  /\ size >= MinSamples
  /\ scrape' = [scrape EXCEPT ![s] =
       [Idle EXCEPT !.at = "mean",
                    !.data = {buf[slot] : slot \in 0..size - 1},
                    !.of = Recent, !.from = resets]]
  /\ UNCHANGED <<buf, n, mean, scale, locked, observed, resets, since>>

Copy(s) ==
  /\ scrape[s].at \in {"idle", "done"} /\ ~locked
  /\ size >= MinSamples
  /\ scrape' = [scrape EXCEPT ![s] =
       [Idle EXCEPT !.at = "mean",
                    !.data = {buf[slot] : slot \in 0..size - 1},
                    !.of = Recent, !.from = resets]]
  /\ UNCHANGED <<buf, n, mean, scale, locked, observed, resets, since>>

(* ... and the part outside of it, one attribute after the other. *)
ReadMean(s) ==
  /\ scrape[s].at = "mean"
  /\ scrape' = [scrape EXCEPT ![s].at = "scale", ![s].mean = mean]
  /\ UNCHANGED <<buf, n, mean, scale, locked, observed, resets, since>>

ReadScale(s) ==
  /\ scrape[s].at = "scale"
  /\ scrape' = [scrape EXCEPT ![s].at = "done", ![s].scale = scale]
  /\ UNCHANGED <<buf, n, mean, scale, locked, observed, resets, since>>

DriftNext ==
  \/ Observe
  \/ ResetMean
  \/ ResetScale
  \/ ResetCount
  \/ \E s \in Scrapers : Copy(s) \/ ReadMean(s) \/ ReadScale(s)

DriftSpec == DriftInit /\ [][DriftNext]_driftVars

-----------------------------------------------------------------------------
(* Properties *)

(* Signals are computed from the readings scored last since the window was *)
(* cleared, at most a window of them and none from before, whatever the    *)
(* count and however often the ring has gone round.                        *)
SignalsFromWindow ==
  \A s \in Scrapers : scrape[s].at # "idle" => scrape[s].data = scrape[s].of

(* The mean and the scale are read after the lock is given up: they are    *)
(* never older than the window, and unless a reset came in between they    *)
(* are the window's own, both of one model (drift.py:101-106).             *)
ScalerOfWindow ==
  \A s \in Scrapers : scrape[s].at = "done" =>
    /\ scrape[s].from <= scrape[s].mean /\ scrape[s].from <= scrape[s].scale
    /\ scrape[s].calm => scrape[s].mean = scrape[s].from /\ scrape[s].scale = scrape[s].from
=============================================================================
