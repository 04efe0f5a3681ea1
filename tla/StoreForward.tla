----------------------------- MODULE StoreForward -----------------------------
(***************************************************************************)
(* What the edge agent promises about an anomaly event, without its        *)
(* threads, its lock or its transport (edge-agent/buffer.go:12-18 and the  *)
(* transport contract of edge-agent/uplink.go:1-9).                        *)
(*                                                                         *)
(* An event the agent takes is in the agent's custody: first in memory,    *)
(* then possibly in the spool, the disk-backed FIFO.  Custody ends when    *)
(* the far side has the event, or in one of three named ways of losing it: *)
(* the spool is full and the event is the oldest, the disk refuses it, or  *)
(* the process stops while the event is only in memory.  EdgeAgent refines *)
(* this module.                                                            *)
(***************************************************************************)
EXTENDS Naturals, Sequences

CONSTANTS
  Events,     (* anomaly events, told apart by identity only *)
  Capacity    (* entries the spool may hold                  *)

VARIABLES
  taken,      (* events the agent ever took                         *)
  inHand,     (* events in its memory only                          *)
  spool,      (* events on disk, oldest first                       *)
  delivered,  (* events the far side has, once or more              *)
  dropped     (* events whose custody ended without a delivery      *)

vars == <<taken, inHand, spool, delivered, dropped>>

Init ==
  /\ taken = {}
  /\ inHand = {}
  /\ spool = <<>>
  /\ delivered = {}
  /\ dropped = {}

-----------------------------------------------------------------------------
(* A new event is taken exactly once. *)
Take(e) ==
  /\ e \notin taken
  /\ taken' = taken \union {e}
  /\ inHand' = inHand \union {e}
  /\ UNCHANGED <<spool, delivered, dropped>>

(* The far side may receive a taken event at any time, also after the      *)
(* agent stopped waiting for it, and more than once.                       *)
Deliver(e) ==
  /\ e \in taken
  /\ delivered' = delivered \union {e}
  /\ UNCHANGED <<taken, inHand, spool, dropped>>

(* An event leaves memory because the far side has it. *)
Settle(e) ==
  /\ e \in inHand \cap delivered
  /\ inHand' = inHand \ {e}
  /\ UNCHANGED <<taken, spool, delivered, dropped>>

(* An event moves from memory to the end of the spool; a full spool drops  *)
(* its oldest event, and only a full one does.                             *)
Spool(e) ==
  /\ e \in inHand
  /\ inHand' = inHand \ {e}
  /\ \/ /\ Len(spool) < Capacity
        /\ spool' = Append(spool, e)
        /\ UNCHANGED dropped
     \/ /\ Len(spool) = Capacity
        /\ spool' = Append(Tail(spool), e)
        /\ dropped' = dropped \union {Head(spool)}
  /\ UNCHANGED <<taken, delivered>>

(* The disk refuses the event: the loss the agent logs as EVENT LOST. *)
Refuse(e) ==
  /\ e \in inHand
  /\ inHand' = inHand \ {e}
  /\ dropped' = dropped \union {e}
  /\ UNCHANGED <<taken, spool, delivered>>

(* The n oldest spooled events leave the spool because the far side has    *)
(* all of them.                                                            *)
Prune(n) ==
  /\ n \in 0..Len(spool)
  /\ \A i \in 1..n : spool[i] \in delivered
  /\ spool' = SubSeq(spool, n + 1, Len(spool))
  /\ UNCHANGED <<taken, inHand, delivered, dropped>>

(* The process stops and starts again: memory is gone, the spool is not. *)
Restart ==
  /\ inHand' = {}
  /\ dropped' = dropped \union inHand
  /\ UNCHANGED <<taken, spool, delivered>>

Next ==
  \/ \E e \in Events : Take(e) \/ Deliver(e) \/ Settle(e) \/ Spool(e) \/ Refuse(e)
  \/ \E n \in 0..Len(spool) : Prune(n)
  \/ Restart

Spec == Init /\ [][Next]_vars
=============================================================================
