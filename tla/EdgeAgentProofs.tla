---------------------------- MODULE EdgeAgentProofs ----------------------------
(***************************************************************************)
(* What EdgeAgent does for every number of events, handlers and reconnects *)
(* and every capacity.  The inductive invariant says what a thread's       *)
(* program counter tells about the lock, about what it holds and, for a    *)
(* drain, about how much of the file the far side already has.             *)
(***************************************************************************)
EXTENDS EdgeAgent, WellFoundedInduction, TLAPS

(* A handler holds its event from Take until it is published or spooled;   *)
(* a flusher holds something to publish whenever it is in Publish, and     *)
(* nothing outside DrainTo.                                                *)
HandlerHolds ==
  \A h \in Handlers :
    /\ pc[h] \in {"idle", "gate", "call", "wait", "add", "measure", "set"}
    /\ IF pc[h] \in {"gate", "call", "wait", "add"}
         THEN \E e \in Events : hand[h] = <<e>>
         ELSE hand[h] = <<>>

FlusherHolds ==
  \A f \in Flushers :
    /\ pc[f] # "add"
    /\ pc[f] \in {"gate", "call", "wait"} => hand[f] # <<>>
    /\ ~Draining(f) => hand[f] = <<>>

(* The lock is held by the one flusher that is in DrainTo. *)
LockHeld == \A f \in Flushers : Draining(f) <=> lock = f

(* What a drain still has to publish is the file without some of its       *)
(* oldest events, which the far side has.                                  *)
DrainSuffix ==
  \A f \in Flushers : Draining(f) =>
    \E n \in 0..Len(file) :
      /\ hand[f] = SubSeq(file, n + 1, Len(file))
      /\ \A i \in 1..n : file[i] \in delivered

Inv == TypeOK /\ HandlerHolds /\ FlusherHolds /\ LockHeld /\ DrainSuffix

-----------------------------------------------------------------------------
(* Numbers *)

(* There is a lowest one among the free packet ids, or sockets. *)
LEMMA LeastNumber ==
  ASSUME NEW T, T \subseteq Nat, T # {}
  PROVE  \E x \in T : \A y \in T : x <= y
<1>1. PICK x \in T : \A y \in T : ~(<<y, x>> \in OpToRel(<, Nat))
  BY WFMin, NatLessThanWellFounded, Zenon
<1>2. ASSUME NEW y \in T PROVE x <= y
  <2>1. x \in Nat /\ y \in Nat
    OBVIOUS
  <2>2. ~(y < x)
    BY <1>1, <2>1, Zenon DEF OpToRel
  <2> QED BY <2>1, <2>2
<1> QED BY <1>2

(* Sequences *)

(* What is left of a sequence after its first n elements. *)
LEMMA SuffixType ==
  ASSUME NEW S, NEW s \in Seq(S), NEW n \in 0..Len(s)
  PROVE  /\ SubSeq(s, n + 1, Len(s)) \in Seq(S)
         /\ Len(SubSeq(s, n + 1, Len(s))) = Len(s) - n
         /\ \A i \in 1..(Len(s) - n) : SubSeq(s, n + 1, Len(s))[i] = s[n + i]
  OBVIOUS

(* Publishing the head of a suffix leaves a shorter one. *)
LEMMA SuffixTail ==
  ASSUME NEW S, NEW s \in Seq(S), NEW n \in 0..Len(s),
         SubSeq(s, n + 1, Len(s)) # <<>>
  PROVE  /\ n + 1 \in 0..Len(s)
         /\ Head(SubSeq(s, n + 1, Len(s))) = s[n + 1]
         /\ Tail(SubSeq(s, n + 1, Len(s))) = SubSeq(s, (n + 1) + 1, Len(s))
  OBVIOUS

(* The whole file is a suffix of itself. *)
LEMMA WholeSuffix ==
  ASSUME NEW S, NEW s \in Seq(S)
  PROVE  s = SubSeq(s, 0 + 1, Len(s))
  OBVIOUS

(* Appending to a sequence that gave up its head. *)
LEMMA AppendTailFacts ==
  ASSUME NEW S, NEW s \in Seq(S), s # <<>>, NEW e
  PROVE  /\ Len(s) >= 1
         /\ Len(Append(Tail(s), e)) = Len(s)
         /\ Append(Tail(s), e)[Len(s)] = e
         /\ \A i \in 1..(Len(s) - 1) : Append(Tail(s), e)[i] = s[i + 1]
<1>1. /\ Len(s) \in Nat \ {0} /\ Tail(s) \in Seq(S) /\ Len(Tail(s)) = Len(s) - 1
      /\ \A i \in 1..(Len(s) - 1) : Tail(s)[i] = s[i + 1]
  OBVIOUS
<1>2. \A t \in Seq(S) :
        /\ Len(Append(t, e)) = Len(t) + 1 /\ Append(t, e)[Len(t) + 1] = e
        /\ \A i \in 1..Len(t) : Append(t, e)[i] = t[i]
  OBVIOUS
<1> DEFINE a == Append(Tail(s), e)
<1>3. /\ Len(a) = Len(Tail(s)) + 1 /\ a[Len(Tail(s)) + 1] = e
      /\ \A i \in 1..Len(Tail(s)) : a[i] = Tail(s)[i]
  BY <1>1, <1>2
<1> HIDE DEF a
<1>4. Len(a) = Len(s) /\ a[Len(s)] = e /\ \A i \in 1..(Len(s) - 1) : a[i] = s[i + 1]
  BY <1>1, <1>3
<1> QED BY <1>1, <1>4 DEF a

(* A sequence of two or more is not empty without its head. *)
LEMMA TailNotEmpty ==
  ASSUME NEW S, NEW s \in Seq(S), s # <<>>, Len(s) # 1
  PROVE  Tail(s) # <<>>
<1>1. Len(Tail(s)) = Len(s) - 1 /\ Len(s) \in Nat
  OBVIOUS
<1>2. \A t : t = <<>> => Len(t) = 0
  OBVIOUS
<1>3. Tail(s) = <<>> => Len(Tail(s)) = 0
  BY <1>2, Zenon
<1> QED BY <1>1, <1>3

(* An Add appends, and makes room first when the file is full. *)
LEMMA NewestAppend ==
  ASSUME NEW S, NEW s \in Seq(S), Len(s) <= Capacity, NEW e \in S
  PROVE  \/ Len(s) < Capacity /\ Newest(Append(s, e)) = Append(s, e)
         \/ /\ Len(s) = Capacity /\ s # <<>>
            /\ Newest(Append(s, e)) = Append(Tail(s), e)
<1>1. Append(s, e) \in Seq(S) /\ Len(Append(s, e)) = Len(s) + 1
  OBVIOUS
<1>2. CASE Len(s) < Capacity
  <2>1. ~(Len(Append(s, e)) > Capacity)
    BY <1>1, <1>2, CapacityAssumption
  <2> QED BY <1>2, <2>1 DEF Newest
<1>3. CASE Len(s) = Capacity
  <2>1. s # <<>>
    BY <1>3, CapacityAssumption
  <2>2. Newest(Append(s, e)) = SubSeq(Append(s, e), 2, Len(s) + 1)
    BY <1>1, <1>3, CapacityAssumption DEF Newest
  <2>3. SubSeq(Append(s, e), 2, Len(s) + 1) = Append(Tail(s), e)
    BY <2>1
  <2> QED BY <1>3, <2>1, <2>2, <2>3
<1> QED BY <1>2, <1>3, CapacityAssumption

-----------------------------------------------------------------------------
(* The invariant *)

(* The invariant holds initially, ... *)
LEMMA InvInit == Init => Inv
<1> SUFFICES ASSUME Init PROVE Inv
  OBVIOUS
<1> USE ThreadsAssumption DEF Init
<1>1. TypeOK
  <2>1. <<>> \in Seq(Events) /\ Len(<<>>) <= Capacity /\ 0 \in 0..Capacity
    BY CapacityAssumption
  <2> QED BY <2>1 DEF TypeOK, Steps
<1>2. HandlerHolds
  BY DEF HandlerHolds, Threads
<1>3. FlusherHolds
  BY DEF FlusherHolds, Threads
<1>4. LockHeld /\ DrainSuffix
  BY DEF LockHeld, DrainSuffix, Draining, Threads
<1> QED BY <1>1, <1>2, <1>3, <1>4 DEF Inv

(* A thread in Publish has an event to publish; a handler exactly one. *)
LEMMA SomethingToPublish ==
  ASSUME Inv, NEW t \in Threads, pc[t] \in {"gate", "call", "wait"}
  PROVE  /\ hand[t] \in Seq(Events) /\ hand[t] # <<>>
         /\ Head(hand[t]) \in Events
         /\ t \in Handlers => \E e \in Events : hand[t] = <<e>>
<1>1. hand[t] \in Seq(Events)
  BY DEF Inv, TypeOK
<1>2. CASE t \in Handlers
  <2>1. PICK e \in Events : hand[t] = <<e>>
    BY <1>2 DEF Inv, HandlerHolds
  <2> QED BY <1>1, <2>1
<1>3. CASE t \in Flushers
  <2>1. hand[t] # <<>> /\ t \notin Handlers
    BY <1>3, ThreadsAssumption DEF Inv, FlusherHolds
  <2> QED BY <1>1, <2>1
<1> QED BY <1>2, <1>3 DEF Threads

(* Steps that touch neither the file, the lock nor what a thread holds. *)
LEMMA QuietStep ==
  ASSUME Inv, TypeOK', UNCHANGED <<file, lock, hand>>, delivered \subseteq delivered',
         NEW t \in Threads, NEW step \in Steps, pc' = [pc EXCEPT ![t] = step],
         t \in Handlers => /\ step \in {"idle", "call", "wait", "add", "set"}
                           /\ step \in {"call", "wait", "add"} <=> 
                                pc[t] \in {"gate", "call", "wait", "add"},
         t \in Flushers => /\ step # "add"
                           /\ step \in {"gate", "call", "wait", "rewrite"} <=> Draining(t)
                           /\ step \in {"gate", "call", "wait"} =>
                                pc[t] \in {"gate", "call", "wait"}
  PROVE  Inv'
<1> USE ThreadsAssumption DEF Inv
<1>1. HandlerHolds'
  BY DEF TypeOK, HandlerHolds, Flushers, Threads
<1>2. FlusherHolds'
  BY DEF TypeOK, FlusherHolds, Draining, Flushers, Threads
<1>3. LockHeld'
  BY DEF TypeOK, LockHeld, Draining, Flushers, Threads
<1>4. DrainSuffix'
  BY DEF TypeOK, DrainSuffix, Draining, Flushers, Threads
<1> QED BY <1>1, <1>2, <1>3, <1>4

(* ... and every step preserves it: one step of the proof per action. *)
LEMMA InvNext == Inv /\ [Next]_vars => Inv'
<1> SUFFICES ASSUME Inv, [Next]_vars PROVE Inv'
  OBVIOUS
<1> USE ThreadsAssumption
<1>1. ASSUME NEW t \in Threads, Gate(t) PROVE Inv'
  <2>1. TypeOK'
    BY <1>1 DEF Inv, TypeOK, Steps, Gate, PublishFailed, Goto, bufferVars, linkVars, historyVars
  <2> QED
    BY <1>1, <2>1, QuietStep, SMTT(30)
    DEF Gate, PublishFailed, Goto, bufferVars, linkVars, historyVars, Draining, Steps, Threads
<1>2. ASSUME NEW t \in Threads, Call(t) PROVE Inv'
  <2>1. TypeOK'
    BY <1>2, SomethingToPublish
    DEF Inv, TypeOK, Steps, Call, Goto, bufferVars, linkVars, historyVars
  <2> QED
    BY <1>2, <2>1, QuietStep
    DEF Call, Goto, bufferVars, linkVars, historyVars, Draining, Steps
<1>3. ASSUME NEW t \in Threads, PublishErr(t) PROVE Inv'
  <2>1. TypeOK'
    BY <1>3
    DEF Inv, TypeOK, Steps, PublishErr, ReturnsError, PublishFailed, Goto, bufferVars, linkVars,
        historyVars
  <2> QED
    BY <1>3, <2>1, QuietStep
    DEF PublishErr, ReturnsError, PublishFailed, Goto, bufferVars, linkVars, historyVars, Draining,
        Steps
<1>4. ASSUME Tick PROVE Inv'
  <2>1. TypeOK'
    BY <1>4 DEF Inv, TypeOK, Steps, Tick, Goto, bufferVars, linkVars, historyVars
  <2> QED
    BY <1>4, <2>1, QuietStep
    DEF Tick, Goto, bufferVars, linkVars, historyVars, Draining, Steps, Threads, Flushers
<1>5. ASSUME NEW readable \in BOOLEAN, CheckLen(readable) PROVE Inv'
  <2>1. TypeOK'
    BY <1>5 DEF Inv, TypeOK, Steps, CheckLen, Goto, bufferVars, linkVars, historyVars
  <2> QED
    BY <1>5, <2>1, QuietStep
    DEF CheckLen, Goto, bufferVars, linkVars, historyVars, Draining, Steps, Threads, Flushers
<1>6. ASSUME NEW t \in Threads, NEW readable \in BOOLEAN, Measure(t, readable) PROVE Inv'
  <2>1. (IF readable THEN Len(file) ELSE 0) \in 0..Capacity
    BY CapacityAssumption DEF Inv, TypeOK
  <2>2. TypeOK'
    BY <1>6, <2>1
    DEF Inv, TypeOK, Steps, Measure, Goto, bufferVars, linkVars, historyVars
  <2> QED
    BY <1>6, <2>2, QuietStep
    DEF Measure, Goto, bufferVars, linkVars, historyVars, Draining, Steps
<1>7. ASSUME NEW t \in Threads, SetGauge(t) PROVE Inv'
  <2>1. TypeOK'
    BY <1>7, CapacityAssumption
    DEF Inv, TypeOK, Steps, SetGauge, Goto, bufferVars, linkVars, historyVars
  <2> QED
    BY <1>7, <2>1, QuietStep
    DEF SetGauge, Goto, bufferVars, linkVars, historyVars, Draining, Steps
<1>8. ASSUME NEW f \in Reconnects, LinkUp(f) PROVE Inv'
  <2>1. TypeOK'
    BY <1>8 DEF Inv, TypeOK, Steps, LinkUp, ComesUp, Goto, bufferVars, historyVars
  <2> QED
    BY <1>8, <2>1, QuietStep
    DEF LinkUp, ComesUp, Goto, bufferVars, historyVars, Draining, Steps, Threads, Flushers
<1>9. ASSUME NEW t \in Threads, PublishOk(t) PROVE Inv'
  <2> USE <1>9 DEF PublishOk, ReturnsNil, Goto, bufferVars, linkVars, historyVars
  <2>1. hand[t] \in Seq(Events) /\ hand[t] # <<>>
    BY SomethingToPublish
  <2>2. Tail(hand[t]) \in Seq(Events)
    BY <2>1
  <2>3. TypeOK'
    BY <2>2 DEF Inv, TypeOK, Steps
  <2>4. HandlerHolds'
    <3>1. ASSUME t \in Handlers PROVE Tail(hand[t]) = <<>>
      <4>1. PICK e \in Events : hand[t] = <<e>>
        BY <3>1, SomethingToPublish
      <4> QED BY <4>1
    <3> QED BY <3>1 DEF Inv, TypeOK, HandlerHolds, Flushers, Threads
  <2>5. FlusherHolds'
    <3>1. Len(hand[t]) # 1 => Tail(hand[t]) # <<>>
      BY <2>1, TailNotEmpty
    <3> QED BY <3>1 DEF Inv, TypeOK, FlusherHolds, Draining, Flushers, Threads
  <2>6. LockHeld'
    BY DEF Inv, TypeOK, LockHeld, Draining, Flushers, Threads
  <2>7. DrainSuffix'
    <3> SUFFICES ASSUME NEW f \in Flushers, Draining(f)'
                 PROVE  \E n \in 0..Len(file) :
                          /\ hand'[f] = SubSeq(file, n + 1, Len(file))
                          /\ \A i \in 1..n : file[i] \in delivered
      BY DEF DrainSuffix
    <3>1. CASE f # t
      BY <3>1 DEF Inv, TypeOK, DrainSuffix, Draining, Threads
    <3>2. CASE f = t
      <4>1. PICK n \in 0..Len(file) :
              /\ hand[f] = SubSeq(file, n + 1, Len(file))
              /\ \A i \in 1..n : file[i] \in delivered
        BY <3>2 DEF Inv, DrainSuffix, Draining
      <4>2. file \in Seq(Events)
        BY DEF Inv, TypeOK
      <4>3. /\ n + 1 \in 0..Len(file)
            /\ Head(hand[f]) = file[n + 1]
            /\ Tail(hand[f]) = SubSeq(file, (n + 1) + 1, Len(file))
        BY <2>1, <3>2, <4>1, <4>2, SuffixTail
      <4>4. \A i \in 1..(n + 1) : file[i] \in delivered
        BY <3>2, <4>1, <4>3
      <4>5. hand'[f] = Tail(hand[f])
        BY <3>2 DEF Inv, TypeOK
      <4> QED BY <4>3, <4>4, <4>5
    <3> QED BY <3>1, <3>2
  <2> QED BY <2>3, <2>4, <2>5, <2>6, <2>7 DEF Inv
<1>10. ASSUME NEW h \in Handlers, NEW e \in Events, Take(h, e) PROVE Inv'
  <2> USE <1>10 DEF Take, Goto, bufferVars, linkVars, Inv
  <2>1. TypeOK'
    BY DEF TypeOK, Steps, Threads
  <2>2. HandlerHolds'
    BY DEF TypeOK, HandlerHolds, Threads
  <2>3. FlusherHolds' /\ LockHeld' /\ DrainSuffix'
    BY DEF TypeOK, FlusherHolds, LockHeld, DrainSuffix, Draining, Threads
  <2> QED BY <2>1, <2>2, <2>3
<1>11. ASSUME NEW h \in Handlers, Add(h) PROVE Inv'
  <2> USE <1>11 DEF Add, Goto, linkVars, Inv
  <2>1. PICK e \in Events : hand[h] = <<e>>
    BY DEF HandlerHolds
  <2>2. /\ file \in Seq(Events) /\ Append(file, e) \in Seq(Events)
        /\ file' = Newest(Append(file, e))
    BY <2>1 DEF TypeOK
  <2>3. \/ Len(file) < Capacity /\ file' = Append(file, e)
        \/ Len(file) = Capacity /\ file # <<>> /\ file' = Append(Tail(file), e)
    BY <2>2, NewestAppend DEF TypeOK
  <2>4. file' \in Seq(Events) /\ Len(file') \in 1..Capacity
    <3>1. file \in Seq(Events) /\ Len(file) \in Nat /\ Len(file) <= Capacity
      BY DEF TypeOK
    <3>2. CASE Len(file) < Capacity /\ file' = Append(file, e)
      BY <2>2, <3>1, <3>2, CapacityAssumption
    <3>3. CASE Len(file) = Capacity /\ file # <<>> /\ file' = Append(Tail(file), e)
      BY <2>2, <3>1, <3>3, CapacityAssumption
    <3> QED BY <2>3, <3>2, <3>3
  <2>5. dropped' \subseteq Events
    BY <2>2, <2>4 DEF TypeOK
  <2>6. TypeOK'
    BY <2>4, <2>5 DEF TypeOK, Steps, Threads
  <2>7. HandlerHolds'
    BY DEF TypeOK, HandlerHolds, Threads
  <2>8. FlusherHolds' /\ LockHeld'
    BY DEF TypeOK, FlusherHolds, LockHeld, Draining, Threads
  <2>9. DrainSuffix'
    BY DEF TypeOK, LockHeld, DrainSuffix, Draining, Threads
  <2> QED BY <2>6, <2>7, <2>8, <2>9
<1>12. ASSUME NEW h \in Handlers, AddFails(h) PROVE Inv'
  <2> USE <1>12 DEF AddFails, Goto, bufferVars, linkVars, Inv
  <2>1. PICK e \in Events : hand[h] = <<e>>
    BY DEF HandlerHolds
  <2>2. TypeOK'
    BY <2>1 DEF TypeOK, Steps, Threads
  <2>3. HandlerHolds'
    BY DEF TypeOK, HandlerHolds, Threads
  <2>4. FlusherHolds' /\ LockHeld' /\ DrainSuffix'
    BY DEF TypeOK, FlusherHolds, LockHeld, DrainSuffix, Draining, Threads
  <2> QED BY <2>2, <2>3, <2>4
<1>13. ASSUME NEW f \in Flushers, NEW readable \in BOOLEAN, DrainStart(f, readable)
       PROVE  Inv'
  <2> USE <1>13 DEF DrainStart, Goto, linkVars, historyVars, Inv
  <2>1. TypeOK'
    BY DEF TypeOK, Steps, Threads
  <2>2. HandlerHolds'
    BY DEF TypeOK, HandlerHolds, Threads
  <2>3. FlusherHolds'
    <3>1. \A g \in Flushers \ {f} : pc'[g] = pc[g] /\ hand'[g] = hand[g]
      BY DEF TypeOK, Threads
    <3>2. \/ pc'[f] = "gate" /\ hand'[f] = file /\ file # <<>>
          \/ pc'[f] = "measure" /\ hand'[f] = hand[f] /\ hand[f] = <<>>
      BY DEF TypeOK, FlusherHolds, Draining, Threads
    <3> QED BY <3>1, <3>2 DEF FlusherHolds, Draining
  <2>4. LockHeld'
    BY DEF TypeOK, LockHeld, Draining, Threads
  <2>5. DrainSuffix'
    <3>1. file = SubSeq(file, 0 + 1, Len(file)) /\ 0 \in 0..Len(file)
      BY WholeSuffix DEF TypeOK
    <3>2. \A i \in 1..0 : file[i] \in delivered
      OBVIOUS
    <3>3. ASSUME NEW g \in Flushers, Draining(g)'
          PROVE  g = f /\ hand'[g] = file /\ file' = file /\ delivered' = delivered
      BY <3>3 DEF TypeOK, LockHeld, Draining, Threads
    <3> QED BY <3>1, <3>2, <3>3 DEF DrainSuffix
  <2> QED BY <2>1, <2>2, <2>3, <2>4, <2>5
<1>14. ASSUME NEW f \in Flushers, NEW writable \in BOOLEAN, Rewrite(f, writable)
       PROVE  Inv'
  <2> USE <1>14 DEF Rewrite, Goto, linkVars, historyVars, Inv
  <2>1. PICK n \in 0..Len(file) : hand[f] = SubSeq(file, n + 1, Len(file))
    BY DEF DrainSuffix, Draining
  <2>2. hand[f] \in Seq(Events) /\ Len(hand[f]) <= Capacity
    BY <2>1, SuffixType, CapacityAssumption DEF TypeOK
  <2>3. TypeOK'
    BY <2>2 DEF TypeOK, Steps, Threads
  <2>4. HandlerHolds'
    BY DEF TypeOK, HandlerHolds, Threads
  <2>5. FlusherHolds'
    BY DEF TypeOK, FlusherHolds, Draining, Threads
  <2>6. LockHeld' /\ DrainSuffix'
    BY DEF TypeOK, LockHeld, DrainSuffix, Draining, Threads
  <2> QED BY <2>3, <2>4, <2>5, <2>6
<1>15. CASE LinkDown \/ LinkUpDeaf
  BY <1>15 DEF LinkDown, LinkUpDeaf, Inv, TypeOK, HandlerHolds, FlusherHolds, LockHeld,
               DrainSuffix, Draining, bufferVars, threadVars, historyVars
<1>16. ASSUME NEW e \in Events, Deliver(e) PROVE Inv'
  <2> USE <1>16 DEF Deliver, Arrives, bufferVars, threadVars, historyVars, Inv
  <2>1. TypeOK'
    BY DEF TypeOK
  <2>2. HandlerHolds' /\ FlusherHolds' /\ LockHeld'
    BY DEF HandlerHolds, FlusherHolds, LockHeld, Draining
  <2>3. DrainSuffix'
    BY DEF DrainSuffix, Draining
  <2> QED BY <2>1, <2>2, <2>3
<1>17. CASE Restart
  <2> USE <1>17 DEF Restart, Inv
  <2>1. Len(file) \in 0..Capacity
    BY CapacityAssumption DEF TypeOK
  <2>2. dropped' \subseteq Events
    BY DEF TypeOK, Range, Threads
  <2>3. <<>> \in Seq(Events) /\ 0 \in 0..Capacity
    BY CapacityAssumption
  <2>4. TypeOK'
    BY <2>1, <2>2, <2>3 DEF TypeOK, Steps
  <2>5. HandlerHolds' /\ FlusherHolds'
    BY DEF HandlerHolds, FlusherHolds, Threads
  <2>6. LockHeld' /\ DrainSuffix'
    BY DEF LockHeld, DrainSuffix, Draining, Threads
  <2> QED BY <2>4, <2>5, <2>6
<1>18. CASE UNCHANGED vars
  BY <1>18 DEF vars, Inv, TypeOK, HandlerHolds, FlusherHolds, LockHeld, DrainSuffix,
               Draining, bufferVars, threadVars, linkVars, historyVars
<1> QED
  BY <1>1, <1>2, <1>3, <1>4, <1>5, <1>6, <1>7, <1>8, <1>9, <1>10, <1>11, <1>12,
     <1>13, <1>14, <1>15, <1>16, <1>17, <1>18
  DEF Next, HandlerStep, FlusherStep, PublishStep, GaugeStep

(* What a program counter says about the lock, the hands and the drained   *)
(* part of the file holds in every state.                                  *)
THEOREM Invariance == Spec => []Inv
<1> QED BY InvInit, InvNext, PTL DEF Spec

(* Every state is well typed; in particular the file never has more than   *)
(* Capacity events, the last rewrite of a drain included.                  *)
THEOREM TypeCorrect == Spec => []TypeOK
<1>1. Inv => TypeOK
  BY DEF Inv
<1> QED BY <1>1, Invariance, PTL

-----------------------------------------------------------------------------
(* How long a drain holds the lock *)

(* What DrainTo has to do before it unlocks: four steps for each event it  *)
(* has not published, fewer for the one it is publishing.                  *)
PublishLeft(step) == CASE step = "gate" -> 3
                       [] step = "call" -> 2
                       [] step = "wait" -> 1
                       [] OTHER         -> 0

DrainWork(f) == 4 * Len(hand[f]) + PublishLeft(pc[f])

(* DrainTo publishes under the buffer's lock (buffer.go:60-74).  It never  *)
(* waits for that lock itself, whatever else happens gives it no more to   *)
(* do, and each step of its own brings the Unlock nearer.                  *)
DrainAdvances ==
  [][\A f \in Flushers : lock = f =>
       \/ lock' = None
       \/ /\ lock' = f
          /\ \/ pc'[f] = pc[f] /\ hand'[f] = hand[f]
             \/ DrainWork(f)' < DrainWork(f)]_vars

(* And what there is to do is bounded by the capacity.                     *)
DrainBounded ==
  \A f \in Flushers : lock = f => Draining(f) /\ DrainWork(f) \in 0..(4 * Capacity + 3)

LEMMA PublishLeftIs ==
  /\ PublishLeft("gate") = 3 /\ PublishLeft("call") = 2
  /\ PublishLeft("wait") = 1 /\ PublishLeft("rewrite") = 0
BY DEF PublishLeft

LEMMA PublishAdvances ==
  ASSUME Inv, NEW f \in Flushers, PublishStep(f)
  PROVE  DrainWork(f)' < DrainWork(f)
<1>1. /\ f \notin Handlers /\ f \in Threads
      /\ hand[f] \in Seq(Events) /\ pc \in [Threads -> Steps] /\ hand \in [Threads -> Seq(Events)]
  BY ThreadsAssumption DEF Threads, Inv, TypeOK
<1>2. Len(hand[f]) \in Nat
  BY <1>1
<1>3. CASE Gate(f)
  <2>1. pc[f] = "gate" /\ pc'[f] \in {"call", "rewrite"} /\ hand'[f] = hand[f]
    BY <1>1, <1>3 DEF Gate, PublishFailed, Goto
  <2>2. PublishLeft(pc[f]) = 3 /\ PublishLeft(pc'[f]) \in {2, 0}
    BY <2>1, PublishLeftIs
  <2> QED BY <1>2, <2>1, <2>2 DEF DrainWork
<1>4. CASE Call(f)
  <2>1. pc[f] = "call" /\ pc'[f] = "wait" /\ hand'[f] = hand[f]
    BY <1>1, <1>4 DEF Call, Goto
  <2> QED BY <1>2, <2>1, PublishLeftIs DEF DrainWork
<1>5. CASE PublishOk(f)
  <2>1. pc[f] = "wait" /\ pc'[f] \in {"rewrite", "gate"} /\ hand'[f] = Tail(hand[f])
    BY <1>1, <1>5 DEF PublishOk, ReturnsNil, Goto
  <2>2. hand[f] # <<>>
    BY <2>1, SomethingToPublish, <1>1
  <2>3. Len(Tail(hand[f])) = Len(hand[f]) - 1
    BY <1>1, <2>2
  <2>4. PublishLeft(pc[f]) = 1 /\ PublishLeft(pc'[f]) \in {0, 3}
    BY <2>1, PublishLeftIs
  <2> QED BY <1>2, <2>1, <2>3, <2>4 DEF DrainWork
<1>6. CASE PublishErr(f)
  <2>1. pc[f] = "wait" /\ pc'[f] = "rewrite" /\ hand'[f] = hand[f]
    BY <1>1, <1>6 DEF PublishErr, ReturnsError, PublishFailed, Goto
  <2> QED BY <1>2, <2>1, PublishLeftIs DEF DrainWork
<1> QED BY <1>3, <1>4, <1>5, <1>6 DEF PublishStep

(* Who wants the lock waits for a bounded number of steps of its holder:   *)
(* handlers that spool, the gauge and healthz are delayed, not deadlocked. *)
THEOREM DrainsUnlock == Spec => DrainAdvances /\ []DrainBounded
<1> USE ThreadsAssumption
<1> DEFINE Advances(f) == \/ lock' = None
                          \/ /\ lock' = f
                             /\ \/ pc'[f] = pc[f] /\ hand'[f] = hand[f]
                                \/ DrainWork(f)' < DrainWork(f)
<1>1. Inv /\ Inv' /\ [Next]_vars => \A f \in Flushers : lock = f => Advances(f)
  <2> SUFFICES ASSUME Inv, Inv', [Next]_vars, NEW f \in Flushers, lock = f PROVE Advances(f)
    OBVIOUS
  <2>1. /\ f \in Threads /\ f \notin Handlers /\ f # None /\ Draining(f)
        /\ pc \in [Threads -> Steps] /\ hand \in [Threads -> Seq(Events)]
    BY DEF Inv, TypeOK, LockHeld, Threads
  <2>2. ASSUME pc'[f] = pc[f], hand'[f] = hand[f] PROVE Advances(f)
    <3>1. lock' = f
      BY <2>1, <2>2 DEF Inv, LockHeld, Draining
    <3> QED BY <2>2, <3>1
  <2>3. ASSUME NEW h \in Handlers, HandlerStep(h) PROVE Advances(f)
    BY <2>1, <2>2, <2>3 DEF HandlerStep, Take, Add, AddFails, Goto
  <2>4. ASSUME NEW g \in Flushers, FlusherStep(g) PROVE Advances(f)
    <3>1. CASE g = f
      <4>1. \A readable \in BOOLEAN : ~DrainStart(f, readable)
        BY <2>1 DEF DrainStart, Draining
      <4> QED BY <2>4, <3>1, <4>1 DEF FlusherStep, Rewrite
    <3>2. CASE g # f
      BY <2>1, <2>2, <2>4, <3>2 DEF FlusherStep, DrainStart, Rewrite, Goto
    <3> QED BY <3>1, <3>2
  <2>5. ASSUME NEW t \in Threads, PublishStep(t) PROVE Advances(f)
    <3>1. CASE t = f
      <4>1. lock' = f
        BY <2>5
        DEF PublishStep, Gate, Call, PublishOk, ReturnsNil, PublishErr, ReturnsError, bufferVars
      <4> QED BY <2>5, <3>1, <4>1, PublishAdvances
    <3>2. CASE t # f
      BY <2>1, <2>2, <2>5, <3>2
      DEF PublishStep, Gate, Call, PublishOk, ReturnsNil, PublishErr, ReturnsError, PublishFailed,
          Goto
    <3> QED BY <3>1, <3>2
  <2>6. ASSUME NEW t \in Threads, GaugeStep(t) PROVE Advances(f)
    BY <2>1, <2>2, <2>6 DEF GaugeStep, Measure, SetGauge, Goto, Draining
  <2>7. CASE Tick \/ \E readable \in BOOLEAN : CheckLen(readable)
    BY <2>1, <2>2, <2>7 DEF Tick, CheckLen, Goto, Draining
  <2>8. CASE \E g \in Reconnects : LinkUp(g)
    BY <2>1, <2>2, <2>8 DEF LinkUp, ComesUp, Goto, Draining
  <2>9. CASE LinkUpDeaf \/ LinkDown \/ (\E e \in Events : Deliver(e)) \/ UNCHANGED vars
    BY <2>2, <2>9 DEF LinkUpDeaf, LinkDown, Deliver, Arrives, threadVars, vars
  <2>10. CASE Restart
    BY <2>10 DEF Restart
  <2> QED BY <2>3, <2>4, <2>5, <2>6, <2>7, <2>8, <2>9, <2>10 DEF Next
<1>2. Inv => DrainBounded
  <2> SUFFICES ASSUME Inv, NEW f \in Flushers, lock = f
               PROVE  Draining(f) /\ DrainWork(f) \in 0..(4 * Capacity + 3)
    BY DEF DrainBounded
  <2>1. Draining(f) /\ file \in Seq(Events) /\ Len(file) <= Capacity /\ Capacity \in Nat
    BY CapacityAssumption DEF Inv, TypeOK, LockHeld
  <2>2. PICK n \in 0..Len(file) : hand[f] = SubSeq(file, n + 1, Len(file))
    BY <2>1 DEF Inv, DrainSuffix
  <2>3. Len(hand[f]) \in 0..Capacity
    BY <2>1, <2>2, SuffixType
  <2>4. PublishLeft(pc[f]) \in 0..3
    BY DEF PublishLeft
  <2>5. DrainWork(f) \in 0..(4 * Capacity + 3)
    BY <2>1, <2>3, <2>4 DEF DrainWork
  <2> QED BY <2>1, <2>5
<1> QED BY <1>1, <1>2, Invariance, PTL DEF Spec, DrainAdvances

-----------------------------------------------------------------------------
(* Where the events are, event by event *)

Separate ==
  /\ \A i, j \in 1..Len(file) : file[i] = file[j] => i = j
  /\ \A h \in Handlers, e \in Events, i \in 1..Len(file) : hand[h] = <<e>> => file[i] # e
  /\ \A g, h \in Handlers, e \in Events : hand[g] = <<e>> /\ hand[h] = <<e>> => g = h

OnlyTaken ==
  /\ \A h \in Handlers, e \in Events : hand[h] = <<e>> => e \in taken
  /\ \A i \in 1..Len(file) : file[i] \in taken
  /\ handed \subseteq taken

NoneMissing ==
  \A e \in taken :
    \/ e \in delivered \union dropped
    \/ \E i \in 1..Len(file) : file[i] = e
    \/ \E h \in Handlers : hand[h] = <<e>>

Custody == Separate /\ OnlyTaken /\ NoneMissing

(* Initially there are no events. *)
LEMMA CustodyInit == Init => Custody
  BY DEF Init, Custody, Separate, OnlyTaken, NoneMissing, Threads

(* A step that leaves every event where it is. *)
LEMMA CustodyQuiet ==
  ASSUME Custody, UNCHANGED <<file, taken, dropped>>, delivered \subseteq delivered',
         handed' \subseteq taken, \A h \in Handlers : hand'[h] = hand[h]
  PROVE  Custody'
<1>1. Separate'
  BY DEF Custody, Separate
<1>2. OnlyTaken'
  BY DEF Custody, OnlyTaken
<1>3. NoneMissing'
  BY DEF Custody, NoneMissing
<1> QED BY <1>1, <1>2, <1>3 DEF Custody

(* No event goes missing in a step that gives each one a place again. *)
LEMMA NoneMissingStep ==
  ASSUME NoneMissing, UNCHANGED taken,
         delivered \subseteq delivered', dropped \subseteq dropped',
         \A i \in 1..Len(file) :
           file[i] \in delivered' \union dropped' \/ \E j \in 1..Len(file') : file'[j] = file[i],
         \A h \in Handlers, x \in taken : hand[h] = <<x>> =>
           hand'[h] = <<x>> \/ \E j \in 1..Len(file') : file'[j] = x
  PROVE  NoneMissing'
<1> SUFFICES ASSUME NEW x \in taken
             PROVE  \/ x \in delivered' \union dropped'
                    \/ \E j \in 1..Len(file') : file'[j] = x
                    \/ \E h \in Handlers : hand'[h] = <<x>>
  BY DEF NoneMissing
<1>1. CASE x \in delivered \union dropped
  BY <1>1
<1>2. CASE \E i \in 1..Len(file) : file[i] = x
  BY <1>2
<1>3. CASE \E h \in Handlers : hand[h] = <<x>>
  BY <1>3
<1> QED BY <1>1, <1>2, <1>3 DEF NoneMissing

(* A handler lets go of an event that is delivered or given up. *)
LEMMA CustodyLetGo ==
  ASSUME Custody, UNCHANGED <<file, taken, handed>>,
         delivered \subseteq delivered', dropped \subseteq dropped',
         NEW h \in Handlers, NEW e \in delivered' \union dropped',
         hand[h] = <<e>>, hand'[h] = <<>>, \A g \in Handlers \ {h} : hand'[g] = hand[g]
  PROVE  Custody'
<1>1. \A g \in Handlers, x \in Events : hand'[g] = <<x>> => hand[g] = <<x>>
  <2>1. \A x : <<x>> # <<>>
    OBVIOUS
  <2> QED BY <2>1
<1>2. Separate'
  BY <1>1 DEF Custody, Separate
<1>3. OnlyTaken'
  BY <1>1 DEF Custody, OnlyTaken
<1>4. ASSUME NEW g \in Handlers, NEW x \in taken, hand[g] = <<x>>
      PROVE  x \in delivered' \union dropped' \/ hand'[g] = <<x>>
  <2>1. CASE g = h
    <3>1. x = e
      BY <1>4, <2>1
    <3> QED BY <3>1
  <2>2. CASE g # h
    BY <1>4, <2>2
  <2> QED BY <2>1, <2>2
<1>5. NoneMissing'
  BY <1>4 DEF Custody, NoneMissing
<1> QED BY <1>2, <1>3, <1>5 DEF Custody

(* What a thread is about to publish was taken. *)
LEMMA PublishesTaken ==
  ASSUME Inv, Custody, NEW t \in Threads, pc[t] \in {"gate", "call", "wait"}
  PROVE  Head(hand[t]) \in taken
<1>1. CASE t \in Handlers
  <2>1. PICK e \in Events : hand[t] = <<e>>
    BY <1>1, SomethingToPublish
  <2> QED BY <1>1, <2>1 DEF Custody, OnlyTaken
<1>2. CASE t \in Flushers
  <2>1. PICK n \in 0..Len(file) : hand[t] = SubSeq(file, n + 1, Len(file))
    BY <1>2 DEF Inv, DrainSuffix, Draining
  <2>2. /\ n + 1 \in 0..Len(file)
        /\ Head(hand[t]) = file[n + 1]
    BY <2>1, SomethingToPublish, SuffixTail DEF Inv, TypeOK
  <2> QED BY <2>2 DEF Custody, OnlyTaken
<1> QED BY <1>1, <1>2 DEF Threads

(* Every step keeps the events taken, separate and accounted for. *)
LEMMA CustodyNext == Inv /\ Custody /\ [Next]_vars => Custody'
<1> SUFFICES ASSUME Inv, Custody, [Next]_vars PROVE Custody'
  OBVIOUS
<1> USE ThreadsAssumption
<1> handed \subseteq taken
  BY DEF Custody, OnlyTaken
<1>1. ASSUME NEW t \in Threads, PublishStep(t) PROVE Custody'
  <2>1. CASE Gate(t) \/ PublishErr(t)
    BY <2>1, CustodyQuiet
    DEF Gate, PublishErr, ReturnsError, bufferVars, linkVars, historyVars
  <2>2. CASE Call(t)
    <3>1. Head(hand[t]) \in taken
      BY <2>2, PublishesTaken DEF Call
    <3> QED
      BY <2>2, <3>1, CustodyQuiet DEF Call, bufferVars, historyVars
  <2>3. CASE PublishOk(t)
    <3> USE <2>3 DEF PublishOk, ReturnsNil, bufferVars, linkVars, historyVars
    <3>1. CASE t \in Handlers
      <4>1. PICK e \in Events : hand[t] = <<e>>
        BY <3>1, SomethingToPublish
      <4>2. e \in delivered /\ Tail(hand[t]) = <<>>
        BY <4>1
      <4>3. hand'[t] = <<>> /\ \A h \in Handlers \ {t} : hand'[h] = hand[h]
        BY <4>2 DEF Inv, TypeOK, Threads
      <4> QED
        BY <3>1, <4>1, <4>2, <4>3, CustodyLetGo
    <3>2. CASE t \in Flushers
      <4>1. \A h \in Handlers : hand'[h] = hand[h]
        BY <3>2 DEF Inv, TypeOK, Threads
      <4> QED BY <4>1, CustodyQuiet
    <3> QED BY <3>1, <3>2 DEF Threads
  <2> QED BY <1>1, <2>1, <2>2, <2>3 DEF PublishStep
<1>2. ASSUME NEW h \in Handlers, NEW e \in Events, Take(h, e) PROVE Custody'
  <2> USE <1>2 DEF Take, bufferVars, linkVars
  <2>1. hand[h] = <<>> /\ hand'[h] = <<e>> /\ \A g \in Handlers \ {h} : hand'[g] = hand[g]
    BY DEF Inv, TypeOK, HandlerHolds, Threads
  <2>2. Separate'
    BY <2>1 DEF Custody, Separate, OnlyTaken
  <2>3. OnlyTaken'
    BY <2>1 DEF Custody, OnlyTaken
  <2>4. NoneMissing'
    <3>1. \A g \in Handlers : \A x : hand[g] = <<x>> => hand'[g] = <<x>>
      <4>1. \A x : <<x>> # <<>>
        OBVIOUS
      <4> QED BY <2>1, <4>1
    <3> QED BY <2>1, <3>1 DEF Custody, NoneMissing
  <2> QED BY <2>2, <2>3, <2>4 DEF Custody
<1>3. ASSUME NEW h \in Handlers, Add(h) PROVE Custody'
  <2> USE <1>3 DEF Add, linkVars
  <2>1. PICK e \in Events : hand[h] = <<e>>
    BY DEF Inv, HandlerHolds
  <2>2. /\ hand'[h] = <<>> /\ \A g \in Handlers \ {h} : hand'[g] = hand[g]
        /\ e \in taken /\ \A i \in 1..Len(file) : file[i] # e
        /\ \A g \in Handlers \ {h} : hand[g] # <<e>>
    BY <2>1 DEF Inv, TypeOK, Threads, Custody, OnlyTaken, Separate
  <2>3. file \in Seq(Events) /\ Len(file) \in Nat /\ Len(file) <= Capacity
    BY DEF Inv, TypeOK
  <2>4. file' = Newest(Append(file, e))
    BY <2>1
  <2>5. \A g \in Handlers, x \in Events : hand'[g] = <<x>> => g # h /\ hand[g] = <<x>>
    <3>1. \A x : <<x>> # <<>>
      OBVIOUS
    <3> QED BY <2>2, <3>1
  <2>8. \A g \in Handlers : \A x : hand[g] = <<x>> => x = e \/ hand'[g] = <<x>>
    BY <2>1, <2>2
  <2>6. CASE Len(file) < Capacity /\ file' = Append(file, e)
    <3>1. /\ Len(file') = Len(file) + 1 /\ file'[Len(file) + 1] = e
          /\ \A i \in 1..Len(file) : file'[i] = file[i]
      BY <2>3, <2>6
    <3>2. Separate'
      BY <2>2, <2>3, <2>5, <3>1 DEF Custody, Separate
    <3>3. OnlyTaken'
      BY <2>2, <2>3, <2>5, <3>1 DEF Custody, OnlyTaken
    <3>4. \A i \in 1..Len(file) : \E j \in 1..Len(file') : file'[j] = file[i]
      BY <2>3, <3>1
    <3>5. \E j \in 1..Len(file') : file'[j] = e
      BY <2>3, <3>1
    <3>6. NoneMissing'
      BY <2>8, <3>4, <3>5, NoneMissingStep DEF Custody
    <3> QED BY <3>2, <3>3, <3>6 DEF Custody
  <2>7. CASE Len(file) = Capacity /\ file # <<>> /\ file' = Append(Tail(file), e)
    <3>1. /\ Len(file) >= 1 /\ Len(file') = Len(file) /\ file'[Len(file)] = e
          /\ \A i \in 1..(Len(file) - 1) : file'[i] = file[i + 1]
      BY <2>3, <2>7, AppendTailFacts
    <3>2. Separate'
      <4>1. ASSUME NEW i \in 1..Len(file'), NEW j \in 1..Len(file'), file'[i] = file'[j]
            PROVE  i = j
        <5>1. CASE i # Len(file) /\ j # Len(file)
          <6>1. /\ i + 1 \in 1..Len(file) /\ j + 1 \in 1..Len(file)
                /\ file[i + 1] = file[j + 1]
            BY <2>3, <3>1, <4>1, <5>1
          <6>2. i + 1 = j + 1
            BY <6>1 DEF Custody, Separate
          <6> QED BY <2>3, <3>1, <6>2
        <5>2. CASE i = Len(file) \/ j = Len(file)
          <6>1. \A k \in 1..(Len(file) - 1) : file'[k] # e
            BY <2>2, <2>3, <3>1
          <6> QED BY <2>3, <3>1, <4>1, <5>2, <6>1
        <5> QED BY <5>1, <5>2
      <4>2. ASSUME NEW g \in Handlers, NEW x \in Events, NEW i \in 1..Len(file'),
                   hand'[g] = <<x>>
            PROVE  file'[i] # x
        <5>1. CASE i = Len(file)
          BY <2>1, <2>2, <2>5, <3>1, <4>2, <5>1
        <5>2. CASE i # Len(file)
          BY <2>3, <2>5, <3>1, <4>2, <5>2 DEF Custody, Separate
        <5> QED BY <5>1, <5>2
      <4>3. \A f, g \in Handlers, x \in Events : hand'[f] = <<x>> /\ hand'[g] = <<x>> => f = g
        BY <2>5 DEF Custody, Separate
      <4> QED BY <4>1, <4>2, <4>3 DEF Separate
    <3>3. OnlyTaken'
      BY <2>2, <2>3, <2>5, <3>1 DEF Custody, OnlyTaken
    <3>4. file[1] \in dropped'
      BY <2>3, <3>1
    <3>5. ASSUME NEW i \in 1..Len(file)
          PROVE  file[i] \in dropped' \/ \E j \in 1..Len(file') : file'[j] = file[i]
      <4>1. CASE i = 1
        BY <3>4, <4>1
      <4>2. CASE i # 1
        <5>1. i - 1 \in 1..Len(file') /\ file'[i - 1] = file[i]
          BY <2>3, <3>1, <4>2
        <5> QED BY <5>1
      <4> QED BY <4>1, <4>2
    <3>6. \E j \in 1..Len(file') : file'[j] = e
      BY <2>3, <3>1
    <3>7. NoneMissing'
      BY <2>8, <3>4, <3>5, <3>6, NoneMissingStep DEF Custody
    <3> QED BY <3>2, <3>3, <3>7 DEF Custody
  <2> QED BY <2>3, <2>4, <2>6, <2>7, NewestAppend
<1>4. ASSUME NEW h \in Handlers, AddFails(h) PROVE Custody'
  <2> USE <1>4 DEF AddFails, bufferVars, linkVars
  <2>1. PICK e \in Events : hand[h] = <<e>>
    BY DEF Inv, HandlerHolds
  <2>2. hand'[h] = <<>> /\ \A g \in Handlers \ {h} : hand'[g] = hand[g]
    BY DEF Inv, TypeOK, Threads
  <2>3. dropped' = dropped \union {e}
    BY <2>1
  <2> QED BY <2>1, <2>2, <2>3, CustodyLetGo
<1>5. ASSUME NEW f \in Flushers, FlusherStep(f) PROVE Custody'
  <2>1. ASSUME NEW readable \in BOOLEAN, DrainStart(f, readable) PROVE Custody'
    <3>1. \A h \in Handlers : hand'[h] = hand[h]
      BY <2>1 DEF DrainStart, Inv, TypeOK, Threads
    <3> QED BY <2>1, <3>1, CustodyQuiet DEF DrainStart, linkVars, historyVars
  <2>2. ASSUME NEW writable \in BOOLEAN, Rewrite(f, writable) PROVE Custody'
    <3> USE <2>2 DEF Rewrite, linkVars, historyVars
    <3>1. \A h \in Handlers : hand'[h] = hand[h]
      BY DEF Inv, TypeOK, Threads
    <3>2. CASE ~writable
      BY <3>1, <3>2, CustodyQuiet
    <3>3. CASE writable
      <4>1. PICK n \in 0..Len(file) :
              /\ hand[f] = SubSeq(file, n + 1, Len(file))
              /\ \A i \in 1..n : file[i] \in delivered
        BY DEF Inv, DrainSuffix, Draining
      <4>2. file \in Seq(Events) /\ file' = SubSeq(file, n + 1, Len(file))
        BY <3>3, <4>1 DEF Inv, TypeOK
      <4>3. /\ Len(file') = Len(file) - n /\ Len(file) \in Nat
            /\ \A i \in 1..(Len(file) - n) : file'[i] = file[n + i]
        BY <4>2, SuffixType
      <4>4. \A i \in 1..Len(file') : n + i \in 1..Len(file)
        BY <4>3
      <4>5. Separate'
        <5>1. ASSUME NEW i \in 1..Len(file'), NEW j \in 1..Len(file'), file'[i] = file'[j]
              PROVE  i = j
          <6>1. n + i = n + j
            BY <4>3, <4>4, <5>1 DEF Custody, Separate
          <6> QED BY <4>3, <6>1
        <5>2. ASSUME NEW h \in Handlers, NEW e \in Events, NEW i \in 1..Len(file'),
                     hand'[h] = <<e>>
              PROVE  file'[i] # e
          <6>1. n + i \in 1..Len(file) /\ file'[i] = file[n + i] /\ hand[h] = <<e>>
            BY <3>1, <4>3, <4>4, <5>2
          <6> QED BY <6>1 DEF Custody, Separate
        <5> QED BY <3>1, <5>1, <5>2 DEF Custody, Separate
      <4>6. OnlyTaken'
        BY <3>1, <4>3, <4>4 DEF Custody, OnlyTaken
      <4>7. ASSUME NEW i \in 1..Len(file)
            PROVE  file[i] \in delivered \/ \E j \in 1..Len(file') : file'[j] = file[i]
        <5>1. CASE i <= n
          BY <4>1, <5>1
        <5>2. CASE i > n
          <6>1. i - n \in 1..Len(file') /\ file'[i - n] = file[i]
            BY <4>3, <5>2
          <6> QED BY <6>1
        <5> QED BY <5>1, <5>2
      <4>8. NoneMissing'
        BY <3>1, <4>7, NoneMissingStep DEF Custody
      <4> QED BY <4>5, <4>6, <4>8 DEF Custody
    <3> QED BY <3>2, <3>3
  <2> QED BY <1>5, <2>1, <2>2 DEF FlusherStep
<1>6. ASSUME NEW t \in Threads, GaugeStep(t) PROVE Custody'
  BY <1>6, CustodyQuiet
  DEF GaugeStep, Measure, SetGauge, bufferVars, linkVars, historyVars
<1>7. CASE Tick \/ (\E readable \in BOOLEAN : CheckLen(readable))
  BY <1>7, CustodyQuiet
  DEF Tick, CheckLen, bufferVars, linkVars, historyVars
<1>8. CASE LinkDown \/ LinkUpDeaf \/ (\E f \in Reconnects : LinkUp(f))
  BY <1>8, CustodyQuiet
  DEF LinkUp, ComesUp, LinkUpDeaf, LinkDown, bufferVars, threadVars, historyVars
<1>9. ASSUME NEW e \in Events, Deliver(e) PROVE Custody'
  BY <1>9, CustodyQuiet DEF Deliver, Arrives, bufferVars, threadVars, historyVars
<1>10. CASE Restart
  <2> USE <1>10 DEF Restart
  <2>1. \A h \in Handlers : hand'[h] = <<>>
    BY DEF Threads
  <2>2. ASSUME NEW h \in Handlers, NEW e \in Events, hand[h] = <<e>>
        PROVE  e \in dropped'
    <3>1. e \in Range(hand[h])
      BY <2>2 DEF Range
    <3> QED BY <3>1
  <2>3. Separate' /\ OnlyTaken'
    <3>1. \A h \in Handlers : \A x : hand'[h] # <<x>>
      <4>1. \A x : <<x>> # <<>>
        OBVIOUS
      <4> QED BY <2>1, <4>1
    <3>2. Separate'
      BY <3>1 DEF Custody, Separate
    <3>3. OnlyTaken'
      BY <3>1 DEF Custody, OnlyTaken
    <3> QED BY <3>2, <3>3
  <2>4. taken \subseteq Events
    BY DEF Inv, TypeOK
  <2>5. NoneMissing'
    BY <2>2, <2>4 DEF Custody, NoneMissing
  <2> QED BY <2>3, <2>5 DEF Custody
<1>11. CASE UNCHANGED vars
  BY <1>11, CustodyQuiet DEF vars, bufferVars, threadVars, linkVars, historyVars
<1> QED
  BY <1>1, <1>2, <1>3, <1>4, <1>5, <1>6, <1>7, <1>8, <1>9, <1>10, <1>11
  DEF Next, HandlerStep

-----------------------------------------------------------------------------
(* The safety properties *)

(* Both invariants hold in every state. *)
LEMMA CustodyInvariance == Spec => [](Inv /\ Custody)
<1>1. Init => Inv /\ Custody
  BY InvInit, CustodyInit
<1>2. Inv /\ Custody /\ [Next]_vars => (Inv /\ Custody)'
  BY InvNext, CustodyNext
<1> QED BY <1>1, <1>2, PTL DEF Spec

(* What the handlers hold, as a set. *)
LEMMA InHandIs == HandlerHolds => InHand = {x \in Events : \E h \in Handlers : hand[h] = <<x>>}
<1> SUFFICES ASSUME HandlerHolds
             PROVE  InHand = {x \in Events : \E h \in Handlers : hand[h] = <<x>>}
  OBVIOUS
<1>1. \A x : Range(<<x>>) = {x}
  BY DEF Range
<1>2. Range(<<>>) = {}
  BY DEF Range
<1>3. ASSUME NEW h \in Handlers, NEW x
      PROVE  x \in Range(hand[h]) <=> x \in Events /\ hand[h] = <<x>>
  <2>1. CASE hand[h] = <<>>
    BY <1>2, <2>1
  <2>2. ASSUME NEW e \in Events, hand[h] = <<e>>
        PROVE  x \in Range(hand[h]) <=> x \in Events /\ hand[h] = <<x>>
    <3>1. x \in Range(hand[h]) <=> x = e
      BY <1>1, <2>2
    <3>2. hand[h] = <<x>> <=> x = e
      BY <2>2
    <3> QED BY <3>1, <3>2
  <2> QED BY <2>1, <2>2 DEF HandlerHolds
<1> QED BY <1>3 DEF InHand

(* No event an agent took is ever without a place, whatever the number of  *)
(* handlers and flushers and the capacity of the buffer.                   *)
THEOREM NoneUnaccounted == Spec => []Accounted
<1>1. Inv /\ Custody => Accounted
  <2> SUFFICES ASSUME Inv, Custody, NEW e \in taken
               PROVE  e \in InHand \union Range(file) \union delivered \union dropped
    BY DEF Accounted
  <2>1. CASE \E i \in 1..Len(file) : file[i] = e
    BY <2>1 DEF Range, Inv, TypeOK
  <2>2. CASE \E h \in Handlers : hand[h] = <<e>>
    BY <2>2, InHandIs DEF Inv, TypeOK
  <2> QED BY <2>1, <2>2 DEF Custody, NoneMissing
<1> QED BY <1>1, CustodyInvariance, PTL

(* ... and none ever has two: the agent makes no duplicates by itself.     *)
THEOREM NeverInTwoPlaces == Spec => []OnePlace
<1>1. Inv /\ Custody => OnePlace
  <2> SUFFICES ASSUME Inv, Custody PROVE OnePlace
    OBVIOUS
  <2>1. \A h \in Handlers : hand[h] = <<>> \/ \E e \in Events : hand[h] = <<e>>
    BY DEF Inv, HandlerHolds
  <2>2. Range(<<>>) = {} /\ \A x : Range(<<x>>) = {x}
    BY DEF Range
  <2>3. DOMAIN file = 1..Len(file)
    BY DEF Inv, TypeOK
  <2>4. IsInjective(file)
    BY <2>3 DEF IsInjective, Custody, Separate
  <2>5. ASSUME NEW h \in Handlers PROVE Range(hand[h]) \cap Range(file) = {}
    <3>1. CASE hand[h] = <<>>
      BY <2>2, <3>1
    <3>2. ASSUME NEW e \in Events, hand[h] = <<e>> PROVE e \notin Range(file)
      BY <2>3, <3>2 DEF Range, Custody, Separate
    <3> QED BY <2>1, <2>2, <3>1, <3>2
  <2>6. ASSUME NEW h \in Handlers, NEW g \in Handlers \ {h}
        PROVE  Range(hand[h]) \cap Range(hand[g]) = {}
    <3>1. CASE hand[h] = <<>> \/ hand[g] = <<>>
      BY <2>2, <3>1
    <3>2. ASSUME NEW d \in Events, hand[h] = <<d>>, NEW e \in Events, hand[g] = <<e>>
          PROVE  Range(hand[h]) \cap Range(hand[g]) = {}
      <4>1. d # e
        BY <3>2 DEF Custody, Separate
      <4>2. Range(hand[h]) = {d} /\ Range(hand[g]) = {e}
        BY <2>2, <3>2
      <4> QED BY <4>1, <4>2
    <3> QED BY <2>1, <3>1, <3>2
  <2> QED BY <2>4, <2>5, <2>6 DEF OnePlace
<1> QED BY <1>1, CustodyInvariance, PTL

(* A rewrite removes exactly what the drain published: it cannot undo an   *)
(* Add or remove an undelivered event, however the drain ended.            *)
LEMMA RewriteRemovesDelivered ==
  ASSUME Inv, NEW f \in Flushers, NEW writable \in BOOLEAN, Rewrite(f, writable)
  PROVE  \E n \in 0..Len(file) :
           /\ file' = SubSeq(file, n + 1, Len(file))
           /\ \A i \in 1..n : file[i] \in delivered
<1>1. CASE writable
  BY <1>1 DEF Rewrite, Inv, DrainSuffix, Draining
<1>2. CASE ~writable
  <2>1. file' = SubSeq(file, 0 + 1, Len(file)) /\ 0 \in 0..Len(file)
    BY <1>2, WholeSuffix DEF Rewrite, Inv, TypeOK
  <2>2. \A i \in 1..0 : file[i] \in delivered
    OBVIOUS
  <2> QED BY <2>1, <2>2
<1> QED BY <1>1, <1>2

(* An Add appends the handler's event and gives up the oldest of a full file. *)
LEMMA AddAppends ==
  ASSUME Inv, NEW h \in Handlers, Add(h)
  PROVE  \E e \in Events :
           /\ hand[h] = <<e>>
           /\ \/ /\ Len(file) < Capacity /\ file' = Append(file, e)
                 /\ dropped' = dropped
              \/ /\ Len(file) = Capacity /\ file' = Append(Tail(file), e)
                 /\ dropped' = dropped \union {Head(file)}
<1>1. PICK e \in Events : hand[h] = <<e>>
  BY DEF Inv, HandlerHolds, Add
<1>2. file \in Seq(Events) /\ Len(file) \in Nat /\ Len(file) <= Capacity
  BY DEF Inv, TypeOK
<1>3. /\ file' = Newest(Append(file, e))
      /\ dropped' = dropped \union {file[i] : i \in 1..(Len(file) + 1 - Len(file'))}
  BY <1>1 DEF Add
<1>4. CASE Len(file) < Capacity /\ file' = Append(file, e)
  <2>1. Len(file) + 1 - Len(file') = 0
    BY <1>2, <1>4
  <2>2. dropped' = dropped
    BY <1>3, <2>1
  <2> QED BY <1>1, <1>4, <2>2
<1>5. CASE Len(file) = Capacity /\ file # <<>> /\ file' = Append(Tail(file), e)
  <2>1. Len(file) + 1 - Len(file') = 1 /\ Head(file) = file[1]
    BY <1>2, <1>5
  <2>2. dropped' = dropped \union {Head(file)}
    BY <1>3, <2>1
  <2> QED BY <1>1, <1>5, <2>2
<1> QED BY <1>2, <1>3, <1>4, <1>5, NewestAppend

(* The file changes only by losing delivered events from its old end or by *)
(* gaining one at its new end: of all steps only Add and Rewrite touch it. *)
THEOREM SpoolDisciplined == Spec => SpoolDiscipline
<1>1. Inv /\ [Next]_vars => [SpoolStep]_vars
  <2> SUFFICES ASSUME Inv, Next PROVE SpoolStep
    OBVIOUS
  <2>1. CASE UNCHANGED file
    <3>1. file = SubSeq(file, 0 + 1, Len(file)) /\ 0 \in 0..Len(file)
      BY WholeSuffix DEF Inv, TypeOK
    <3>2. \A i \in 1..0 : file[i] \in delivered
      OBVIOUS
    <3> QED BY <2>1, <3>1, <3>2 DEF SpoolStep
  <2>2. ASSUME NEW h \in Handlers, Add(h) PROVE SpoolStep
    BY <2>2, AddAppends DEF SpoolStep
  <2>3. ASSUME NEW f \in Flushers, NEW writable \in BOOLEAN, Rewrite(f, writable)
        PROVE  SpoolStep
    BY <2>3, RewriteRemovesDelivered DEF SpoolStep
  <2> QED
    BY <2>1, <2>2, <2>3
    DEF Next, HandlerStep, FlusherStep, PublishStep, GaugeStep, Take, AddFails, DrainStart,
        Gate, Call, PublishOk, ReturnsNil, PublishErr, ReturnsError, Measure, SetGauge, Tick, CheckLen,
        LinkUp, ComesUp, LinkUpDeaf, LinkDown, Deliver, Arrives, Restart, bufferVars
<1> QED BY <1>1, Invariance, PTL DEF Spec, SpoolDiscipline

-----------------------------------------------------------------------------
(* EdgeAgent implements StoreForward: its threads, its lock, its gauge and *)
(* the waiting in Publish are details of taking, spooling, settling and    *)
(* pruning events.  Every step is one of those or a stutter.               *)

(* Only flushers' hands change, which StoreForward does not see. *)
LEMMA HandsKept ==
  ASSUME \A h \in Handlers : hand'[h] = hand[h]
  PROVE  InHand' = InHand
  BY DEF InHand

(* The same in the next state. *)
LEMMA InHandIsNext ==
  HandlerHolds' => InHand' = {x \in Events : \E h \in Handlers : hand'[h] = <<x>>}
<1>1. (HandlerHolds => InHand = {x \in Events : \E h \in Handlers : hand[h] = <<x>>})'
  BY InHandIs, PTL
<1> QED BY <1>1

(* Taking adds exactly one event to the hands. *)
LEMMA HandsTake ==
  ASSUME HandlerHolds, HandlerHolds', NEW h \in Handlers, NEW e \in Events,
         hand[h] = <<>>, hand'[h] = <<e>>, \A g \in Handlers \ {h} : hand'[g] = hand[g]
  PROVE  InHand' = InHand \union {e}
<1>1. \A x : <<x>> # <<>>
  OBVIOUS
<1>2. \A x : <<x>> = <<e>> <=> x = e
  OBVIOUS
<1>3. ASSUME NEW x \in Events
      PROVE  (\E g \in Handlers : hand'[g] = <<x>>) <=>
               (x = e \/ \E g \in Handlers : hand[g] = <<x>>)
  BY <1>1, <1>2
<1> QED BY <1>3, InHandIs, InHandIsNext

(* Letting go takes exactly that event out of the hands. *)
LEMMA HandsLetGo ==
  ASSUME HandlerHolds, HandlerHolds', Separate, NEW h \in Handlers, NEW e \in Events,
         hand[h] = <<e>>, hand'[h] = <<>>, \A g \in Handlers \ {h} : hand'[g] = hand[g]
  PROVE  e \in InHand /\ InHand' = InHand \ {e}
<1>1. \A x : <<x>> # <<>>
  OBVIOUS
<1>2. \A x : <<x>> = <<e>> <=> x = e
  OBVIOUS
<1>3. ASSUME NEW x \in Events
      PROVE  (\E g \in Handlers : hand'[g] = <<x>>) <=>
               (x # e /\ \E g \in Handlers : hand[g] = <<x>>)
  BY <1>1, <1>2 DEF Separate
<1> QED BY <1>3, InHandIs, InHandIsNext

(* Every step of the agent is a step of the promise or a stutter. *)
LEMMA StepRefines == Inv /\ Inv' /\ Custody /\ [Next]_vars => [Promise!Next]_(Promise!vars)
<1> SUFFICES ASSUME Inv, Inv', Custody, Next PROVE Promise!Next \/ UNCHANGED Promise!vars
  <2>1. CASE UNCHANGED vars
    BY <2>1 DEF vars, bufferVars, threadVars, linkVars, historyVars, Promise!vars, InHand
  <2> QED BY <2>1
<1> USE ThreadsAssumption
<1> HandlerHolds /\ HandlerHolds' /\ Separate
  BY DEF Inv, Custody
<1> DEFINE Stutter == /\ UNCHANGED <<taken, file, delivered, dropped>>
                      /\ \A h \in Handlers : hand'[h] = hand[h]
<1>1. ASSUME Stutter PROVE UNCHANGED Promise!vars
  BY <1>1, HandsKept DEF Promise!vars
<1>2. ASSUME NEW t \in Threads, PublishStep(t)
      PROVE  Stutter \/ \E e \in Events : Promise!Settle(e)
  <2>1. CASE Gate(t) \/ Call(t) \/ PublishErr(t)
    BY <2>1 DEF Gate, Call, PublishErr, ReturnsError, bufferVars, linkVars, historyVars
  <2>2. CASE PublishOk(t)
    <3> USE <2>2 DEF PublishOk, ReturnsNil, bufferVars, linkVars, historyVars
    <3>1. CASE t \in Handlers
      <4>1. PICK e \in Events : hand[t] = <<e>>
        BY <3>1, SomethingToPublish
      <4>2. e \in delivered /\ Tail(hand[t]) = <<>>
        BY <4>1
      <4>3. hand'[t] = <<>> /\ \A h \in Handlers \ {t} : hand'[h] = hand[h]
        BY <4>2 DEF Inv, TypeOK, Threads
      <4>4. e \in InHand /\ InHand' = InHand \ {e}
        BY <3>1, <4>1, <4>3, HandsLetGo
      <4>5. Promise!Settle(e)
        BY <4>2, <4>4 DEF Promise!Settle
      <4> QED BY <4>5
    <3>2. CASE t \in Flushers
      BY <3>2 DEF Inv, TypeOK, Threads
    <3> QED BY <3>1, <3>2 DEF Threads
  <2> QED BY <1>2, <2>1, <2>2 DEF PublishStep
<1>3. ASSUME NEW h \in Handlers, NEW e \in Events, Take(h, e) PROVE Promise!Take(e)
  <2>1. hand[h] = <<>> /\ hand'[h] = <<e>> /\ \A g \in Handlers \ {h} : hand'[g] = hand[g]
    BY <1>3 DEF Take, Inv, TypeOK, HandlerHolds, Threads
  <2>2. InHand' = InHand \union {e}
    BY <2>1, HandsTake
  <2> QED BY <1>3, <2>2 DEF Take, bufferVars, linkVars, Promise!Take
<1>4. ASSUME NEW h \in Handlers, Add(h) PROVE \E e \in Events : Promise!Spool(e)
  <2>1. PICK e \in Events :
          /\ hand[h] = <<e>>
          /\ \/ /\ Len(file) < Capacity /\ file' = Append(file, e)
                /\ dropped' = dropped
             \/ /\ Len(file) = Capacity /\ file' = Append(Tail(file), e)
                /\ dropped' = dropped \union {Head(file)}
    BY <1>4, AddAppends
  <2>2. hand'[h] = <<>> /\ \A g \in Handlers \ {h} : hand'[g] = hand[g]
    BY <1>4 DEF Add, Inv, TypeOK, Threads
  <2>3. e \in InHand /\ InHand' = InHand \ {e}
    BY <2>1, <2>2, HandsLetGo
  <2>4. Promise!Spool(e)
    BY <1>4, <2>1, <2>3 DEF Add, linkVars, Promise!Spool
  <2> QED BY <2>4
<1>5. ASSUME NEW h \in Handlers, AddFails(h) PROVE \E e \in Events : Promise!Refuse(e)
  <2>1. PICK e \in Events : hand[h] = <<e>>
    BY <1>5 DEF AddFails, Inv, HandlerHolds
  <2>2. hand'[h] = <<>> /\ \A g \in Handlers \ {h} : hand'[g] = hand[g]
    BY <1>5 DEF AddFails, Inv, TypeOK, Threads
  <2>3. e \in InHand /\ InHand' = InHand \ {e}
    BY <2>1, <2>2, HandsLetGo
  <2>4. dropped' = dropped \union {e}
    BY <1>5, <2>1 DEF AddFails
  <2>5. Promise!Refuse(e)
    BY <1>5, <2>3, <2>4 DEF AddFails, bufferVars, linkVars, Promise!Refuse
  <2> QED BY <2>5
<1>6. ASSUME NEW f \in Flushers, FlusherStep(f)
      PROVE  Stutter \/ \E n \in 0..Len(file) : Promise!Prune(n)
  <2>1. ASSUME NEW readable \in BOOLEAN, DrainStart(f, readable) PROVE Stutter
    BY <2>1 DEF DrainStart, Inv, TypeOK, Threads, linkVars, historyVars
  <2>2. ASSUME NEW writable \in BOOLEAN, Rewrite(f, writable)
        PROVE  \E n \in 0..Len(file) : Promise!Prune(n)
    <3>1. PICK n \in 0..Len(file) :
            /\ file' = SubSeq(file, n + 1, Len(file))
            /\ \A i \in 1..n : file[i] \in delivered
      BY <2>2, RewriteRemovesDelivered
    <3>2. InHand' = InHand
      BY <2>2, HandsKept DEF Rewrite, Inv, TypeOK, Threads
    <3>3. Promise!Prune(n)
      BY <2>2, <3>1, <3>2 DEF Rewrite, linkVars, historyVars, Promise!Prune
    <3> QED BY <3>3
  <2> QED BY <1>6, <2>1, <2>2 DEF FlusherStep
<1>7. ASSUME NEW t \in Threads, GaugeStep(t) PROVE Stutter
  BY <1>7 DEF GaugeStep, Measure, SetGauge, bufferVars, linkVars, historyVars
<1>8. CASE Tick \/ (\E readable \in BOOLEAN : CheckLen(readable))
  <2>1. Stutter
    BY <1>8 DEF Tick, CheckLen, bufferVars, linkVars, historyVars
  <2> QED BY <1>1, <2>1
<1>9. CASE LinkDown \/ LinkUpDeaf \/ (\E f \in Reconnects : LinkUp(f))
  <2>1. Stutter
    BY <1>9 DEF LinkUp, ComesUp, LinkUpDeaf, LinkDown, bufferVars, threadVars, historyVars
  <2> QED BY <1>1, <2>1
<1>10. ASSUME NEW e \in Events, Deliver(e) PROVE Promise!Deliver(e)
  <2>1. e \in taken
    BY <1>10 DEF Deliver, Arrives, Custody, OnlyTaken
  <2>2. InHand' = InHand
    BY <1>10, HandsKept DEF Deliver, Arrives, threadVars
  <2> QED BY <1>10, <2>1, <2>2 DEF Deliver, Arrives, bufferVars, historyVars, Promise!Deliver
<1>11. CASE Restart
  <2>1. InHand' = {}
    <3>1. \A h \in Handlers : hand'[h] = <<>>
      BY <1>11 DEF Restart, Threads
    <3>2. \A x : <<x>> # <<>>
      OBVIOUS
    <3> QED BY <3>1, <3>2, InHandIsNext
  <2>2. dropped' = dropped \union InHand
    BY <1>11 DEF Restart, InHand
  <2>3. Promise!Restart
    BY <1>11, <2>1, <2>2 DEF Restart, Promise!Restart
  <2> QED BY <2>3 DEF Promise!Next
<1> QED
  BY <1>1, <1>2, <1>3, <1>4, <1>5, <1>6, <1>7, <1>8, <1>9, <1>10, <1>11
  DEF Next, HandlerStep, Promise!Next

(* The agent keeps the promise of StoreForward for every number of events, *)
(* handlers and reconnects and every capacity: an event leaves its custody *)
(* because it is delivered or in one of the three named ways.              *)
THEOREM AgentImplementsPromise == Spec => Promised
<1>1. Init => Promise!Init
  <2>1. Init => InHand = {}
    BY InvInit, InHandIs DEF Init, Inv, HandlerHolds, Threads
  <2> QED BY <2>1 DEF Init, Promise!Init
<1> QED BY <1>1, StepRefines, CustodyInvariance, PTL DEF Spec, Promised, Promise!Spec
=============================================================================
