---------------------------- MODULE ComputeQueue ----------------------------
(***************************************************************************)
(* What RustComputeScheduler promises to the callers of schedule: at most  *)
(* Capacity operations run, at most MaxQueued wait, the longest waiting    *)
(* runs next, a caller that gives up leaves the others in order, and no    *)
(* capacity is idle while an operation waits.  ComputeScheduler is the     *)
(* linked list that implements it.                                         *)
(***************************************************************************)
EXTENDS ComputeBounds

VARIABLES
    waiting, \* the operations that wait, the oldest first
    running, \* the operations that have been started and not ended
    closed

queueVars == <<waiting, running, closed>>

Waiters == {waiting[i] : i \in DOMAIN waiting}

TypeOK ==
    /\ waiting \in Seq(Ops) /\ Len(waiting) <= MaxQueued
    /\ running \in SUBSET Ops
    /\ closed \in BOOLEAN

Init ==
    /\ waiting = <<>>
    /\ running = {}
    /\ closed = FALSE

(* schedule, when there is capacity *)
Start(o) ==
    /\ ~closed
    /\ o \notin running \cup Waiters
    /\ Cardinality(running) < Capacity
    /\ running' = running \cup {o}
    /\ UNCHANGED <<waiting, closed>>

(* schedule, when there is none *)
Wait(o) ==
    /\ ~closed
    /\ o \notin running \cup Waiters
    /\ Cardinality(running) >= Capacity
    /\ Len(waiting) < MaxQueued
    /\ waiting' = Append(waiting, o)
    /\ UNCHANGED <<running, closed>>

(* The queue timeout or an abort takes the operation at i out. *)
Withdraw(i) ==
    /\ waiting' = SubSeq(waiting, 1, i - 1) \o SubSeq(waiting, i + 1, Len(waiting))
    /\ UNCHANGED <<running, closed>>

(* A running operation ends and the oldest waiting one takes its place. *)
EndAndDrain(o) ==
    /\ o \in running
    /\ IF waiting = <<>>
       THEN running' = running \ {o} /\ waiting' = waiting
       ELSE running' = (running \ {o}) \cup {Head(waiting)} /\ waiting' = Tail(waiting)
    /\ UNCHANGED closed

Close ==
    /\ closed' = TRUE
    /\ waiting' = <<>>
    /\ UNCHANGED running

Next ==
    \/ \E o \in Ops : Start(o) \/ Wait(o) \/ EndAndDrain(o)
    \/ \E i \in DOMAIN waiting : Withdraw(i)
    \/ Close

Spec == Init /\ [][Next]_queueVars

-----------------------------------------------------------------------------
(* Properties *)

(* Capacity is never exceeded and never idle: an operation waits only while *)
(* all slots are taken, although slots are handed over by the finally of    *)
(* one operation while others time out, abort or arrive.                    *)
WorkConserving ==
    /\ Cardinality(running) <= Capacity
    /\ waiting # <<>> => Cardinality(running) = Capacity

(* An operation that waits is not running and waits once, so it is started  *)
(* at most once and its caller is answered at most once.                    *)
WaitsOnce ==
    /\ running \cap Waiters = {}
    /\ \A i, j \in DOMAIN waiting : waiting[i] = waiting[j] => i = j
=============================================================================
