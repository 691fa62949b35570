-------------------------- MODULE ComputeScheduler --------------------------
(***************************************************************************)
(* RustComputeScheduler: admission to the Rust compute sockets, with the   *)
(* waiting operations in a doubly linked list so that a timeout or an      *)
(* abort can take one out of the middle.  Every step is synchronous code.  *)
(*                                                                         *)
(* Definitions with a word after "_" are wrong on purpose, as in RunStore. *)
(***************************************************************************)
EXTENDS ComputeBounds

CONSTANT NoOp \* undefined

ASSUME ComputeSchedulerAssumption == NoOp \notin Ops

VARIABLES
    node,   \* the links of each operation's queue entry
    head,   \* queueHead
    tail,   \* queueTail
    count,  \* queuedCount
    active, \* active
    op,     \* where the promise of each schedule call stands
    closed

vars == <<node, head, tail, count, active, op, closed>>

Link == Ops \cup {NoOp}

Unlinked == [previous |-> NoOp, next |-> NoOp, queued |-> FALSE]

TypeOK ==
    /\ node \in [Ops -> [previous : Link, next : Link, queued : BOOLEAN]]
    /\ head \in Link
    /\ tail \in Link
    /\ count \in 0..MaxQueued
    /\ active \in 0..Capacity
    /\ op \in [Ops -> {"idle", "waiting", "active"}]
    /\ closed \in BOOLEAN

Init ==
    /\ node = [o \in Ops |-> Unlinked]
    /\ head = NoOp
    /\ tail = NoOp
    /\ count = 0
    /\ active = 0
    /\ op = [o \in Ops |-> "idle"]
    /\ closed = FALSE

-----------------------------------------------------------------------------
(* The list *)

(* enqueue *)
Enqueue(o) ==
    /\ node' = [p \in Ops |->
                  CASE p = o -> [previous |-> tail, next |-> NoOp, queued |-> TRUE]
                    [] p # o /\ p = tail -> [node[p] EXCEPT !.next = o]
                    [] OTHER -> node[p]]
    /\ head' = IF tail = NoOp THEN o ELSE head
    /\ tail' = o
    /\ count' = count + 1

(* removeQueued of an entry that is queued *)
Remove(o) ==
    LET before == node[o].previous
        after  == node[o].next
    IN /\ node' = [p \in Ops |->
                     CASE p = o -> Unlinked
                       [] p # o /\ p = before -> [node[p] EXCEPT !.next = after]
                       [] p \notin {o, before} /\ p = after -> [node[p] EXCEPT !.previous = before]
                       [] OTHER -> node[p]]
       /\ head' = IF before = NoOp THEN after ELSE head
       /\ tail' = IF after = NoOp THEN before ELSE tail
       /\ count' = count - 1

-----------------------------------------------------------------------------
Schedule_QueueFirst(o) ==
    /\ op[o] = "idle"
    /\ ~closed
    /\ count < MaxQueued
    /\ Enqueue(o)
    /\ op' = [op EXCEPT ![o] = "waiting"]
    /\ UNCHANGED <<active, closed>>

(* schedule, on a scheduler that is open and with a signal that is not aborted *)
Schedule(o) ==
    /\ op[o] = "idle"
    /\ ~closed
    /\ \/ /\ active < Capacity
          /\ active' = active + 1
          /\ op' = [op EXCEPT ![o] = "active"]
          /\ UNCHANGED <<node, head, tail, count, closed>>
       \/ /\ active >= Capacity
          /\ count < MaxQueued
          /\ Enqueue(o)
          /\ op' = [op EXCEPT ![o] = "waiting"]
          /\ UNCHANGED <<active, closed>>

(* The queue timer and the abort listener of an entry that is still queued. *)
(* The one that comes first clears the other.                               *)
GiveUp(o) ==
    /\ node[o].queued
    /\ Remove(o)
    /\ op' = [op EXCEPT ![o] = "idle"]
    /\ UNCHANGED <<active, closed>>

(* The finally of start, and drain.  One operation is shifted: entries are  *)
(* queued only while active is at the capacity, so one slot is free.  Its   *)
(* signal is not aborted, or its listener would have removed it.            *)
OperationEnds(o) ==
    /\ op[o] = "active"
    /\ IF ~closed /\ count > 0
       THEN /\ Remove(head)
            /\ active' = active
            /\ op' = [op EXCEPT ![o] = "idle", ![head] = "active"]
       ELSE /\ active' = active - 1
            /\ op' = [op EXCEPT ![o] = "idle"]
            /\ UNCHANGED <<node, head, tail, count>>
    /\ UNCHANGED closed

(* close shifts every entry and rejects it; what runs goes on. *)
Close ==
    /\ ~closed
    /\ closed' = TRUE
    /\ node' = [o \in Ops |-> Unlinked]
    /\ head' = NoOp
    /\ tail' = NoOp
    /\ count' = 0
    /\ op' = [o \in Ops |-> IF op[o] = "waiting" THEN "idle" ELSE op[o]]
    /\ UNCHANGED active

Next == (\E o \in Ops : Schedule(o) \/ GiveUp(o) \/ OperationEnds(o)) \/ Close

Spec == Init /\ [][Next]_vars

-----------------------------------------------------------------------------
(* Properties *)

(* The entry at each place of the list, counted from its head *)
Place[i \in 1..MaxQueued] ==
    IF i = 1 THEN head
    ELSE IF Place[i - 1] = NoOp THEN NoOp ELSE node[Place[i - 1]].next

Queue == INSTANCE ComputeQueue
    WITH waiting <- [i \in 1..count |-> Place[i]],
         running <- {o \in Ops : op[o] = "active"}

(* The list behaves as the queue: whatever mixture of arrivals, timeouts,   *)
(* aborts, ends and close, it starts the operations in order, loses none    *)
(* and keeps no capacity idle.                                              *)
ImplementsQueue == Queue!Spec
=============================================================================
