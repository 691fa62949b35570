-------------------------- MODULE RunServiceProofs --------------------------
(***************************************************************************)
(* What the in-process executor of RunService promises, for any runs, any  *)
(* calls and any number of slots.                                          *)
(***************************************************************************)
EXTENDS RunService, FiniteSetTheorems, SequenceTheorems, TLAPS

(* A call that is under way has a run; only those of enqueue are counted    *)
(* against the limits, queued and terminalized; a retry knows the status it *)
(* found.                                                                   *)
CallsInv ==
    /\ call \in [Calls -> CallState]
    /\ \A c \in Calls :
         /\ ~At(c, {"idle"}) => RunOf(c) \in Runs
         /\ At(c, {"limits", "reject", "push", "queued", "terminalize"}) => call[c].kind = "enqueue"
         /\ At(c, {"activate"}) => call[c].kind = "execute"
         /\ At(c, {"retry"}) => call[c].expected # "none"

(* The queue holds the calls that wait, each once. *)
QueueInv ==
    /\ queue \in Seq(Calls)
    /\ \A i, j \in 1..Len(queue) : queue[i] = queue[j] => i = j
    /\ \A c \in Calls : At(c, {"queued"}) <=> \E i \in 1..Len(queue) : queue[i] = c

(* Never more tasks than slots, and no free slot while one waits: each end  *)
(* of a task hands on the slot it frees.                                    *)
SlotsInv ==
    phase = "accepting" =>
        /\ IsFiniteSet(Occupied(call))
        /\ Cardinality(Occupied(call)) <= MaxConcurrent
        /\ queue # <<>> => Cardinality(Occupied(call)) = MaxConcurrent

ExecutorInv == CallsInv /\ QueueInv /\ SlotsInv

(* A queued run, and a running one, has somebody who will not leave before  *)
(* the row has another status.                                              *)
WillStart == {"reread", "limits", "reject", "push", "queued", "mark", "terminalize", "cancelRow", "failRow"}
WillEnd   == {"activate", "check", "task", "finish", "store", "catch", "cancelRow", "failRow"}

Cared(r, pcs) ==
    canceller[r] = "cancelRow" \/ \E c \in Calls : RunOf(c) = r /\ At(c, pcs)

CareInv ==
    /\ status \in [Runs -> {"none"} \cup Active \cup Finished]
    /\ canceller \in [Runs -> {"none", "deliver", "cancelRow"}]
    /\ \A r \in Runs :
         /\ status[r] = "queued" => Cared(r, WillStart)
         /\ status[r] = "running" => Cared(r, WillEnd)

(* Once close has spliced the queue nothing is admitted, and at its end     *)
(* nothing is left.                                                         *)
ClosingInv ==
    /\ phase \in {"accepting", "closing", "draining", "closed"}
    /\ phase \in {"draining", "closed"} =>
         /\ queue = <<>>
         /\ \A c \in Calls : ~InAdmission(c)
         /\ \A r \in Runs : canceller[r] = "none"
    /\ phase = "closed" => \A c \in Calls : At(c, {"idle"})

(* When requests are not repeated: a run has one call that has not written  *)
(* its end, and its controller is the registered one.                       *)
SingleInv ==
    /\ \A c, d \in Calls :
         RunOf(c) = RunOf(d) /\ ~At(c, {"idle", "leave"}) /\ ~At(d, {"idle", "leave"}) => c = d
    /\ active \in [Runs -> Calls \cup {NoCall}]
    /\ \A c \in Calls :
         /\ At(c, Started) \/ (At(c, {"mark"}) /\ call[c].kind = "enqueue") => active[RunOf(c)] = c
         /\ At(c, {"activate"} \cup Started) => status[RunOf(c)] # "queued"

ResultInv ==
    /\ stored \in [Runs -> Calls \cup {NoCall}]
    /\ \A r \in Runs : stored[r] # NoCall => status[r] = "completed"

FullInv == ExecutorInv /\ CareInv /\ ClosingInv

-----------------------------------------------------------------------------
(* What the steps of one call have in common                               *)

Moved(c, pc) ==
    /\ call' \in [Calls -> CallState]
    /\ \A d \in Calls \ {c} : call'[d] = call[d]
    /\ call'[c].at = pc
    /\ pc # "idle" => call'[c].kind = call[c].kind /\ call'[c].run = call[c].run

(* It neither waits before nor after, it takes or frees no slot, and it is  *)
(* not admitted again.                                                      *)
Turn(c, pc) ==
    /\ Moved(c, pc)
    /\ ~At(c, {"idle", "queued"})
    /\ pc \notin {"queued", "retry", "terminalize"}
    /\ pc \in {"limits", "reject", "push"} => call[c].kind = "enqueue"
    /\ pc = "activate" => call[c].kind = "execute"
    /\ call[c].kind = "enqueue" => (At(c, Admitting) <=> pc \in Admitting \cup {"idle"})
    /\ pc \in Admitting => At(c, Admitting)
    /\ UNCHANGED <<queue, canceller, phase>>

(* It leaves no open run that relied on it. *)
Tended(c, pc) ==
    LET r == RunOf(c)
    IN  /\ status' \in [Runs -> {"none"} \cup Active \cup Finished]
        /\ \A q \in Runs \ {r} : status'[q] = status[q]
        /\ status'[r] = "queued" => pc \in WillStart \/ (status[r] = "queued" /\ ~At(c, WillStart))
        /\ status'[r] = "running" => pc \in WillEnd \/ (status[r] = "running" /\ ~At(c, WillEnd))

Reasons == {"none", "cancelled", "closed", "deadline", "other"}
Signals == {"none", "cancelled", "closed", "deadline"}

LEMMA FieldAt ==
    ASSUME NEW e \in CallState, NEW pc \in PC
    PROVE  LET n == [e EXCEPT !.at = pc]
           IN  n \in CallState /\ n.at = pc /\ n.kind = e.kind /\ n.run = e.run
  BY DEF CallState

LEMMA FieldError ==
    ASSUME NEW e \in CallState, NEW error \in Reasons
    PROVE  LET n == [e EXCEPT !.error = error]
           IN  n \in CallState /\ n.at = e.at /\ n.kind = e.kind /\ n.run = e.run
  BY DEF CallState, Reasons

LEMMA FieldSignal ==
    ASSUME NEW e \in CallState, NEW signal \in Signals
    PROVE  LET n == [e EXCEPT !.signal = signal]
           IN  /\ n \in CallState /\ n.at = e.at /\ n.kind = e.kind /\ n.run = e.run
               /\ n.signal = signal /\ n.expected = e.expected
  BY DEF CallState, Signals

LEMMA GoesMoves ==
    ASSUME call \in [Calls -> CallState], NEW c \in Calls, NEW pc \in PC, Goes(c, pc)
    PROVE  Moved(c, pc)
  BY DEF Goes, Moved, CallState

LEMMA FailsMoves ==
    ASSUME call \in [Calls -> CallState], NEW c \in Calls, NEW error \in Reasons, Fails(c, error)
    PROVE  Moved(c, "catch")
  <1> DEFINE mid  == [call[c] EXCEPT !.at = "catch"]
             next == [mid EXCEPT !.error = error]
  <1>1. call' = [call EXCEPT ![c] = next]
    BY DEF Fails
  <1>2. mid \in CallState /\ mid.at = "catch" /\ mid.kind = call[c].kind /\ mid.run = call[c].run
    BY FieldAt DEF PC
  <1> HIDE DEF mid
  <1>3. next \in CallState /\ next.at = "catch" /\ next.kind = call[c].kind /\ next.run = call[c].run
    BY <1>2, FieldError
  <1> HIDE DEF next
  <1>4. QED
    BY <1>1, <1>3 DEF Moved

LEMMA SettlesMoves ==
    ASSUME call \in [Calls -> CallState], NEW c \in Calls, NEW pc \in PC, Settles(c, pc)
    PROVE  Moved(c, pc)
  <1> DEFINE mid  == [call[c] EXCEPT !.at = pc]
             calm == [mid EXCEPT !.error = "none"]
             next == [calm EXCEPT !.signal = "none"]
  <1>1. call' = [call EXCEPT ![c] = next]
    BY DEF Settles
  <1>2. mid \in CallState /\ mid.at = pc /\ mid.kind = call[c].kind /\ mid.run = call[c].run
    BY FieldAt
  <1> HIDE DEF mid
  <1>3. calm \in CallState /\ calm.at = pc /\ calm.kind = call[c].kind /\ calm.run = call[c].run
    BY <1>2, FieldError DEF Reasons
  <1> HIDE DEF calm
  <1>4. next \in CallState /\ next.at = pc /\ next.kind = call[c].kind /\ next.run = call[c].run
    BY <1>3, FieldSignal DEF Signals
  <1> HIDE DEF next
  <1>5. QED
    BY <1>1, <1>4 DEF Moved

LEMMA CancelMoves ==
    ASSUME call \in [Calls -> CallState], NEW c \in Calls,
           call' = [call EXCEPT ![c].at = "catch", ![c].error = "cancelled", ![c].signal = "cancelled"]
    PROVE  Moved(c, "catch")
  <1> DEFINE mid  == [call[c] EXCEPT !.at = "catch"]
             told == [mid EXCEPT !.error = "cancelled"]
             next == [told EXCEPT !.signal = "cancelled"]
  <1>1. call' = [call EXCEPT ![c] = next]
    OBVIOUS
  <1>2. mid \in CallState /\ mid.at = "catch" /\ mid.kind = call[c].kind /\ mid.run = call[c].run
    BY FieldAt DEF PC
  <1> HIDE DEF mid
  <1>3. told \in CallState /\ told.at = "catch" /\ told.kind = call[c].kind /\ told.run = call[c].run
    BY <1>2, FieldError DEF Reasons
  <1> HIDE DEF told
  <1>4. next \in CallState /\ next.at = "catch" /\ next.kind = call[c].kind /\ next.run = call[c].run
    BY <1>3, FieldSignal DEF Signals
  <1> HIDE DEF next
  <1>5. QED
    BY <1>1, <1>4 DEF Moved

LEMMA EndsMoves ==
    ASSUME call \in [Calls -> CallState], NEW c \in Calls, Ends(c)
    PROVE  Moved(c, "idle") /\ call'[c] = IdleCall
  BY DEF Ends, Moved, CallState, IdleCall, PC

LEMMA SetsRow ==
    ASSUME status \in [Runs -> {"none"} \cup Active \cup Finished], NEW r \in Runs,
           NEW from, NEW to \in Active \cup Finished, Sets(r, from, to)
    PROVE  /\ status' \in [Runs -> {"none"} \cup Active \cup Finished]
           /\ \A q \in Runs \ {r} : status'[q] = status[q]
           /\ status'[r] = IF status[r] \in from THEN to ELSE status[r]
  BY DEF Sets

-----------------------------------------------------------------------------
LEMMA AdmissionTurns ==
    ASSUME CallsInv, CareInv, NEW c \in Calls,
           Retry(c) \/ Reread(c) \/ CountActive(c) \/ Reject(c)
    PROVE  \E pc \in PC : Turn(c, pc) /\ Tended(c, pc)
  <1> USE DEF Admitting, WillStart, WillEnd, At
  <1> DEFINE r == RunOf(c)
  <1>1. /\ call \in [Calls -> CallState]
        /\ status \in [Runs -> {"none"} \cup Active \cup Finished]
        /\ ~At(c, {"idle"}) => r \in Runs
        /\ At(c, {"limits", "reject", "push", "queued", "terminalize"}) => call[c].kind = "enqueue"
    BY DEF CallsInv, CareInv
  <1>2. {"idle", "reread", "limits", "reject", "push", "mark"} \subseteq PC
    BY DEF PC
  <1>3. CASE Retry(c) /\ status[r] = call[c].expected
    <2>1. Moved(c, "reread")
      BY <1>1, <1>2, <1>3 DEF Retry, Moved, CallState, RunOf
    <2>2. Turn(c, "reread") /\ Tended(c, "reread")
      BY <1>1, <1>3, <2>1 DEF Retry, Turn, Tended, Active
    <2>3. QED
      BY <1>2, <2>2
  <1>4. CASE Retry(c) /\ status[r] # call[c].expected
    <2>1. Moved(c, "idle")
      BY <1>1, <1>4, EndsMoves DEF Retry
    <2>2. Turn(c, "idle") /\ Tended(c, "idle")
      BY <1>1, <1>4, <2>1 DEF Retry, Turn, Tended
    <2>3. QED
      BY <1>2, <2>2
  <1>5. CASE Reread(c) /\ call[c].kind = "execute"
    <2>1. Moved(c, "mark")
      BY <1>1, <1>2, <1>5, GoesMoves DEF Reread
    <2>2. Turn(c, "mark") /\ Tended(c, "mark")
      BY <1>1, <1>5, <2>1 DEF Reread, Turn, Tended
    <2>3. QED
      BY <1>2, <2>2
  <1>6. CASE Reread(c) /\ call[c].kind # "execute" /\ status[r] = "queued"
    <2>1. Moved(c, "limits")
      BY <1>1, <1>2, <1>6, GoesMoves DEF Reread
    <2>2. Turn(c, "limits") /\ Tended(c, "limits")
      BY <1>1, <1>6, <2>1 DEF Reread, Turn, Tended
    <2>3. QED
      BY <1>2, <2>2
  <1>7. CASE Reread(c) /\ call[c].kind # "execute" /\ status[r] # "queued"
    <2>1. Moved(c, "idle")
      BY <1>1, <1>7, EndsMoves DEF Reread
    <2>2. Turn(c, "idle") /\ Tended(c, "idle")
      BY <1>1, <1>7, <2>1 DEF Reread, Turn, Tended
    <2>3. QED
      BY <1>2, <2>2
  <1>8. CASE CountActive(c)
    <2>1. PICK pc \in {"reject", "push"} : Goes(c, pc)
      BY <1>8 DEF CountActive
    <2>2. Moved(c, pc) /\ pc \in PC
      BY <1>1, <1>2, <2>1, GoesMoves
    <2>3. Turn(c, pc) /\ Tended(c, pc)
      BY <1>1, <1>8, <2>2 DEF CountActive, Turn, Tended
    <2>4. QED
      BY <2>2, <2>3
  <1>9. CASE Reject(c)
    <2>1. Moved(c, "idle")
      BY <1>1, <1>9, EndsMoves DEF Reject
    <2>2. /\ status' \in [Runs -> {"none"} \cup Active \cup Finished]
          /\ \A q \in Runs \ {r} : status'[q] = status[q]
          /\ status'[r] = IF status[r] \in Active THEN "failed" ELSE status[r]
      BY <1>1, <1>9, SetsRow DEF Reject, Finished
    <2>3. Turn(c, "idle") /\ Tended(c, "idle")
      BY <1>1, <1>9, <2>1, <2>2 DEF Reject, Turn, Tended, Active
    <2>4. QED
      BY <1>2, <2>3
  <1>10. QED
    BY <1>3, <1>4, <1>5, <1>6, <1>7, <1>8, <1>9

(* The same of an execution: a step that leaves the row open stays with it. *)
LEMMA ExecutionTurns ==
    ASSUME CallsInv, CareInv, NEW c \in Calls,
           \/ MarkRunning(c) \/ Skip(c) \/ Activate(c) \/ Check(c) \/ TaskEnds(c) \/ Complete(c)
           \/ Unstored(c) \/ Catch(c) \/ CancelRow(c) \/ FailRow(c) \/ Terminalize(c)
           \/ Leave(c) /\ call[c].kind = "execute"
           \/ DeadlineTimer(c)
    PROVE  \E pc \in PC : Turn(c, pc) /\ Tended(c, pc)
  <1> USE DEF Admitting, Started, WillStart, WillEnd, At
  <1> DEFINE r == RunOf(c)
  <1>1. /\ call \in [Calls -> CallState]
        /\ status \in [Runs -> {"none"} \cup Active \cup Finished]
        /\ ~At(c, {"idle"}) => r \in Runs
        /\ At(c, {"activate"}) => call[c].kind = "execute"
        /\ At(c, {"terminalize"}) => call[c].kind = "enqueue"
    BY DEF CallsInv, CareInv
  <1>2. /\ call[c].signal \in Reasons
        /\ call[c].at \in PC
        /\ call[c].kind \in {"enqueue", "execute"}
    BY <1>1 DEF CallState, Reasons
  <1>3. {"idle", "activate", "check", "skip", "cancelRow", "failRow", "leave", "catch", "task",
         "finish", "store", "unstored"} \subseteq PC
    BY DEF PC
  <1>4. CASE MarkRunning(c) /\ status[r] = "queued"
    <2>1. PICK pc \in {"activate", "check"} :
             Goes(c, pc) /\ (pc = "activate" <=> call[c].kind = "execute")
      BY <1>4 DEF MarkRunning
    <2>2. Moved(c, pc) /\ pc \in PC
      BY <1>1, <1>3, <2>1, GoesMoves
    <2>3. Turn(c, pc)
      BY <1>2, <1>4, <2>1, <2>2 DEF MarkRunning, Turn
    <2>4. Tended(c, pc)
      BY <1>1, <1>4, <2>1 DEF MarkRunning, Tended, Active
    <2>5. QED
      BY <2>2, <2>3, <2>4
  <1>5. CASE MarkRunning(c) /\ status[r] # "queued" /\ call[c].kind = "execute"
    <2>1. Moved(c, "idle")
      BY <1>1, <1>5, EndsMoves DEF MarkRunning
    <2>2. Turn(c, "idle") /\ Tended(c, "idle")
      BY <1>1, <1>5, <2>1 DEF MarkRunning, Turn, Tended
    <2>3. QED
      BY <1>3, <2>2
  <1>6. CASE MarkRunning(c) /\ status[r] # "queued" /\ call[c].kind # "execute"
    <2>1. Moved(c, "skip")
      BY <1>1, <1>3, <1>6, GoesMoves DEF MarkRunning
    <2>2. Turn(c, "skip") /\ Tended(c, "skip")
      BY <1>1, <1>6, <2>1 DEF MarkRunning, Turn, Tended
    <2>3. QED
      BY <1>3, <2>2
  <1>7. CASE Skip(c)
    <2>1. PICK pc \in {"cancelRow", "leave"} : Settles(c, pc)
      BY <1>7 DEF Skip
    <2>2. Moved(c, pc) /\ pc \in PC
      BY <1>1, <1>3, <2>1, SettlesMoves
    <2>3. Turn(c, pc) /\ Tended(c, pc)
      BY <1>1, <1>7, <2>2 DEF Skip, Turn, Tended
    <2>4. QED
      BY <2>2, <2>3
  <1>8. CASE Activate(c)
    <2> DEFINE mid  == [call[c] EXCEPT !.at = "check"]
               next == [mid EXCEPT !.signal = ShutdownSignal]
    <2>1. call' = [call EXCEPT ![c] = next]
      BY <1>8 DEF Activate
    <2>2. mid \in CallState /\ mid.at = "check" /\ mid.kind = call[c].kind /\ mid.run = call[c].run
      BY <1>1, <1>3, FieldAt
    <2> HIDE DEF mid
    <2>3. next \in CallState /\ next.at = "check" /\ next.kind = call[c].kind /\ next.run = call[c].run
      <3>1. ShutdownSignal \in Signals
        BY DEF Signals, ShutdownSignal
      <3>2. QED
        BY <2>2, <3>1, FieldSignal
    <2> HIDE DEF next
    <2>4. Moved(c, "check")
      BY <1>1, <2>1, <2>3 DEF Moved
    <2>5. Turn(c, "check") /\ Tended(c, "check")
      BY <1>1, <1>8, <2>4 DEF Activate, Turn, Tended
    <2>6. QED
      BY <1>3, <2>5
  <1>9. CASE Check(c)
    <2>1. CASE call[c].signal # "none"
      <3>1. Moved(c, "catch")
        BY <1>1, <1>2, <1>9, <2>1, FailsMoves DEF Check
      <3>2. Turn(c, "catch") /\ Tended(c, "catch")
        BY <1>1, <1>9, <3>1 DEF Check, Turn, Tended
      <3>3. QED
        BY <1>3, <3>2
    <2>2. CASE call[c].signal = "none" /\ status[r] = "cancel_requested"
      <3>1. Moved(c, "catch")
        BY <1>1, <1>9, <2>2, CancelMoves DEF Check
      <3>2. Turn(c, "catch") /\ Tended(c, "catch")
        BY <1>1, <1>9, <3>1 DEF Check, Turn, Tended
      <3>3. QED
        BY <1>3, <3>2
    <2>3. CASE call[c].signal = "none" /\ status[r] # "cancel_requested"
      <3>1. PICK pc \in {"task", "store"} : Goes(c, pc)
        BY <1>9, <2>3 DEF Check
      <3>2. Moved(c, pc) /\ pc \in PC
        BY <1>1, <1>3, <3>1, GoesMoves
      <3>3. Turn(c, pc) /\ Tended(c, pc)
        BY <1>1, <1>9, <3>2 DEF Check, Turn, Tended
      <3>4. QED
        BY <3>2, <3>3
    <2>4. QED
      BY <2>1, <2>2, <2>3
  <1>10. CASE TaskEnds(c)
    <2>1. PICK pc \in {"finish", "catch"} :
             Goes(c, pc) \/ (pc = "catch" /\ \E error \in Reasons : Fails(c, error))
      BY <1>2, <1>10 DEF TaskEnds, Reasons
    <2>2. Moved(c, pc) /\ pc \in PC
      BY <1>1, <1>3, <2>1, GoesMoves, FailsMoves
    <2>3. Turn(c, pc) /\ Tended(c, pc)
      BY <1>1, <1>10, <2>2 DEF TaskEnds, Turn, Tended
    <2>4. QED
      BY <2>2, <2>3
  <1>11. CASE Complete(c) /\ status[r] \in Open
    <2>1. Moved(c, "leave")
      BY <1>1, <1>3, <1>11, SettlesMoves DEF Complete, Storable
    <2>2. Turn(c, "leave") /\ Tended(c, "leave")
      BY <1>1, <1>11, <2>1 DEF Complete, Storable, Turn, Tended, Finished
    <2>3. QED
      BY <1>3, <2>2
  <1>12. CASE Complete(c) /\ status[r] \notin Open
    <2>1. Moved(c, "unstored")
      BY <1>1, <1>3, <1>12, GoesMoves DEF Complete, Storable
    <2>2. Turn(c, "unstored") /\ Tended(c, "unstored")
      BY <1>1, <1>12, <2>1 DEF Complete, Storable, Open, Turn, Tended
    <2>3. QED
      BY <1>3, <2>2
  <1>13. CASE Unstored(c)
    <2>1. PICK pc \in {"catch", "leave"} : Moved(c, pc)
      BY <1>1, <1>3, <1>13, FailsMoves, SettlesMoves DEF Unstored, Reasons
    <2>2. Turn(c, pc) /\ Tended(c, pc)
      BY <1>1, <1>13, <2>1 DEF Unstored, Turn, Tended
    <2>3. QED
      BY <1>3, <2>2
  <1>14. CASE Catch(c)
    <2>1. PICK pc \in {"cancelRow", "failRow"} : Settles(c, pc)
      BY <1>14 DEF Catch
    <2>2. Moved(c, pc) /\ pc \in PC
      BY <1>1, <1>3, <2>1, SettlesMoves
    <2>3. Turn(c, pc) /\ Tended(c, pc)
      BY <1>1, <1>14, <2>2 DEF Catch, Turn, Tended
    <2>4. QED
      BY <2>2, <2>3
  <1>15. CASE CancelRow(c) \/ FailRow(c)
    <2>1. Moved(c, "leave")
      BY <1>1, <1>3, <1>15, GoesMoves DEF CancelRow, FailRow
    <2>2. PICK to \in {"cancelled", "failed"} : Sets(r, Active, to)
      BY <1>15 DEF CancelRow, FailRow
    <2>3. /\ status' \in [Runs -> {"none"} \cup Active \cup Finished]
          /\ \A q \in Runs \ {r} : status'[q] = status[q]
          /\ status'[r] = IF status[r] \in Active THEN to ELSE status[r]
      BY <1>1, <1>15, <2>2, SetsRow DEF CancelRow, FailRow, Finished
    <2>4. Turn(c, "leave")
      BY <1>1, <1>15, <2>1 DEF CancelRow, FailRow, Turn
    <2>5. Tended(c, "leave")
      BY <1>1, <1>15, <2>3 DEF Tended, Active
    <2>6. QED
      BY <1>3, <2>4, <2>5
  <1>16. CASE Terminalize(c)
    <2>1. PICK pc \in {"cancelRow", "failRow"} : Goes(c, pc)
      BY <1>16 DEF Terminalize
    <2>2. Moved(c, pc) /\ pc \in PC
      BY <1>1, <1>3, <2>1, GoesMoves
    <2>3. Turn(c, pc) /\ Tended(c, pc)
      BY <1>1, <1>16, <2>2 DEF Terminalize, Turn, Tended
    <2>4. QED
      BY <2>2, <2>3
  <1>17. CASE Leave(c) /\ call[c].kind = "execute"
    <2>1. Moved(c, "idle")
      BY <1>1, <1>17, EndsMoves DEF Leave
    <2>2. Turn(c, "idle") /\ Tended(c, "idle")
      BY <1>1, <1>17, <2>1 DEF Leave, Turn, Tended
    <2>3. QED
      BY <1>3, <2>2
  <1>18. CASE DeadlineTimer(c)
    <2> DEFINE next == [call[c] EXCEPT !.signal = "deadline"]
    <2>1. call' = [call EXCEPT ![c] = next]
      BY <1>18 DEF DeadlineTimer
    <2>2. next \in CallState /\ next.at = call[c].at /\ next.kind = call[c].kind /\ next.run = call[c].run
      BY <1>1, FieldSignal DEF Signals
    <2> HIDE DEF next
    <2>3. Moved(c, call[c].at)
      BY <1>1, <2>1, <2>2 DEF Moved
    <2>4. Turn(c, call[c].at) /\ Tended(c, call[c].at)
      BY <1>1, <1>18, <2>3 DEF DeadlineTimer, Turn, Tended
    <2>5. QED
      BY <1>2, <2>4
  <1>19. QED
    BY <1>4, <1>5, <1>6, <1>7, <1>8, <1>9, <1>10, <1>11, <1>12, <1>13, <1>14, <1>15, <1>16, <1>17, <1>18

-----------------------------------------------------------------------------
(* A turn changes neither the queue nor the slots in use, whoever it is.    *)
LEMMA TurnKeepsCalls ==
    ASSUME ExecutorInv, ClosingInv, NEW c \in Calls, NEW pc \in PC, Turn(c, pc)
    PROVE  ExecutorInv' /\ ClosingInv'
  <1>1. /\ call \in [Calls -> CallState]
        /\ call' \in [Calls -> CallState]
        /\ \A d \in Calls \ {c} : call'[d] = call[d]
        /\ call'[c].at = pc
        /\ pc # "idle" => call'[c].kind = call[c].kind /\ call'[c].run = call[c].run
        /\ UNCHANGED <<queue, canceller, phase>>
    BY DEF ExecutorInv, CallsInv, Turn, Moved
  <1>2. call[c].kind \in {"enqueue", "execute"}
    BY <1>1 DEF CallState
  <1>3. CallsInv'
    <2>1. ASSUME NEW d \in Calls
          PROVE  /\ ~At(d, {"idle"})' => RunOf(d)' \in Runs
                 /\ At(d, {"limits", "reject", "push", "queued", "terminalize"})'
                      => call'[d].kind = "enqueue"
                 /\ At(d, {"activate"})' => call'[d].kind = "execute"
                 /\ At(d, {"retry"})' => call'[d].expected # "none"
      BY <1>1 DEF ExecutorInv, CallsInv, Turn, At, RunOf
    <2>2. QED
      BY <1>1, <2>1 DEF CallsInv
  <1>4. QueueInv'
    <2>1. \A d \in Calls : At(d, {"queued"})' <=> At(d, {"queued"})
      BY <1>1 DEF Turn, At
    <2>2. QED
      BY <1>1, <2>1 DEF ExecutorInv, QueueInv
  <1>5. SlotsInv'
    <2>1. Occupied(call') = Occupied(call)
      BY <1>1, <1>2 DEF Turn, At, Occupied, Admitting
    <2>2. QED
      BY <1>1, <2>1 DEF ExecutorInv, SlotsInv
  <1>6. ClosingInv'
    <2>1. phase = "closed" => FALSE
      BY DEF ClosingInv, Turn, At
    <2>2. \A d \in Calls : InAdmission(d)' => InAdmission(d)
      BY <1>1 DEF Turn, At, InAdmission, Admitting
    <2>3. QED
      BY <1>1, <2>1, <2>2 DEF ClosingInv
  <1>7. QED
    BY <1>3, <1>4, <1>5, <1>6 DEF ExecutorInv

(* And it leaves nobody's run without the call that cares for it.           *)
LEMMA TurnKeepsCare ==
    ASSUME CallsInv, CareInv, NEW c \in Calls, NEW pc \in PC, Turn(c, pc), Tended(c, pc)
    PROVE  CareInv'
  <1> DEFINE r == RunOf(c)
  <1>1. /\ call \in [Calls -> CallState]
        /\ call' \in [Calls -> CallState]
        /\ \A d \in Calls \ {c} : call'[d] = call[d]
        /\ call'[c].at = pc
        /\ pc # "idle" => RunOf(c)' = r
        /\ canceller' = canceller
        /\ r \in Runs
    BY DEF CallsInv, Turn, Moved, RunOf, At
  <1>2. "idle" \notin WillStart /\ "idle" \notin WillEnd
    BY DEF WillStart, WillEnd
  <1>3. ASSUME NEW q \in Runs, NEW pcs, "idle" \notin pcs, Cared(q, pcs),
               q = r => pc \in pcs \/ ~At(c, pcs)
        PROVE  Cared(q, pcs)'
    <2>1. CASE canceller[q] = "cancelRow"
      BY <1>1, <2>1 DEF Cared
    <2>2. ASSUME NEW d \in Calls, RunOf(d) = q, At(d, pcs) PROVE Cared(q, pcs)'
      <3>1. CASE d = c
        BY <1>1, <1>3, <2>2, <3>1 DEF Cared, At
      <3>2. CASE d # c
        BY <1>1, <2>2, <3>2 DEF Cared, At, RunOf
      <3>3. QED
        BY <3>1, <3>2
    <2>3. QED
      BY <1>3, <2>1, <2>2 DEF Cared
  <1>4. ASSUME NEW pcs, "idle" \notin pcs, pc \in pcs PROVE Cared(r, pcs)'
    BY <1>1, <1>4 DEF Cared, At
  <1>5. ASSUME NEW q \in Runs, status'[q] = "queued" PROVE Cared(q, WillStart)'
    BY <1>1, <1>2, <1>3, <1>4, <1>5 DEF CareInv, Tended
  <1>6. ASSUME NEW q \in Runs, status'[q] = "running" PROVE Cared(q, WillEnd)'
    BY <1>1, <1>2, <1>3, <1>4, <1>6 DEF CareInv, Tended
  <1>7. QED
    BY <1>1, <1>5, <1>6 DEF CareInv, Tended

-----------------------------------------------------------------------------
(* A run that stays open keeps who cared for it.                            *)
LEMMA CareKept ==
    ASSUME CareInv,
           status' \in [Runs -> {"none"} \cup Active \cup Finished],
           canceller' \in [Runs -> {"none", "deliver", "cancelRow"}],
           \A r \in Runs : status'[r] \in Open =>
               /\ status'[r] = status[r]
               /\ \/ canceller'[r] = "cancelRow"
                  \/ /\ canceller[r] # "cancelRow"
                     /\ \A c \in Calls : RunOf(c) = r =>
                          /\ RunOf(c)' = r
                          /\ At(c, WillStart) => At(c, WillStart)'
                          /\ At(c, WillEnd) => At(c, WillEnd)'
    PROVE  CareInv'
  <1>1. ASSUME NEW r \in Runs, status'[r] = "queued" PROVE Cared(r, WillStart)'
    <2>1. "queued" \in Open
      BY DEF Open
    <2>2. CASE canceller'[r] = "cancelRow"
      BY <2>2 DEF Cared
    <2>3. CASE canceller'[r] # "cancelRow"
      <3>1. status[r] = "queued" /\ canceller[r] # "cancelRow"
        BY <1>1, <2>1, <2>3
      <3>2. PICK c \in Calls : RunOf(c) = r /\ At(c, WillStart)
        BY <3>1 DEF CareInv, Cared
      <3>3. RunOf(c)' = r /\ At(c, WillStart)'
        BY <1>1, <2>1, <2>3, <3>2
      <3>4. QED
        BY <3>3 DEF Cared
    <2>4. QED
      BY <2>2, <2>3
  <1>2. ASSUME NEW r \in Runs, status'[r] = "running" PROVE Cared(r, WillEnd)'
    <2>1. "running" \in Open
      BY DEF Open
    <2>2. CASE canceller'[r] = "cancelRow"
      BY <2>2 DEF Cared
    <2>3. CASE canceller'[r] # "cancelRow"
      <3>1. status[r] = "running" /\ canceller[r] # "cancelRow"
        BY <1>2, <2>1, <2>3
      <3>2. PICK c \in Calls : RunOf(c) = r /\ At(c, WillEnd)
        BY <3>1 DEF CareInv, Cared
      <3>3. RunOf(c)' = r /\ At(c, WillEnd)'
        BY <1>2, <2>1, <2>3, <3>2
      <3>4. QED
        BY <3>3 DEF Cared
    <2>4. QED
      BY <2>2, <2>3
  <1>3. QED
    BY <1>1, <1>2 DEF CareInv

-----------------------------------------------------------------------------
(* A request is admitted: its call is new, and cares for the run it found  *)
(* or made.                                                                 *)
LEMMA SubmitInv ==
    ASSUME FullInv, NEW c \in Calls, NEW r \in Runs, Submit(c, r)
    PROVE  FullInv'
  <1> DEFINE kind == IF r \in InlineRuns THEN "execute" ELSE "enqueue"
             next == IF r \in InlineRuns THEN NextOfExecute[status'[r]] ELSE NextOfEnqueue[status'[r]]
             found == IF next = "retry" THEN status[r] ELSE "none"
             new  == [IdleCall EXCEPT !.at = next, !.kind = kind, !.run = r, !.expected = found]
  <1>1. /\ call \in [Calls -> CallState]
        /\ status \in [Runs -> {"none"} \cup Active \cup Finished]
        /\ call[c].at = "idle" /\ phase = "accepting"
        /\ call' = [call EXCEPT ![c] = new] /\ next # "idle"
        /\ UNCHANGED <<queue, canceller, phase>>
    BY DEF Submit, FullInv, ExecutorInv, CallsInv, CareInv, At
  <1>2. /\ status' \in [Runs -> {"none"} \cup Active \cup Finished]
        /\ \A q \in Runs \ {r} : status'[q] = status[q]
        /\ status'[r] = IF status[r] \in {"none"} THEN "queued" ELSE status[r]
    BY <1>1, SetsRow DEF Submit, Active
  <1>3. /\ next \in {"limits", "retry", "mark"}
        /\ next = "mark" => kind = "execute"
        /\ next = "limits" => kind = "enqueue"
        /\ next = "retry" => status[r] \in {"failed", "cancelled"}
        /\ status'[r] = "queued" => next \in {"limits", "mark"}
    BY <1>1, <1>2 DEF NextOfEnqueue, NextOfExecute, Active, Finished
  <1>4. /\ kind \in {"enqueue", "execute"}
        /\ found \in {"none", "failed", "cancelled"}
        /\ next = "retry" => found # "none"
    BY <1>3
  <1> HIDE DEF next, kind, found
  <1>5. /\ new \in CallState
        /\ new.at = next /\ new.kind = kind /\ new.run = r /\ new.expected = found
    BY <1>3, <1>4 DEF IdleCall, CallState, PC, Admitting
  <1> HIDE DEF new
  <1>6. /\ call' \in [Calls -> CallState]
        /\ call'[c] = new
        /\ \A d \in Calls \ {c} : call'[d] = call[d]
    BY <1>1, <1>5
  <1>7. CallsInv'
    <2>1. ASSUME NEW d \in Calls
          PROVE  /\ ~At(d, {"idle"})' => RunOf(d)' \in Runs
                 /\ At(d, {"limits", "reject", "push", "queued", "terminalize"})'
                      => call'[d].kind = "enqueue"
                 /\ At(d, {"activate"})' => call'[d].kind = "execute"
                 /\ At(d, {"retry"})' => call'[d].expected # "none"
      <3>1. CASE d = c
        BY <1>3, <1>4, <1>5, <1>6, <3>1 DEF At, RunOf
      <3>2. CASE d # c
        BY <1>6, <3>2 DEF FullInv, ExecutorInv, CallsInv, At, RunOf
      <3>3. QED
        BY <3>1, <3>2
    <2>2. QED
      BY <1>6, <2>1 DEF CallsInv
  <1>8. QueueInv'
    <2>1. \A d \in Calls : At(d, {"queued"})' <=> At(d, {"queued"})
      BY <1>1, <1>3, <1>5, <1>6 DEF At
    <2>2. QED
      BY <1>1, <2>1 DEF FullInv, ExecutorInv, QueueInv
  <1>9. SlotsInv'
    <2>1. Occupied(call') = Occupied(call)
      BY <1>1, <1>3, <1>5, <1>6 DEF Occupied, Admitting
    <2>2. QED
      BY <1>1, <2>1 DEF FullInv, ExecutorInv, SlotsInv
  <1>10. CareInv'
    <2>1. ASSUME NEW q \in Runs, NEW pcs, q # r, "idle" \notin pcs, Cared(q, pcs)
          PROVE  Cared(q, pcs)'
      <3>1. CASE canceller[q] = "cancelRow"
        BY <1>1, <3>1 DEF Cared
      <3>2. ASSUME NEW d \in Calls, RunOf(d) = q, At(d, pcs) PROVE Cared(q, pcs)'
        <4>1. d # c
          BY <1>1, <2>1, <3>2 DEF At
        <4>2. QED
          BY <1>6, <3>2, <4>1 DEF Cared, At, RunOf
      <3>3. QED
        BY <2>1, <3>1, <3>2 DEF Cared
    <2>2. ASSUME NEW pcs, "idle" \notin pcs, status[r] # "none", Cared(r, pcs)
          PROVE  Cared(r, pcs)'
      <3>1. CASE canceller[r] = "cancelRow"
        BY <1>1, <3>1 DEF Cared
      <3>2. ASSUME NEW d \in Calls, RunOf(d) = r, At(d, pcs) PROVE Cared(r, pcs)'
        <4>1. d # c
          BY <1>1, <2>2, <3>2 DEF At
        <4>2. QED
          BY <1>6, <3>2, <4>1 DEF Cared, At, RunOf
      <3>3. QED
        BY <2>2, <3>1, <3>2 DEF Cared
    <2>3. status'[r] = "queued" => Cared(r, WillStart)'
      BY <1>3, <1>5, <1>6 DEF Cared, At, RunOf, WillStart
    <2>4. "idle" \notin WillStart /\ "idle" \notin WillEnd
      BY DEF WillStart, WillEnd
    <2>5. \A q \in Runs : status'[q] = "queued" => Cared(q, WillStart)'
      BY <1>2, <2>1, <2>3, <2>4 DEF FullInv, CareInv
    <2>6. \A q \in Runs : status'[q] = "running" => Cared(q, WillEnd)'
      BY <1>2, <2>1, <2>2, <2>4 DEF FullInv, CareInv
    <2>7. canceller' \in [Runs -> {"none", "deliver", "cancelRow"}]
      BY <1>1 DEF FullInv, CareInv
    <2>8. QED
      BY <1>2, <2>5, <2>6, <2>7 DEF CareInv
  <1>11. ClosingInv'
    BY <1>1 DEF ClosingInv
  <1>12. QED
    BY <1>7, <1>8, <1>9, <1>10, <1>11 DEF FullInv, ExecutorInv

-----------------------------------------------------------------------------
(* drain, whatever the queue and the calls it is given: the tasks it takes  *)
(* are the first ones, each once, as many as there are free slots.          *)
Taken(q, n) == {q[i] : i \in 1..n}

WaitsIn(q, calls) ==
    /\ q \in Seq(Calls)
    /\ calls \in [Calls -> CallState]
    /\ \A i, j \in 1..Len(q) : q[i] = q[j] => i = j
    /\ \A c \in Calls : calls[c].at = "queued" <=> \E i \in 1..Len(q) : q[i] = c
    /\ \A c \in Calls : calls[c].at = "queued" => calls[c].kind = "enqueue"
    /\ phase = "accepting" =>
         /\ IsFiniteSet(Occupied(calls))
         /\ Cardinality(Occupied(calls)) <= MaxConcurrent

LEMMA TakenIsFinite ==
    ASSUME NEW q \in Seq(Calls), \A i, j \in 1..Len(q) : q[i] = q[j] => i = j,
           NEW n \in 0..Len(q)
    PROVE  IsFiniteSet(Taken(q, n)) /\ Cardinality(Taken(q, n)) = n
  <1> DEFINE f == [i \in 1..n |-> q[i]]
  <1>1. f \in Bijection(1..n, Taken(q, n))
    BY DEF Taken, Bijection, Injection, Surjection, IsInjective
  <1>2. ExistsBijection(1..n, Taken(q, n))
    BY <1>1 DEF ExistsBijection
  <1>3. IsFiniteSet(1..n) /\ Cardinality(1..n) = n
    BY FS_Interval
  <1>4. QED
    BY <1>2, <1>3, FS_Bijection

LEMMA DrainFits ==
    ASSUME NEW q, NEW calls, WaitsIn(q, calls)
    PROVE  /\ DrainCount(q, calls) \in 0..Len(q)
           /\ phase # "accepting" => DrainCount(q, calls) = 0
           /\ phase = "accepting" =>
                LET n == DrainCount(q, calls)
                    s == Cardinality(Occupied(calls))
                IN  s \in Nat /\ s + n <= MaxConcurrent /\ (n < Len(q) => s + n = MaxConcurrent)
  <1>1. Len(q) \in Nat /\ MaxConcurrent \in Nat
    BY RunServiceAssumption DEF WaitsIn
  <1>2. CASE phase # "accepting"
    BY <1>1, <1>2 DEF DrainCount
  <1>3. CASE phase = "accepting"
    <2>1. IsFiniteSet(Occupied(calls)) /\ Cardinality(Occupied(calls)) <= MaxConcurrent
      BY <1>3 DEF WaitsIn
    <2>2. Cardinality(Occupied(calls)) \in Nat
      BY <2>1, FS_CardinalityType
    <2>3. DrainCount(q, calls) = Lower(Len(q), MaxConcurrent - Cardinality(Occupied(calls)))
      BY <1>3 DEF DrainCount
    <2>4. QED
      BY <1>1, <1>3, <2>1, <2>2, <2>3 DEF Lower
  <1>4. QED
    BY <1>2, <1>3

LEMMA DrainKeeps ==
    ASSUME NEW q, NEW calls, NEW registered, WaitsIn(q, calls), Drain(q, calls, registered),
           phase' = phase
    PROVE  /\ call' \in [Calls -> CallState]
           /\ QueueInv'
           /\ SlotsInv'
           /\ \A c \in Calls :
                \/ call'[c] = calls[c]
                \/ /\ calls[c].at = "queued" /\ call'[c].at = "mark" /\ calls[c].kind = "enqueue"
                   /\ call'[c].kind = calls[c].kind /\ call'[c].run = calls[c].run
           /\ phase # "accepting" => queue' = q
  <1> DEFINE n == DrainCount(q, calls)
             T == Taken(q, n)
  <1>1. /\ q \in Seq(Calls)
        /\ calls \in [Calls -> CallState]
        /\ \A i, j \in 1..Len(q) : q[i] = q[j] => i = j
        /\ \A c \in Calls : calls[c].at = "queued" <=> \E i \in 1..Len(q) : q[i] = c
        /\ \A c \in Calls : calls[c].at = "queued" => calls[c].kind = "enqueue"
    BY DEF WaitsIn
  <1>2. n \in 0..Len(q) /\ Len(q) \in Nat
    BY <1>1, DrainFits
  <1>3. queue' = SubSeq(q, n + 1, Len(q))
    BY DEF Drain
  <1>4. call' = [c \in Calls |-> IF c \in T THEN [calls[c] EXCEPT !.at = "mark"] ELSE calls[c]]
    BY DEF Drain, Taken
  <1>5. IsFiniteSet(T) /\ Cardinality(T) = n
    BY <1>1, <1>2, TakenIsFinite
  <1>6. \A c : c \in T <=> \E i \in 1..n : q[i] = c
    BY DEF Taken
  <1>7. phase # "accepting" => n = 0
    BY DrainFits
  <1>8. phase = "accepting" =>
          LET s == Cardinality(Occupied(calls))
          IN  s \in Nat /\ s + n <= MaxConcurrent /\ (n < Len(q) => s + n = MaxConcurrent)
    BY DrainFits
  <1> HIDE DEF n, T
  <1>9. \A c \in T : c \in Calls /\ calls[c].at = "queued" /\ calls[c].kind = "enqueue"
    <2>1. \A i \in 1..n : i \in 1..Len(q) /\ q[i] \in Calls
      BY <1>1, <1>2
    <2>2. QED
      BY <1>1, <1>6, <2>1
  <1>10. /\ \A c \in Calls \ T : call'[c] = calls[c]
         /\ \A c \in T : /\ call'[c] \in CallState /\ call'[c].at = "mark"
                         /\ call'[c].kind = calls[c].kind /\ call'[c].run = calls[c].run
    <2>1. "mark" \in PC
      BY DEF PC
    <2>2. QED
      BY <1>1, <1>4, <1>9, <2>1, FieldAt
  <1>11. call' \in [Calls -> CallState]
    BY <1>1, <1>4, <1>10
  <1>12. /\ queue' \in Seq(Calls)
         /\ Len(queue') = Len(q) - n
         /\ \A i \in 1..Len(q) - n : queue'[i] = q[i + n]
    <2>1. \A i \in n + 1 .. Len(q) : q[i] \in Calls
      BY <1>1, <1>2
    <2>2. /\ SubSeq(q, n + 1, Len(q)) \in Seq(Calls)
          /\ Len(SubSeq(q, n + 1, Len(q))) = Len(q) - n
          /\ \A i \in 1..Len(q) - n : SubSeq(q, n + 1, Len(q))[i] = q[i + n]
      BY <1>1, <1>2, <2>1
    <2>3. QED
      BY <1>3, <2>2
  <1>13. QueueInv'
    <2>1. \A i, j \in 1..Len(queue') : queue'[i] = queue'[j] => i = j
      <3> SUFFICES ASSUME NEW i \in 1..Len(queue'), NEW j \in 1..Len(queue'), queue'[i] = queue'[j]
                   PROVE  i = j
        OBVIOUS
      <3>1. i + n \in 1..Len(q) /\ j + n \in 1..Len(q) /\ q[i + n] = q[j + n]
        BY <1>2, <1>12
      <3>2. i + n = j + n
        BY <1>1, <3>1
      <3>3. QED
        BY <1>2, <3>2
    <2>2. ASSUME NEW c \in Calls, call'[c].at = "queued"
          PROVE  \E i \in 1..Len(queue') : queue'[i] = c
      <3>1. c \notin T /\ calls[c].at = "queued"
        BY <1>10, <2>2
      <3>2. PICK i \in 1..Len(q) : q[i] = c
        BY <1>1, <3>1
      <3>3. i - n \in 1..Len(q) - n
        BY <1>2, <1>6, <3>1, <3>2
      <3>4. queue'[i - n] = q[(i - n) + n] /\ (i - n) + n = i
        BY <1>2, <1>12, <3>3
      <3>5. QED
        BY <1>12, <3>2, <3>3, <3>4
    <2>3. ASSUME NEW c \in Calls, NEW i \in 1..Len(queue'), queue'[i] = c
          PROVE  call'[c].at = "queued"
      <3>1. i + n \in 1..Len(q) /\ q[i + n] = c
        BY <1>2, <1>12, <2>3
      <3>2. \A j \in 1..n : q[j] # c
        <4> SUFFICES ASSUME NEW j \in 1..n, q[j] = c PROVE FALSE
          OBVIOUS
        <4>1. j \in 1..Len(q) /\ j # i + n
          BY <1>2, <3>1
        <4>2. QED
          BY <1>1, <3>1, <4>1
      <3>3. c \notin T
        BY <1>6, <3>2
      <3>4. QED
        BY <1>1, <1>10, <3>1, <3>3
    <2>4. QED
      BY <1>12, <2>1, <2>2, <2>3 DEF QueueInv, At
  <1>14. SlotsInv'
    <2> SUFFICES ASSUME phase = "accepting"
                 PROVE  /\ IsFiniteSet(Occupied(call'))
                        /\ Cardinality(Occupied(call')) <= MaxConcurrent
                        /\ queue' # <<>> => Cardinality(Occupied(call')) = MaxConcurrent
      BY DEF SlotsInv
    <2>1. Occupied(call') = Occupied(calls) \cup T /\ Occupied(calls) \cap T = {}
      BY <1>9, <1>10 DEF Occupied, Admitting
    <2>2. IsFiniteSet(Occupied(calls))
      BY DEF WaitsIn
    <2>3. IsFiniteSet({}) /\ Cardinality({}) = 0
      BY FS_EmptySet
    <2>4. IsFiniteSet(Occupied(call'))
          /\ Cardinality(Occupied(call')) = Cardinality(Occupied(calls)) + n
      <3> DEFINE O == Occupied(calls)
      <3>1. /\ IsFiniteSet(O \cup T)
            /\ Cardinality(O \cup T) = Cardinality(O) + Cardinality(T) - Cardinality(O \cap T)
        BY <1>5, <2>2, FS_Union
      <3>2. Cardinality(O) \in Nat /\ n \in Nat
        BY <1>2, <1>8
      <3>3. Cardinality(O \cap T) = 0
        BY <2>1, <2>3
      <3> HIDE DEF O
      <3>4. Cardinality(O \cup T) = Cardinality(O) + n
        BY <1>5, <3>1, <3>2, <3>3
      <3>5. QED
        BY <2>1, <3>1, <3>4 DEF O
    <2>5. queue' # <<>> => n < Len(q)
      BY <1>2, <1>12
    <2>6. QED
      BY <1>8, <2>4, <2>5
  <1>15. phase # "accepting" => queue' = q
    BY <1>1, <1>3, <1>7
  <1>16. QED
    BY <1>9, <1>10, <1>11, <1>13, <1>14, <1>15

-----------------------------------------------------------------------------
LEMMA PushWaits ==
    ASSUME FullInv, NEW c \in Calls, Push(c)
    PROVE  WaitsIn(Append(queue, c), [call EXCEPT ![c].at = "queued"])
  <1> DEFINE next  == [call[c] EXCEPT !.at = "queued"]
             calls == [call EXCEPT ![c] = next]
             q     == Append(queue, c)
  <1>1. /\ call \in [Calls -> CallState]
        /\ queue \in Seq(Calls)
        /\ call[c].at = "push" /\ call[c].kind = "enqueue" /\ call[c].run \in Runs
    BY DEF Push, FullInv, ExecutorInv, CallsInv, QueueInv, At, RunOf
  <1>3. next \in CallState /\ next.at = "queued" /\ next.kind = "enqueue" /\ next.run = call[c].run
    <2>1. "queued" \in PC
      BY DEF PC
    <2>2. QED
      BY <1>1, <2>1, FieldAt
  <1> HIDE DEF next
  <1>4. /\ calls \in [Calls -> CallState]
        /\ calls[c] = next
        /\ \A d \in Calls \ {c} : calls[d] = call[d]
    BY <1>1, <1>3
  <1>5. /\ q \in Seq(Calls) /\ Len(q) = Len(queue) + 1 /\ q[Len(queue) + 1] = c
        /\ \A i \in 1..Len(queue) : q[i] = queue[i]
        /\ Len(queue) \in Nat
    BY <1>1
  <1> HIDE DEF calls, q
  <1>6. \A i \in 1..Len(queue) : queue[i] # c
    BY <1>1 DEF FullInv, ExecutorInv, QueueInv, At
  <1>7. WaitsIn(q, calls)
    <2>1. \A i, j \in 1..Len(q) : q[i] = q[j] => i = j
      <3> SUFFICES ASSUME NEW i \in 1..Len(q), NEW j \in 1..Len(q), q[i] = q[j]
                   PROVE  i = j
        OBVIOUS
      <3>1. /\ i \in 1..Len(queue) \/ i = Len(queue) + 1
            /\ j \in 1..Len(queue) \/ j = Len(queue) + 1
        BY <1>5
      <3>2. i \in 1..Len(queue) => (j \in 1..Len(queue) /\ queue[i] = queue[j])
        BY <1>5, <1>6, <3>1
      <3>3. j \in 1..Len(queue) => i \in 1..Len(queue)
        BY <1>5, <1>6, <3>1
      <3>4. QED
        BY <3>1, <3>2, <3>3 DEF FullInv, ExecutorInv, QueueInv
    <2>2. ASSUME NEW d \in Calls
          PROVE  calls[d].at = "queued" <=> \E i \in 1..Len(q) : q[i] = d
      <3>1. CASE d = c
        BY <1>3, <1>4, <1>5, <3>1
      <3>2. CASE d # c
        <4>1. (\E i \in 1..Len(q) : q[i] = d) <=> (\E i \in 1..Len(queue) : queue[i] = d)
          <5>1. ASSUME NEW i \in 1..Len(q), q[i] = d PROVE \E j \in 1..Len(queue) : queue[j] = d
            <6>1. i \in 1..Len(queue) \/ i = Len(queue) + 1
              BY <1>5
            <6>2. i \in 1..Len(queue) /\ queue[i] = d
              BY <1>5, <3>2, <5>1, <6>1
            <6>3. QED
              BY <6>2
          <5>2. ASSUME NEW i \in 1..Len(queue), queue[i] = d PROVE \E j \in 1..Len(q) : q[j] = d
            <6>1. i \in 1..Len(q) /\ q[i] = d
              BY <1>5, <5>2
            <6>2. QED
              BY <6>1
          <5>3. QED
            BY <5>1, <5>2
        <4>2. QED
          BY <1>4, <3>2, <4>1 DEF FullInv, ExecutorInv, QueueInv, At
      <3>3. QED
        BY <3>1, <3>2
    <2>3. \A d \in Calls : calls[d].at = "queued" => calls[d].kind = "enqueue"
      BY <1>3, <1>4 DEF FullInv, ExecutorInv, CallsInv, At
    <2>4. Occupied(calls) = Occupied(call)
      BY <1>1, <1>3, <1>4 DEF Occupied, Admitting
    <2>5. QED
      BY <1>4, <1>5, <2>1, <2>2, <2>3, <2>4 DEF WaitsIn, FullInv, ExecutorInv, SlotsInv
  <1>8. QED
    BY <1>7 DEF q, calls, next

LEMMA PushInv ==
    ASSUME FullInv, NEW c \in Calls, Push(c)
    PROVE  FullInv'
  <1> DEFINE next  == [call[c] EXCEPT !.at = "queued"]
             calls == [call EXCEPT ![c] = next]
             q     == Append(queue, c)
  <1>1. /\ call \in [Calls -> CallState]
        /\ queue \in Seq(Calls)
        /\ call[c].at = "push" /\ call[c].kind = "enqueue" /\ call[c].run \in Runs
        /\ UNCHANGED <<status, stored, canceller, phase>>
    BY DEF Push, FullInv, ExecutorInv, CallsInv, QueueInv, At, RunOf
  <1>2. Drain(q, calls, active)
    BY DEF Push
  <1>3. next \in CallState /\ next.at = "queued" /\ next.kind = "enqueue" /\ next.run = call[c].run
    <2>1. "queued" \in PC
      BY DEF PC
    <2>2. QED
      BY <1>1, <2>1, FieldAt
  <1>4. WaitsIn(q, calls)
    BY PushWaits
  <1> HIDE DEF next
  <1>5. /\ calls \in [Calls -> CallState]
        /\ calls[c] = next
        /\ \A d \in Calls \ {c} : calls[d] = call[d]
    BY <1>1, <1>3
  <1> HIDE DEF calls, q
  <1>6. /\ call' \in [Calls -> CallState]
        /\ QueueInv' /\ SlotsInv'
        /\ \A d \in Calls :
             \/ call'[d] = calls[d]
             \/ /\ calls[d].at = "queued" /\ call'[d].at = "mark" /\ calls[d].kind = "enqueue"
                /\ call'[d].kind = calls[d].kind /\ call'[d].run = calls[d].run
    BY <1>1, <1>2, <1>4, DrainKeeps
  <1>7. \A d \in Calls \ {c} :
          \/ call'[d] = call[d]
          \/ /\ call[d].at = "queued" /\ call'[d].at = "mark"
             /\ call'[d].kind = call[d].kind /\ call'[d].run = call[d].run
    BY <1>5, <1>6
  <1>8. /\ call'[c].at \in {"queued", "mark"}
         /\ call'[c].kind = "enqueue" /\ call'[c].run = call[c].run
    BY <1>3, <1>5, <1>6
  <1>9. CallsInv'
    <2>1. ASSUME NEW d \in Calls
          PROVE  /\ ~At(d, {"idle"})' => RunOf(d)' \in Runs
                 /\ At(d, {"limits", "reject", "push", "queued", "terminalize"})'
                      => call'[d].kind = "enqueue"
                 /\ At(d, {"activate"})' => call'[d].kind = "execute"
                 /\ At(d, {"retry"})' => call'[d].expected # "none"
      <3>1. CASE d = c
        BY <1>1, <1>8, <3>1 DEF At, RunOf
      <3>2. CASE d # c
        BY <1>7, <3>2 DEF FullInv, ExecutorInv, CallsInv, At, RunOf
      <3>3. QED
        BY <3>1, <3>2
    <2>2. QED
      BY <1>6, <2>1 DEF CallsInv
  <1>10. CareInv'
    <2>1. ASSUME NEW d \in Calls
          PROVE  /\ RunOf(d)' = RunOf(d)
                 /\ At(d, WillStart) => At(d, WillStart)'
                 /\ At(d, WillEnd) => At(d, WillEnd)'
      <3>1. CASE d = c
        BY <1>1, <1>8, <3>1 DEF At, RunOf, WillStart, WillEnd
      <3>2. CASE d # c
        BY <1>7, <3>2 DEF At, RunOf, WillStart, WillEnd
      <3>3. QED
        BY <3>1, <3>2
    <2>2. CareInv /\ status' = status /\ canceller' = canceller
      BY <1>1 DEF FullInv
    <2>3. /\ status \in [Runs -> {"none"} \cup Active \cup Finished]
          /\ canceller \in [Runs -> {"none", "deliver", "cancelRow"}]
      BY <2>2 DEF CareInv
    <2>4. QED
      BY <2>1, <2>2, <2>3, CareKept
  <1>11. ClosingInv'
    <2>1. InAdmission(c)
      BY <1>1 DEF InAdmission, At, Admitting
    <2>2. phase \notin {"draining", "closed"} /\ phase \in {"accepting", "closing", "draining", "closed"}
      BY <2>1 DEF FullInv, ClosingInv
    <2>3. QED
      BY <1>1, <2>2 DEF ClosingInv
  <1>12. QED
    BY <1>6, <1>9, <1>10, <1>11 DEF FullInv, ExecutorInv

LEMMA LeaveWaits ==
    ASSUME FullInv, NEW c \in Calls, Leave(c), call[c].kind # "execute"
    PROVE  WaitsIn(queue, [call EXCEPT ![c] = IdleCall])
  <1> DEFINE calls == [call EXCEPT ![c] = IdleCall]
  <1>1. /\ call \in [Calls -> CallState]
        /\ queue \in Seq(Calls)
        /\ call[c].at = "leave"
    BY DEF Leave, FullInv, ExecutorInv, CallsInv, QueueInv, At
  <1>3. IdleCall \in CallState /\ IdleCall.at = "idle"
    BY DEF IdleCall, CallState, PC
  <1>4. /\ calls \in [Calls -> CallState]
        /\ calls[c] = IdleCall
        /\ \A d \in Calls \ {c} : calls[d] = call[d]
    BY <1>1, <1>3
  <1> HIDE DEF calls
  <1>5. WaitsIn(queue, calls)
    <2>1. \A d \in Calls : calls[d].at = "queued" <=> call[d].at = "queued"
      BY <1>1, <1>3, <1>4
    <2>2. \A d \in Calls : calls[d].at = "queued" => calls[d].kind = "enqueue"
      BY <1>3, <1>4 DEF FullInv, ExecutorInv, CallsInv, At
    <2>3. Occupied(calls) = Occupied(call) \ {c}
      BY <1>3, <1>4 DEF Occupied
    <2>4. phase = "accepting" =>
            IsFiniteSet(Occupied(calls)) /\ Cardinality(Occupied(calls)) <= MaxConcurrent
      <3> SUFFICES ASSUME phase = "accepting"
                   PROVE  IsFiniteSet(Occupied(calls)) /\ Cardinality(Occupied(calls)) <= MaxConcurrent
        OBVIOUS
      <3> DEFINE O == Occupied(call)
      <3>1. IsFiniteSet(O) /\ Cardinality(O) <= MaxConcurrent
        BY DEF FullInv, ExecutorInv, SlotsInv
      <3> HIDE DEF O
      <3>2. /\ IsFiniteSet(O \ {c})
            /\ Cardinality(O \ {c}) <= Cardinality(O)
            /\ Cardinality(O) \in Nat /\ Cardinality(O \ {c}) \in Nat
        <4>1. IsFiniteSet(O \ {c}) /\ Cardinality(O \ {c}) <= Cardinality(O)
          BY <3>1, FS_Subset
        <4>2. QED
          BY <3>1, <4>1, FS_CardinalityType
      <3>3. MaxConcurrent \in Nat
        BY RunServiceAssumption
      <3>4. IsFiniteSet(O \ {c}) /\ Cardinality(O \ {c}) <= MaxConcurrent
        BY <3>1, <3>2, <3>3
      <3>5. QED
        BY <2>3, <3>4 DEF O
    <2>5. QED
      BY <1>1, <1>4, <2>1, <2>2, <2>4 DEF WaitsIn, FullInv, ExecutorInv, QueueInv, At
  <1>6. QED
    BY <1>5 DEF calls

LEMMA LeaveInv ==
    ASSUME FullInv, NEW c \in Calls, Leave(c), call[c].kind # "execute"
    PROVE  FullInv'
  <1> DEFINE calls == [call EXCEPT ![c] = IdleCall]
  <1>1. /\ call \in [Calls -> CallState]
        /\ queue \in Seq(Calls)
        /\ call[c].at = "leave"
        /\ UNCHANGED <<status, stored, canceller, phase>>
    BY DEF Leave, FullInv, ExecutorInv, CallsInv, QueueInv, At
  <1>2. Drain(queue, calls, Deactivated(c))
    BY DEF Leave
  <1>3. IdleCall \in CallState /\ IdleCall.at = "idle"
    BY DEF IdleCall, CallState, PC
  <1>4. /\ calls \in [Calls -> CallState]
        /\ calls[c] = IdleCall
        /\ \A d \in Calls \ {c} : calls[d] = call[d]
    BY <1>1, <1>3
  <1>5. WaitsIn(queue, calls)
    BY LeaveWaits
  <1> HIDE DEF calls
  <1>6. /\ call' \in [Calls -> CallState]
        /\ QueueInv' /\ SlotsInv'
        /\ \A d \in Calls :
             \/ call'[d] = calls[d]
             \/ /\ calls[d].at = "queued" /\ call'[d].at = "mark" /\ calls[d].kind = "enqueue"
                /\ call'[d].kind = calls[d].kind /\ call'[d].run = calls[d].run
        /\ phase # "accepting" => queue' = queue
    BY <1>1, <1>2, <1>5, DrainKeeps
  <1>7. call'[c].at = "idle"
    BY <1>3, <1>4, <1>6
  <1>8. \A d \in Calls \ {c} :
          \/ call'[d] = call[d]
          \/ /\ call[d].at = "queued" /\ call'[d].at = "mark"
             /\ call'[d].kind = call[d].kind /\ call'[d].run = call[d].run
    BY <1>4, <1>6
  <1>9. CallsInv'
    <2>1. ASSUME NEW d \in Calls
          PROVE  /\ ~At(d, {"idle"})' => RunOf(d)' \in Runs
                 /\ At(d, {"limits", "reject", "push", "queued", "terminalize"})'
                      => call'[d].kind = "enqueue"
                 /\ At(d, {"activate"})' => call'[d].kind = "execute"
                 /\ At(d, {"retry"})' => call'[d].expected # "none"
      <3>1. CASE d = c
        BY <1>7, <3>1 DEF At, RunOf
      <3>2. CASE d # c
        BY <1>8, <3>2 DEF FullInv, ExecutorInv, CallsInv, At, RunOf
      <3>3. QED
        BY <3>1, <3>2
    <2>2. QED
      BY <1>6, <2>1 DEF CallsInv
  <1>10. CareInv'
    <2>1. ~At(c, WillStart) /\ ~At(c, WillEnd)
      BY <1>1 DEF At, WillStart, WillEnd
    <2>2. ASSUME NEW q \in Runs, NEW pcs, pcs \in {WillStart, WillEnd}, Cared(q, pcs)
          PROVE  Cared(q, pcs)'
      <3>1. CASE canceller[q] = "cancelRow"
        BY <1>1, <3>1 DEF Cared
      <3>2. ASSUME NEW d \in Calls, RunOf(d) = q, At(d, pcs) PROVE Cared(q, pcs)'
        <4>1. d # c
          BY <2>1, <2>2, <3>2
        <4>2. RunOf(d)' = q /\ At(d, pcs)'
          BY <1>8, <2>2, <3>2, <4>1 DEF At, RunOf, WillStart, WillEnd
        <4>3. QED
          BY <4>2 DEF Cared
      <3>3. QED
        BY <2>2, <3>1, <3>2 DEF Cared
    <2>3. QED
      BY <1>1, <2>2 DEF FullInv, CareInv
  <1>11. ClosingInv'
    <2>1. phase # "closed"
      BY <1>1 DEF FullInv, ClosingInv, At
    <2>2. ASSUME NEW d \in Calls, InAdmission(d)' PROVE InAdmission(d)
      BY <1>7, <1>8, <2>2 DEF InAdmission, At, Admitting
    <2>3. QED
      BY <1>1, <1>6, <2>1, <2>2 DEF FullInv, ClosingInv
  <1>12. QED
    BY <1>6, <1>9, <1>10, <1>11 DEF FullInv, ExecutorInv

-----------------------------------------------------------------------------
(* An abort reaches the controllers and nothing else of the calls.         *)
LEMMA SignalKeeps ==
    ASSUME NEW calls \in [Calls -> CallState], NEW S, NEW reason \in Signals
    PROVE  LET told == Signalled(calls, S, reason)
           IN  /\ told \in [Calls -> CallState]
               /\ \A c \in Calls : /\ told[c].at = calls[c].at /\ told[c].kind = calls[c].kind
                                   /\ told[c].run = calls[c].run
                                   /\ told[c].expected = calls[c].expected
  <1> DEFINE told == Signalled(calls, S, reason)
  <1>1. ASSUME NEW c \in Calls
        PROVE  /\ told[c] \in CallState
               /\ told[c].at = calls[c].at /\ told[c].kind = calls[c].kind
               /\ told[c].run = calls[c].run /\ told[c].expected = calls[c].expected
    <2> DEFINE next == [calls[c] EXCEPT !.signal = reason]
    <2>1. told[c] = next \/ told[c] = calls[c]
      BY DEF Signalled
    <2>2. /\ next \in CallState /\ next.at = calls[c].at /\ next.kind = calls[c].kind
          /\ next.run = calls[c].run /\ next.expected = calls[c].expected
      BY FieldSignal
    <2> HIDE DEF next
    <2>3. QED
      BY <2>1, <2>2
  <1>2. \E f : told = [c \in Calls |-> f[c]]
    <2> DEFINE f == [c \in Calls |->
                       IF c \in S /\ calls[c].signal = "none"
                          /\ calls[c].at \notin {"cancelRow", "failRow", "leave"}
                       THEN [calls[c] EXCEPT !.signal = reason] ELSE calls[c]]
    <2>1. told = [c \in Calls |-> f[c]]
      BY DEF Signalled
    <2>2. QED
      BY <2>1
  <1> HIDE DEF told
  <1>3. told \in [Calls -> CallState]
    BY <1>1, <1>2
  <1>4. QED
    BY <1>1, <1>3 DEF told

LEMMA ElementRemoved ==
    ASSUME NEW q \in Seq(Calls), NEW i \in 1..Len(q)
    PROVE  /\ RemoveAt(q, i) \in Seq(Calls)
           /\ Len(RemoveAt(q, i)) = Len(q) - 1
           /\ \A j \in 1..Len(q) - 1 : RemoveAt(q, i)[j] = IF j < i THEN q[j] ELSE q[j + 1]
  <1> DEFINE s == SubSeq(q, 1, i - 1)
             t == SubSeq(q, i + 1, Len(q))
  <1>1. Len(q) \in Nat /\ \A j \in 1..Len(q) : q[j] \in Calls
    OBVIOUS
  <1>2. s \in Seq(Calls) /\ Len(s) = i - 1 /\ \A j \in 1..i - 1 : s[j] = q[j]
    BY <1>1
  <1>3. /\ t \in Seq(Calls) /\ Len(t) = Len(q) - i
        /\ \A j \in 1..Len(q) - i : t[j] = q[j + i]
    <2>1. \A j \in i + 1 .. Len(q) : q[j] \in Calls
      BY <1>1
    <2>2. QED
      BY <1>1, <2>1
  <1>4. RemoveAt(q, i) = s \o t
    BY DEF RemoveAt
  <1> HIDE DEF s, t
  <1>5. /\ s \o t \in Seq(Calls) /\ Len(s \o t) = Len(q) - 1
        /\ \A j \in 1..Len(q) - 1 : (s \o t)[j] = IF j <= Len(s) THEN s[j] ELSE t[j - Len(s)]
    <2>1. s \o t \in Seq(Calls)
      BY <1>2, <1>3
    <2>2. Len(s \o t) = Len(s) + Len(t)
      BY <1>2, <1>3, ConcatProperties
    <2>3. Len(s) + Len(t) = Len(q) - 1
      BY <1>1, <1>2, <1>3
    <2>4. \A j \in 1..Len(s) + Len(t) : (s \o t)[j] = IF j <= Len(s) THEN s[j] ELSE t[j - Len(s)]
      BY <1>2, <1>3
    <2>5. QED
      BY <2>1, <2>2, <2>3, <2>4
  <1>6. ASSUME NEW j \in 1..Len(q) - 1
        PROVE  (s \o t)[j] = IF j < i THEN q[j] ELSE q[j + 1]
    <2>1. CASE j < i
      BY <1>1, <1>2, <1>5, <2>1
    <2>2. CASE ~(j < i)
      <3>1. j - (i - 1) \in 1..Len(q) - i /\ (j - (i - 1)) + i = j + 1
        BY <1>1, <2>2
      <3>2. QED
        BY <1>1, <1>2, <1>3, <1>5, <2>2, <3>1
    <2>3. QED
      BY <2>1, <2>2
  <1>7. QED
    BY <1>4, <1>5, <1>6

(* The least of a set of naturals: what SelectInSeq finds exists.           *)
LEMMA Least ==
    ASSUME NEW T, T \subseteq Nat, T # {}
    PROVE  Min(T) \in T
  <1> DEFINE R == OpToRel(<, Nat)
  <1>1. IsWellFoundedOn(R, Nat)
    BY NatLessThanWellFounded
  <1>2. \A x, y : <<y, x>> \in R <=> y \in Nat /\ x \in Nat /\ y < x
    BY Zenon DEF OpToRel
  <1> HIDE DEF R
  <1>3. PICK n \in T : \A m \in T : ~(<<m, n>> \in R)
    BY <1>1, WFMin
  <1>4. \A m \in T : ~(m < n)
    BY <1>2, <1>3
  <1>5. \A m \in T : n =< m
    BY <1>4
  <1>6. QED
    BY <1>5 DEF Min

-----------------------------------------------------------------------------
LEMMA DeliverInv ==
    ASSUME FullInv, NEW r \in Runs, CancelDeliver(r)
    PROVE  FullInv'
  <1> DEFINE aborted == Signalled(call, {active[r]}, "cancelled")
             I       == {i \in 1..Len(queue) : RunOf(queue[i]) = r}
             waiting == SelectInSeq(queue, LAMBDA c : RunOf(c) = r)
  <1>1. /\ call \in [Calls -> CallState]
        /\ queue \in Seq(Calls)
        /\ \A i, j \in 1..Len(queue) : queue[i] = queue[j] => i = j
        /\ \A c \in Calls : call[c].at = "queued" <=> \E i \in 1..Len(queue) : queue[i] = c
        /\ canceller[r] = "deliver"
        /\ status \in [Runs -> {"none"} \cup Active \cup Finished]
        /\ canceller \in [Runs -> {"none", "deliver", "cancelRow"}]
        /\ UNCHANGED <<status, phase>>
    BY DEF CancelDeliver, FullInv, ExecutorInv, CallsInv, QueueInv, CareInv, At
  <1>2. /\ aborted \in [Calls -> CallState]
        /\ \A c \in Calls : /\ aborted[c].at = call[c].at /\ aborted[c].kind = call[c].kind
                            /\ aborted[c].run = call[c].run
                            /\ aborted[c].expected = call[c].expected
    BY <1>1, SignalKeeps DEF Signals
  <1>3. waiting = IF I # {} THEN Min(I) ELSE 0
    BY DEF SelectInSeq
  <1>4. waiting # 0 => waiting \in 1..Len(queue) /\ RunOf(queue[waiting]) = r
    <2>1. I \subseteq Nat
      OBVIOUS
    <2>2. I # {} => Min(I) \in I
      BY <2>1, Least
    <2>3. QED
      BY <1>3, <2>2
  <1>5. \/ /\ waiting = 0
           /\ call' = aborted /\ canceller' = [canceller EXCEPT ![r] = "none"] /\ queue' = queue
        \/ /\ waiting # 0
           /\ call' = [aborted EXCEPT ![queue[waiting]] = IdleCall]
           /\ canceller' = [canceller EXCEPT ![r] = "cancelRow"]
           /\ queue' = RemoveAt(queue, waiting)
    BY DEF CancelDeliver
  <1> HIDE DEF aborted, I, waiting
  <1>6. phase' \in {"accepting", "closing"}
    BY <1>1 DEF FullInv, ClosingInv
  <1>7. ClosingInv'
    BY <1>6 DEF ClosingInv
  <1>8. CASE waiting = 0
    <2>1. call' = aborted /\ canceller' = [canceller EXCEPT ![r] = "none"] /\ queue' = queue
      BY <1>5, <1>8
    <2>2. CallsInv'
      BY <1>2, <2>1 DEF FullInv, ExecutorInv, CallsInv, At, RunOf
    <2>3. QueueInv'
      BY <1>1, <1>2, <2>1 DEF QueueInv, At
    <2>4. Occupied(call') = Occupied(call)
      BY <1>2, <2>1 DEF Occupied
    <2>5. SlotsInv'
      BY <1>1, <2>1, <2>4 DEF FullInv, ExecutorInv, SlotsInv
    <2>6. /\ canceller' \in [Runs -> {"none", "deliver", "cancelRow"}]
          /\ \A q \in Runs : canceller[q] = "cancelRow" => canceller'[q] = "cancelRow"
      BY <1>1, <2>1
    <2>7. \A c \in Calls : /\ RunOf(c)' = RunOf(c)
                           /\ At(c, WillStart) => At(c, WillStart)'
                           /\ At(c, WillEnd) => At(c, WillEnd)'
      BY <1>2, <2>1 DEF At, RunOf
    <2>8. CareInv'
      BY <1>1, <2>6, <2>7, CareKept DEF FullInv
    <2>9. QED
      BY <1>7, <2>2, <2>3, <2>5, <2>8 DEF FullInv, ExecutorInv
  <1>9. CASE waiting # 0
    <2> DEFINE w == queue[waiting]
    <2>1. /\ waiting \in 1..Len(queue) /\ RunOf(w) = r /\ w \in Calls
          /\ call' = [aborted EXCEPT ![w] = IdleCall]
          /\ canceller' = [canceller EXCEPT ![r] = "cancelRow"]
          /\ queue' = RemoveAt(queue, waiting)
          /\ call[w].at = "queued"
      BY <1>1, <1>4, <1>5, <1>9
    <2>2. IdleCall \in CallState /\ IdleCall.at = "idle"
      BY DEF IdleCall, CallState, PC
    <2>3. /\ call' \in [Calls -> CallState]
          /\ call'[w].at = "idle"
          /\ \A c \in Calls \ {w} : call'[c] = aborted[c]
      BY <1>2, <2>1, <2>2
    <2>4. CallsInv'
      <3>1. ASSUME NEW d \in Calls
            PROVE  /\ ~At(d, {"idle"})' => RunOf(d)' \in Runs
                   /\ At(d, {"limits", "reject", "push", "queued", "terminalize"})'
                        => call'[d].kind = "enqueue"
                   /\ At(d, {"activate"})' => call'[d].kind = "execute"
                   /\ At(d, {"retry"})' => call'[d].expected # "none"
        <4>1. CASE d = w
          BY <2>3, <4>1 DEF At
        <4>2. CASE d # w
          BY <1>2, <2>3, <4>2 DEF FullInv, ExecutorInv, CallsInv, At, RunOf
        <4>3. QED
          BY <4>1, <4>2
      <3>2. QED
        BY <2>3, <3>1 DEF CallsInv
    <2>5. /\ queue' \in Seq(Calls)
          /\ Len(queue') = Len(queue) - 1
          /\ \A j \in 1..Len(queue) - 1 : queue'[j] = IF j < waiting THEN queue[j] ELSE queue[j + 1]
          /\ Len(queue) \in Nat
      <3>1. /\ queue' = RemoveAt(queue, waiting)
            /\ queue \in Seq(Calls) /\ waiting \in 1..Len(queue)
        BY <1>1, <2>1
      <3>2. /\ RemoveAt(queue, waiting) \in Seq(Calls)
            /\ Len(RemoveAt(queue, waiting)) = Len(queue) - 1
            /\ \A j \in 1..Len(queue) - 1 :
                 RemoveAt(queue, waiting)[j] = IF j < waiting THEN queue[j] ELSE queue[j + 1]
        BY <3>1, ElementRemoved
      <3> DEFINE rest == RemoveAt(queue, waiting)
      <3>3. queue' = rest /\ rest \in Seq(Calls) /\ Len(rest) = Len(queue) - 1
            /\ \A j \in 1..Len(queue) - 1 : rest[j] = IF j < waiting THEN queue[j] ELSE queue[j + 1]
        BY <3>1, <3>2
      <3> HIDE DEF rest
      <3>4. Len(queue) \in Nat
        BY <3>1
      <3>5. QED
        BY <3>3, <3>4
    <2> HIDE DEF w
    <2>6. w = queue[waiting]
      BY DEF w
    <2>7. QueueInv'
      <3>1. \A i, j \in 1..Len(queue') : queue'[i] = queue'[j] => i = j
        <4> SUFFICES ASSUME NEW i \in 1..Len(queue'), NEW j \in 1..Len(queue'),
                            queue'[i] = queue'[j]
                     PROVE  i = j
          OBVIOUS
        <4> DEFINE m == IF i < waiting THEN i ELSE i + 1
                   n == IF j < waiting THEN j ELSE j + 1
        <4>1. m \in 1..Len(queue) /\ n \in 1..Len(queue) /\ queue[m] = queue[n]
          BY <2>1, <2>5
        <4>2. m = n
          BY <1>1, <4>1
        <4>3. QED
          BY <2>1, <2>5, <4>2
      <3>2. ASSUME NEW c \in Calls, call'[c].at = "queued"
            PROVE  \E i \in 1..Len(queue') : queue'[i] = c
        <4>1. c # w /\ call[c].at = "queued"
          BY <1>2, <2>3, <3>2
        <4>2. PICK i \in 1..Len(queue) : queue[i] = c
          BY <1>1, <4>1
        <4>3. i # waiting
          BY <2>6, <4>1, <4>2
        <4> DEFINE j == IF i < waiting THEN i ELSE i - 1
        <4>4. j \in 1..Len(queue) - 1 /\ queue'[j] = c
          <5>1. CASE i < waiting
            BY <2>1, <2>5, <4>2, <5>1
          <5>2. CASE ~(i < waiting)
            <6>1. i - 1 \in 1..Len(queue) - 1 /\ ~(i - 1 < waiting) /\ (i - 1) + 1 = i
              BY <2>1, <2>5, <4>3, <5>2
            <6>2. QED
              BY <2>5, <4>2, <5>2, <6>1
          <5>3. QED
            BY <5>1, <5>2
        <4> HIDE DEF j
        <4>5. QED
          BY <2>5, <4>4
      <3>3. ASSUME NEW c \in Calls, NEW i \in 1..Len(queue'), queue'[i] = c
            PROVE  call'[c].at = "queued"
        <4> DEFINE m == IF i < waiting THEN i ELSE i + 1
        <4>1. m \in 1..Len(queue) /\ queue[m] = c /\ m # waiting
          BY <2>1, <2>5, <3>3
        <4>2. call[c].at = "queued" /\ c # w
          BY <1>1, <2>1, <2>6, <4>1
        <4>3. QED
          BY <1>2, <2>3, <4>2
      <3>4. QED
        BY <2>5, <3>1, <3>2, <3>3 DEF QueueInv, At
    <2>8. SlotsInv'
      <3>1. Occupied(call') = Occupied(call)
        BY <1>2, <2>1, <2>3 DEF Occupied
      <3>2. queue' # <<>> => queue # <<>>
        BY <2>1, <2>5
      <3>3. QED
        BY <1>1, <3>1, <3>2 DEF FullInv, ExecutorInv, SlotsInv
    <2>9. CareInv'
      <3>1. /\ canceller' \in [Runs -> {"none", "deliver", "cancelRow"}]
            /\ canceller'[r] = "cancelRow"
            /\ \A q \in Runs \ {r} : canceller'[q] = canceller[q]
        BY <1>1, <2>1
      <3>2. ASSUME NEW c \in Calls, RunOf(c) # r
            PROVE  /\ RunOf(c)' = RunOf(c)
                   /\ At(c, WillStart) => At(c, WillStart)'
                   /\ At(c, WillEnd) => At(c, WillEnd)'
        <4>1. c # w
          BY <2>1, <3>2
        <4>2. QED
          BY <1>2, <2>3, <4>1 DEF At, RunOf
      <3>3. \A q \in Runs : status'[q] \in Open =>
               /\ status'[q] = status[q]
               /\ \/ canceller'[q] = "cancelRow"
                  \/ /\ canceller[q] # "cancelRow"
                     /\ \A c \in Calls : RunOf(c) = q =>
                          /\ RunOf(c)' = q
                          /\ At(c, WillStart) => At(c, WillStart)'
                          /\ At(c, WillEnd) => At(c, WillEnd)'
        BY <1>1, <3>1, <3>2
      <3>4. QED
        BY <1>1, <3>1, <3>3, CareKept DEF FullInv
    <2>10. QED
      BY <1>7, <2>4, <2>7, <2>8, <2>9 DEF FullInv, ExecutorInv
  <1>10. QED
    BY <1>8, <1>9

(* The other two steps of cancel write the row: it is open no more.         *)
LEMMA CancelInv ==
    ASSUME FullInv, NEW r \in Runs, CancelRequest(r) \/ CancelWaiting(r)
    PROVE  FullInv'
  <1>1. /\ status \in [Runs -> {"none"} \cup Active \cup Finished]
        /\ canceller \in [Runs -> {"none", "deliver", "cancelRow"}]
        /\ UNCHANGED <<call, queue, phase>>
    BY DEF CancelRequest, CancelWaiting, FullInv, CareInv
  <1>2. ExecutorInv'
    BY <1>1 DEF FullInv, ExecutorInv, CallsInv, QueueInv, SlotsInv, At, RunOf
  <1>3. /\ status' \in [Runs -> {"none"} \cup Active \cup Finished]
        /\ \A q \in Runs \ {r} : status'[q] = status[q]
        /\ status'[r] \notin Open
    <2>1. CASE CancelRequest(r)
      BY <1>1, <2>1 DEF CancelRequest, Active, Open
    <2>2. CASE CancelWaiting(r)
      <3>1. Sets(r, Active, "cancelled")
        BY <2>2 DEF CancelWaiting
      <3>2. /\ status' \in [Runs -> {"none"} \cup Active \cup Finished]
            /\ \A q \in Runs \ {r} : status'[q] = status[q]
            /\ status'[r] = IF status[r] \in Active THEN "cancelled" ELSE status[r]
        BY <1>1, <3>1, SetsRow DEF Finished
      <3>3. QED
        BY <3>2 DEF Active, Open
    <2>3. QED
      BY <2>1, <2>2
  <1>4. /\ canceller' \in [Runs -> {"none", "deliver", "cancelRow"}]
        /\ \A q \in Runs \ {r} : canceller'[q] = canceller[q]
    BY <1>1 DEF CancelRequest, CancelWaiting
  <1>5. \A c \in Calls : /\ RunOf(c)' = RunOf(c)
                         /\ At(c, WillStart) <=> At(c, WillStart)'
                         /\ At(c, WillEnd) <=> At(c, WillEnd)'
    BY <1>1 DEF At, RunOf
  <1>6. CareInv'
    BY <1>3, <1>4, <1>5, CareKept DEF FullInv
  <1>7. ClosingInv'
    <2>1. CASE CancelRequest(r)
      BY <1>1, <2>1 DEF CancelRequest, ClosingInv
    <2>2. CASE CancelWaiting(r)
      <3>1. phase \in {"accepting", "closing"}
        BY <2>2 DEF CancelWaiting, FullInv, ClosingInv
      <3>2. QED
        BY <1>1, <3>1 DEF ClosingInv
    <2>3. QED
      BY <2>1, <2>2
  <1>8. QED
    BY <1>2, <1>6, <1>7 DEF FullInv

LEMMA BeginCloseInv ==
    ASSUME FullInv, BeginClose
    PROVE  FullInv'
  <1>1. /\ call \in [Calls -> CallState]
        /\ phase' = "closing"
        /\ UNCHANGED <<status, queue, canceller>>
        /\ status \in [Runs -> {"none"} \cup Active \cup Finished]
        /\ canceller \in [Runs -> {"none", "deliver", "cancelRow"}]
    BY DEF BeginClose, FullInv, ExecutorInv, CallsInv, CareInv
  <1>2. /\ call' \in [Calls -> CallState]
        /\ \A c \in Calls : /\ call'[c].at = call[c].at /\ call'[c].kind = call[c].kind
                            /\ call'[c].run = call[c].run
                            /\ call'[c].expected = call[c].expected
    BY <1>1, SignalKeeps DEF BeginClose, Signals
  <1>3. CallsInv' /\ QueueInv'
    BY <1>1, <1>2 DEF FullInv, ExecutorInv, CallsInv, QueueInv, At, RunOf
  <1>4. SlotsInv' /\ ClosingInv'
    BY <1>1 DEF SlotsInv, ClosingInv
  <1>5. \A c \in Calls : /\ RunOf(c)' = RunOf(c)
                         /\ At(c, WillStart) => At(c, WillStart)'
                         /\ At(c, WillEnd) => At(c, WillEnd)'
    BY <1>2 DEF At, RunOf
  <1>6. CareInv'
    BY <1>1, <1>5, CareKept DEF FullInv
  <1>7. QED
    BY <1>3, <1>4, <1>6 DEF FullInv, ExecutorInv

(* close takes what waits out of the queue and terminalizes it.             *)
LEMMA SpliceInv ==
    ASSUME FullInv, SpliceQueue
    PROVE  FullInv'
  <1> DEFINE told == Signalled(call, Registered, "closed")
  <1>1. /\ call \in [Calls -> CallState]
        /\ phase' = "draining" /\ queue' = <<>>
        /\ AdmissionSettled
        /\ UNCHANGED <<status, canceller>>
        /\ status \in [Runs -> {"none"} \cup Active \cup Finished]
        /\ canceller \in [Runs -> {"none", "deliver", "cancelRow"}]
        /\ call' = [c \in Calls |-> IF call[c].at = "queued"
                                    THEN [call[c] EXCEPT !.at = "terminalize"] ELSE told[c]]
    BY DEF SpliceQueue, FullInv, ExecutorInv, CallsInv, CareInv, At
  <1>2. /\ told \in [Calls -> CallState]
        /\ \A c \in Calls : /\ told[c].at = call[c].at /\ told[c].kind = call[c].kind
                            /\ told[c].run = call[c].run
                            /\ told[c].expected = call[c].expected
    BY <1>1, SignalKeeps DEF Signals
  <1> HIDE DEF told
  <1>3. ASSUME NEW c \in Calls
        PROVE  /\ call'[c] \in CallState
               /\ call'[c].at = IF call[c].at = "queued" THEN "terminalize" ELSE call[c].at
               /\ call'[c].kind = call[c].kind /\ call'[c].run = call[c].run
               /\ call[c].at # "queued" => call'[c].expected = call[c].expected
    <2>1. CASE call[c].at = "queued"
      <3>1. "terminalize" \in PC
        BY DEF PC
      <3>2. call'[c] = [call[c] EXCEPT !.at = "terminalize"]
        BY <1>1, <2>1
      <3>3. QED
        BY <1>1, <2>1, <3>1, <3>2, FieldAt
    <2>2. CASE call[c].at # "queued"
      BY <1>1, <1>2, <2>2
    <2>3. QED
      BY <2>1, <2>2
  <1>4. call' \in [Calls -> CallState]
    <2>1. \E f : call' = [c \in Calls |-> f[c]]
      <3> DEFINE f == [c \in Calls |-> IF call[c].at = "queued"
                                       THEN [call[c] EXCEPT !.at = "terminalize"] ELSE told[c]]
      <3>1. call' = [c \in Calls |-> f[c]]
        BY <1>1
      <3>2. QED
        BY <3>1
    <2>2. QED
      BY <1>3, <2>1
  <1>5. CallsInv'
    <2>1. ASSUME NEW d \in Calls
          PROVE  /\ ~At(d, {"idle"})' => RunOf(d)' \in Runs
                 /\ At(d, {"limits", "reject", "push", "queued", "terminalize"})'
                      => call'[d].kind = "enqueue"
                 /\ At(d, {"activate"})' => call'[d].kind = "execute"
                 /\ At(d, {"retry"})' => call'[d].expected # "none"
      BY <1>3 DEF FullInv, ExecutorInv, CallsInv, At, RunOf
    <2>2. QED
      BY <1>4, <2>1 DEF CallsInv
  <1>6. QueueInv'
    <2>1. \A c \in Calls : ~At(c, {"queued"})'
      BY <1>3 DEF At
    <2>2. <<>> \in Seq(Calls) /\ Len(<<>>) = 0
      OBVIOUS
    <2>3. QED
      BY <1>1, <2>1, <2>2 DEF QueueInv
  <1>7. SlotsInv'
    BY <1>1 DEF SlotsInv
  <1>8. ClosingInv'
    <2>1. \A c \in Calls : InAdmission(c)' => InAdmission(c)
      BY <1>3 DEF InAdmission, At, Admitting
    <2>2. QED
      BY <1>1, <2>1 DEF ClosingInv, AdmissionSettled
  <1>9. \A c \in Calls : /\ RunOf(c)' = RunOf(c)
                         /\ At(c, WillStart) => At(c, WillStart)'
                         /\ At(c, WillEnd) => At(c, WillEnd)'
    BY <1>3 DEF At, RunOf, WillStart, WillEnd
  <1>10. CareInv'
    BY <1>1, <1>9, CareKept DEF FullInv
  <1>11. QED
    BY <1>5, <1>6, <1>7, <1>8, <1>10 DEF FullInv, ExecutorInv

LEMMA EndCloseInv ==
    ASSUME FullInv, EndClose
    PROVE  FullInv'
  <1>1. /\ phase = "draining" /\ phase' = "closed"
        /\ \A c \in Calls : ~InExecution(c)
        /\ UNCHANGED <<status, stored, call, queue, active, canceller>>
    BY DEF EndClose
  <1>2. /\ queue = <<>>
        /\ \A c \in Calls : ~InAdmission(c)
        /\ \A r \in Runs : canceller[r] = "none"
    BY <1>1 DEF FullInv, ClosingInv
  <1>3. \A c \in Calls : ~At(c, {"queued"})
    BY <1>2 DEF FullInv, ExecutorInv, QueueInv
  <1>4. \A c \in Calls : At(c, {"idle"})
    BY <1>1, <1>2, <1>3 DEF InExecution, At
  <1>5. CallsInv' /\ QueueInv' /\ SlotsInv'
    BY <1>1 DEF FullInv, ExecutorInv, CallsInv, QueueInv, SlotsInv, At, RunOf
  <1>6. CareInv'
    BY <1>1 DEF FullInv, CareInv, Cared, At, RunOf
  <1>7. ClosingInv'
    BY <1>1, <1>2, <1>4 DEF ClosingInv, InAdmission, At
  <1>8. QED
    BY <1>5, <1>6, <1>7 DEF FullInv, ExecutorInv

(* A process that has just started, whatever the rows say.                  *)
LEMMA FreshStart ==
    ASSUME call = [c \in Calls |-> IdleCall], queue = <<>>, phase = "accepting",
           status \in [Runs -> {"none"} \cup Finished],
           canceller = [r \in Runs |-> "none"]
    PROVE  FullInv
  <1>1. IdleCall \in CallState /\ IdleCall.at = "idle"
    BY DEF IdleCall, CallState, PC
  <1>2. call \in [Calls -> CallState] /\ \A c \in Calls : call[c].at = "idle"
    BY <1>1
  <1>3. CallsInv
    BY <1>2 DEF CallsInv, At
  <1>4. QueueInv
    <2>1. <<>> \in Seq(Calls) /\ Len(<<>>) = 0
      OBVIOUS
    <2>2. QED
      BY <1>2, <2>1 DEF QueueInv, At
  <1>5. SlotsInv
    <2>1. Occupied(call) = {}
      BY <1>2 DEF Occupied
    <2>2. IsFiniteSet({}) /\ Cardinality({}) = 0 /\ MaxConcurrent \in Nat
      BY FS_EmptySet, RunServiceAssumption
    <2>3. IsFiniteSet(Occupied(call)) /\ Cardinality(Occupied(call)) = 0
      BY <2>1, <2>2
    <2>4. queue = <<>> /\ 0 <= MaxConcurrent
      BY <2>2
    <2>5. QED
      BY <2>3, <2>4 DEF SlotsInv
  <1>6. CareInv
    BY DEF CareInv, Finished
  <1>7. ClosingInv
    BY DEF ClosingInv
  <1>8. QED
    BY <1>3, <1>4, <1>5, <1>6, <1>7 DEF FullInv, ExecutorInv

LEMMA InitInv == Init => FullInv
  <1> SUFFICES ASSUME Init PROVE FullInv
    OBVIOUS
  <1>1. status \in [Runs -> {"none"} \cup Finished]
    BY DEF Init
  <1>2. QED
    BY <1>1, FreshStart DEF Init

LEMMA RestartInv ==
    ASSUME FullInv, Restart
    PROVE  FullInv'
  <1>1. status \in [Runs -> {"none"} \cup Active \cup Finished]
    BY DEF FullInv, CareInv
  <1>2. status' \in [Runs -> {"none"} \cup Finished]
    BY <1>1 DEF Restart, Active, Finished
  <1>3. /\ call' = [c \in Calls |-> IdleCall] /\ queue' = <<>> /\ phase' = "accepting"
        /\ canceller' = [r \in Runs |-> "none"]
    BY DEF Restart
  <1>4. IdleCall \in CallState /\ IdleCall.at = "idle"
    BY DEF IdleCall, CallState, PC
  <1>5. call' \in [Calls -> CallState] /\ \A c \in Calls : call'[c].at = "idle"
    BY <1>3, <1>4
  <1>6. CallsInv'
    BY <1>5 DEF CallsInv, At
  <1>7. QueueInv'
    <2>1. <<>> \in Seq(Calls) /\ Len(<<>>) = 0
      OBVIOUS
    <2>2. QED
      BY <1>3, <1>5, <2>1 DEF QueueInv, At
  <1>8. SlotsInv'
    <2>1. Occupied(call') = {}
      BY <1>5 DEF Occupied
    <2>2. IsFiniteSet({}) /\ Cardinality({}) = 0 /\ MaxConcurrent \in Nat
      BY FS_EmptySet, RunServiceAssumption
    <2>3. IsFiniteSet(Occupied(call')) /\ Cardinality(Occupied(call')) = 0
      BY <2>1, <2>2
    <2>4. queue' = <<>> /\ 0 <= MaxConcurrent
      BY <1>3, <2>2
    <2>5. QED
      BY <2>3, <2>4 DEF SlotsInv
  <1>9. CareInv'
    BY <1>2, <1>3 DEF CareInv, Finished
  <1>10. ClosingInv'
    BY <1>3 DEF ClosingInv
  <1>11. QED
    BY <1>6, <1>7, <1>8, <1>9, <1>10 DEF FullInv, ExecutorInv

LEMMA StepInv == FullInv /\ [Next]_vars => FullInv'
  <1> SUFFICES ASSUME FullInv, [Next]_vars PROVE FullInv'
    OBVIOUS
  <1>1. CASE \E c \in Calls, r \in Runs : Submit(c, r)
    BY <1>1, SubmitInv
  <1>2. ASSUME NEW c \in Calls, Admission(c) \/ Execution(c) \/ DeadlineTimer(c) PROVE FullInv'
    <2>1. CASE Push(c)
      BY <2>1, PushInv
    <2>2. CASE Leave(c) /\ call[c].kind # "execute"
      BY <2>2, LeaveInv
    <2>3. CASE ~Push(c) /\ ~(Leave(c) /\ call[c].kind # "execute")
      <3>1. ExecutorInv /\ CallsInv /\ CareInv /\ ClosingInv
        BY DEF FullInv, ExecutorInv
      <3>2. PICK pc \in PC : Turn(c, pc) /\ Tended(c, pc)
        BY <1>2, <2>3, <3>1, AdmissionTurns, ExecutionTurns DEF Admission, Execution
      <3>3. QED
        BY <3>1, <3>2, TurnKeepsCalls, TurnKeepsCare DEF FullInv
    <2>4. QED
      BY <2>1, <2>2, <2>3
  <1>3. CASE \E r \in Runs : CancelRequest(r) \/ Cancelling(r)
    BY <1>3, DeliverInv, CancelInv DEF Cancelling
  <1>4. CASE BeginClose
    BY <1>4, BeginCloseInv
  <1>5. CASE Closing
    BY <1>5, SpliceInv, EndCloseInv DEF Closing
  <1>6. CASE Restart
    BY <1>6, RestartInv
  <1>7. CASE UNCHANGED vars
    BY <1>7 DEF vars, FullInv, ExecutorInv, CallsInv, QueueInv, SlotsInv, CareInv, ClosingInv,
                Cared, At, RunOf, InAdmission
  <1>8. QED
    BY <1>1, <1>2, <1>3, <1>4, <1>5, <1>6, <1>7 DEF Next

(* A task of the in-process executor waits only while every slot is taken,  *)
(* through rejections, cancellations, duplicates, closing and restarts: it  *)
(* is drain that keeps it so, at the push and in the finally of each task.  *)
THEOREM SlotsAreUsed == Spec => []NoIdleSlot
  <1>1. FullInv => NoIdleSlot
    BY DEF FullInv, ExecutorInv, SlotsInv, NoIdleSlot
  <1>2. QED
    BY <1>1, InitInv, StepInv, PTL DEF Spec

(* When close resolves, the queue is empty, no call is under way and no run *)
(* is open: an open run always has somebody who has yet to write its end.   *)
THEOREM ClosedIsSettled == Spec => []SettledWhenClosed
  <1>1. FullInv => SettledWhenClosed
    <2> SUFFICES ASSUME FullInv, phase = "closed"
                 PROVE  /\ queue = <<>>
                        /\ \A c \in Calls : At(c, {"idle"})
                        /\ \A r \in Runs : status[r] \notin Open
      BY DEF SettledWhenClosed
    <2>1. /\ queue = <<>>
          /\ \A c \in Calls : At(c, {"idle"})
          /\ \A r \in Runs : canceller[r] = "none"
      BY DEF FullInv, ClosingInv
    <2>2. \A r \in Runs : ~Cared(r, WillStart) /\ ~Cared(r, WillEnd)
      BY <2>1 DEF Cared, At, WillStart, WillEnd
    <2>3. \A r \in Runs : status[r] \notin Open
      BY <2>2 DEF FullInv, CareInv, Open
    <2>4. QED
      BY <2>1, <2>3
  <1>2. QED
    BY <1>1, InitInv, StepInv, PTL DEF Spec

-----------------------------------------------------------------------------
(* When requests are not repeated                                          *)

(* The steps of one call that neither push it nor free a slot.              *)
CallMoves(c) ==
    \/ Retry(c) \/ Reread(c) \/ CountActive(c) \/ Reject(c)
    \/ MarkRunning(c) \/ Skip(c) \/ Activate(c) \/ Check(c) \/ TaskEnds(c) \/ Complete(c)
    \/ Unstored(c) \/ Catch(c) \/ CancelRow(c) \/ FailRow(c) \/ Terminalize(c)
    \/ Leave(c) /\ call[c].kind = "execute"
    \/ DeadlineTimer(c)

LEMMA CallTurns ==
    ASSUME FullInv, NEW c \in Calls, CallMoves(c)
    PROVE  Turn(c, call'[c].at) /\ call'[c].at \in PC
  <1>1. CallsInv /\ CareInv
    BY DEF FullInv, ExecutorInv
  <1>2. PICK pc \in PC : Turn(c, pc) /\ Tended(c, pc)
    BY <1>1, AdmissionTurns, ExecutionTurns DEF CallMoves
  <1>3. call'[c].at = pc
    BY <1>2 DEF Turn, Moved
  <1>4. QED
    BY <1>2, <1>3

(* A call that starts has registered its controller, on a run it has marked *)
(* running, and takes away no controller but its own.                       *)
Registering(c) ==
    /\ At(c, {"leave"}) => call'[c].at = "idle" /\ status' = status
    /\ active' \in [Runs -> Calls \cup {NoCall}]
    /\ \A q \in Runs, d \in Calls \ {c} :
         active[q] = d /\ (q = RunOf(c) => At(c, {"leave"})) => active'[q] = d
    /\ \/ call'[c].at \in Started
       \/ call'[c].at = "mark" /\ call[c].kind = "enqueue"
       => active'[RunOf(c)] = c
    /\ call'[c].at \in {"activate"} \cup Started => status'[RunOf(c)] # "queued"
    /\ \A q \in Runs \ {RunOf(c)} : status'[q] = "queued" => status[q] = "queued"

LEMMA CallRegisters ==
    ASSUME FullInv, SingleInv, NEW c \in Calls, CallMoves(c)
    PROVE  Registering(c)
  <1> USE DEF At, Started
  <1> DEFINE r == RunOf(c)
  <1>1. /\ call \in [Calls -> CallState]
        /\ status \in [Runs -> {"none"} \cup Active \cup Finished]
        /\ active \in [Runs -> Calls \cup {NoCall}]
        /\ At(c, Started) \/ (At(c, {"mark"}) /\ call[c].kind = "enqueue") => active[r] = c
        /\ At(c, {"activate"} \cup Started) => status[r] # "queued"
        /\ ~At(c, {"idle"}) => r \in Runs
        /\ call[c].kind \in {"enqueue", "execute"}
        /\ At(c, {"terminalize"}) => call[c].kind = "enqueue"
    <2>1. call \in [Calls -> CallState]
      BY DEF FullInv, ExecutorInv, CallsInv
    <2>2. call[c].kind \in {"enqueue", "execute"}
      BY <2>1 DEF CallState
    <2>3. QED
      BY <2>1, <2>2 DEF SingleInv, FullInv, ExecutorInv, CallsInv, CareInv
  <1>2. call' \in [Calls -> CallState] /\ ~At(c, {"idle"})
    BY CallTurns DEF Turn, Moved
  <1>3. ASSUME UNCHANGED <<status, active>>,
               call'[c].at \in Started \cup {"activate"} => At(c, Started),
               call'[c].at = "mark" => call[c].kind = "execute" \/ At(c, {"mark"}),
               ~At(c, {"leave"})
        PROVE  Registering(c)
    BY <1>1, <1>3 DEF Registering
  <1>4. ASSUME NEW pc \in {"reread", "limits", "mark", "reject", "push", "leave", "activate", "check",
                          "skip", "cancelRow", "failRow", "catch", "task", "finish", "store", "unstored"},
               Goes(c, pc) \/ Settles(c, pc)
        PROVE  call'[c].at = pc
    <2>1. pc \in PC
      BY DEF PC, Admitting
    <2>2. QED
      BY <1>1, <1>4, <2>1, GoesMoves, SettlesMoves DEF Moved
  <1>5. ASSUME NEW error \in Reasons, Fails(c, error) PROVE call'[c].at = "catch"
    BY <1>1, <1>5, FailsMoves DEF Moved
  <1>6. Ends(c) => call'[c].at = "idle"
    BY <1>1, <1>2 DEF Ends, IdleCall
  <1>7. CASE Retry(c)
    <2>1. call'[c].at \in {"reread", "idle"}
      <3>1. CASE status[r] = call[c].expected
        BY <1>1, <1>2, <1>7, <3>1 DEF Retry, CallState
      <3>2. CASE status[r] # call[c].expected
        BY <1>6, <1>7, <3>2 DEF Retry
      <3>3. QED
        BY <3>1, <3>2
    <2>2. \A q \in Runs \ {r} : status'[q] = status[q]
      BY <1>1, <1>7 DEF Retry
    <2>3. QED
      BY <1>1, <1>2, <1>7, <2>1, <2>2 DEF Retry, Registering
  <1>8. CASE Reread(c)
    <2>1. call'[c].at \in {"limits", "idle"} \/ (call'[c].at = "mark" /\ call[c].kind = "execute")
      BY <1>4, <1>6, <1>8 DEF Reread
    <2>2. QED
      BY <1>3, <1>8, <2>1 DEF Reread
  <1>9. CASE CountActive(c)
    <2>1. call'[c].at \in {"reject", "push"}
      BY <1>4, <1>9 DEF CountActive
    <2>2. QED
      BY <1>3, <1>9, <2>1 DEF CountActive
  <1>10. CASE Reject(c) \/ CancelRow(c) \/ FailRow(c)
    <2>1. call'[c].at \in {"idle", "leave"}
      BY <1>4, <1>6, <1>10 DEF Reject, CancelRow, FailRow
    <2>2. PICK to \in {"failed", "cancelled"} : Sets(r, Active, to)
      BY <1>10 DEF Reject, CancelRow, FailRow
    <2>3. \A q \in Runs \ {r} : status'[q] = status[q]
      BY <1>1, <1>2, <2>2, SetsRow DEF Finished
    <2>4. active' = active /\ ~At(c, {"leave"})
      BY <1>10 DEF Reject, CancelRow, FailRow
    <2>5. QED
      BY <1>1, <1>2, <2>1, <2>3, <2>4 DEF Registering
  <1>11. CASE MarkRunning(c)
    <2>1. CASE status[r] = "queued"
      <3>1. status' = [status EXCEPT ![r] = "running"] /\ active' = active
        BY <1>11, <2>1 DEF MarkRunning
      <3>2. status'[r] = "running" /\ \A q \in Runs \ {r} : status'[q] = status[q]
        BY <1>1, <1>2, <3>1
      <3>3. call'[c].at = IF call[c].kind = "execute" THEN "activate" ELSE "check"
        BY <1>4, <1>11, <2>1 DEF MarkRunning
      <3>4. QED
        BY <1>1, <1>2, <1>11, <3>1, <3>2, <3>3 DEF Registering, MarkRunning
    <2>2. CASE status[r] # "queued"
      <3>1. call'[c].at \in {"idle", "skip"}
        BY <1>4, <1>6, <1>11, <2>2 DEF MarkRunning
      <3>2. QED
        BY <1>3, <1>11, <2>2, <3>1 DEF MarkRunning
    <2>3. QED
      BY <2>1, <2>2
  <1>12. CASE Skip(c)
    <2>1. call'[c].at \in {"cancelRow", "leave"}
      BY <1>4, <1>12 DEF Skip
    <2>2. QED
      BY <1>3, <1>12, <2>1 DEF Skip
  <1>13. CASE Activate(c)
    <2>1. active' = [active EXCEPT ![r] = c] /\ status' = status /\ At(c, {"activate"})
      BY <1>13 DEF Activate
    <2>2. active'[r] = c /\ \A q \in Runs \ {r} : active'[q] = active[q]
      BY <1>1, <1>2, <2>1
    <2>3. active' \in [Runs -> Calls \cup {NoCall}]
      BY <1>1, <2>1
    <2>4. QED
      BY <1>1, <1>2, <2>1, <2>2, <2>3 DEF Registering
  <1>14. CASE Check(c)
    <2>1. call'[c].at \in {"catch", "task", "store"}
      <3>1. CASE call[c].signal # "none"
        BY <1>1, <1>5, <1>14, <3>1 DEF Check, CallState, Reasons
      <3>2. CASE call[c].signal = "none" /\ status[r] = "cancel_requested"
        BY <1>1, <1>14, <3>2, CancelMoves DEF Check, Moved
      <3>3. CASE call[c].signal = "none" /\ status[r] # "cancel_requested"
        BY <1>4, <1>14, <3>3 DEF Check
      <3>4. QED
        BY <3>1, <3>2, <3>3
    <2>2. QED
      BY <1>3, <1>14, <2>1 DEF Check
  <1>15. CASE TaskEnds(c)
    <2>1. call'[c].at \in {"catch", "finish"}
      BY <1>1, <1>4, <1>5, <1>15 DEF TaskEnds, CallState, Reasons
    <2>2. QED
      BY <1>3, <1>15, <2>1 DEF TaskEnds
  <1>16. CASE Complete(c)
    <2>1. call'[c].at \in {"leave", "unstored"}
      BY <1>4, <1>16 DEF Complete
    <2>2. \A q \in Runs \ {r} : status'[q] = status[q]
      BY <1>1, <1>16 DEF Complete
    <2>3. active' = active /\ ~At(c, {"leave"})
      BY <1>16 DEF Complete
    <2>4. QED
      BY <1>1, <1>2, <2>1, <2>2, <2>3 DEF Registering
  <1>17. CASE Unstored(c)
    <2>1. call'[c].at \in {"catch", "leave"}
      BY <1>4, <1>5, <1>17 DEF Unstored, Reasons
    <2>2. QED
      BY <1>3, <1>17, <2>1 DEF Unstored
  <1>18. CASE Catch(c)
    <2>1. call'[c].at \in {"cancelRow", "failRow"}
      BY <1>4, <1>18 DEF Catch
    <2>2. QED
      BY <1>3, <1>18, <2>1 DEF Catch
  <1>19. CASE Terminalize(c)
    <2>1. call'[c].at \in {"cancelRow", "failRow"}
      BY <1>4, <1>19 DEF Terminalize
    <2>2. QED
      BY <1>3, <1>19, <2>1 DEF Terminalize
  <1>20. CASE Leave(c) /\ call[c].kind = "execute"
    <2>1. active' = Deactivated(c) /\ status' = status /\ call'[c].at = "idle"
      BY <1>6, <1>20 DEF Leave
    <2>2. /\ active' \in [Runs -> Calls \cup {NoCall}]
          /\ \A q \in Runs, d \in Calls \ {c} : active[q] = d => active'[q] = d
      BY <1>1, <2>1 DEF Deactivated
    <2>3. QED
      BY <1>1, <1>2, <2>1, <2>2 DEF Registering
  <1>21. CASE DeadlineTimer(c)
    <2>1. call' = [call EXCEPT ![c].signal = "deadline"]
      BY <1>21 DEF DeadlineTimer
    <2>2. call'[c].at = call[c].at
      BY <1>1, <2>1, FieldSignal DEF Signals
    <2>3. QED
      BY <1>3, <1>21, <2>2 DEF DeadlineTimer
  <1>22. QED
    BY <1>7, <1>8, <1>9, <1>10, <1>11, <1>12, <1>13, <1>14, <1>15, <1>16, <1>17, <1>18, <1>19,
       <1>20, <1>21 DEF CallMoves

LEMMA TurnKeepsSingle ==
    ASSUME FullInv, SingleInv, NEW c \in Calls, CallMoves(c)
    PROVE  SingleInv'
  <1> DEFINE pc == call'[c].at
  <1>1. /\ Registering(c)
        /\ \A d \in Calls \ {c} : call'[d] = call[d]
        /\ pc # "idle" => call'[c].kind = call[c].kind /\ call'[c].run = call[c].run
        /\ ~At(c, {"idle"})
    BY CallRegisters, CallTurns DEF Turn, Moved, At
  <1>2. \A d \in Calls : ~At(d, {"idle"}) => RunOf(d) \in Runs
    BY DEF FullInv, ExecutorInv, CallsInv
  <1>3. pc \notin {"idle", "leave"} => ~At(c, {"idle", "leave"})
    BY <1>1 DEF Registering, At
  <1>4. ASSUME NEW d \in Calls \ {c}, RunOf(d) = RunOf(c), ~At(d, {"idle", "leave"})
        PROVE  At(c, {"leave"})
    BY <1>1, <1>4 DEF SingleInv, At
  <1> HIDE DEF pc
  <1>5. \A d, e \in Calls :
          RunOf(d)' = RunOf(e)' /\ ~At(d, {"idle", "leave"})' /\ ~At(e, {"idle", "leave"})' => d = e
    <2> SUFFICES ASSUME NEW d \in Calls, NEW e \in Calls, RunOf(d)' = RunOf(e)',
                        ~At(d, {"idle", "leave"})', ~At(e, {"idle", "leave"})'
                 PROVE  d = e
      OBVIOUS
    <2>1. ASSUME NEW x \in Calls, ~At(x, {"idle", "leave"})'
          PROVE  RunOf(x)' = RunOf(x) /\ ~At(x, {"idle", "leave"})
      BY <1>1, <1>3, <2>1 DEF At, RunOf, pc
    <2>2. QED
      BY <2>1 DEF SingleInv
  <1>6. ASSUME NEW d \in Calls,
               At(d, Started)' \/ (At(d, {"mark"})' /\ call'[d].kind = "enqueue")
        PROVE  active'[RunOf(d)'] = d
    <2>1. CASE d = c
      <3>1. pc # "idle"
        BY <1>6, <2>1 DEF At, pc, Started
      <3>2. call'[c].kind = call[c].kind /\ RunOf(c)' = RunOf(c)
        BY <1>1, <3>1 DEF RunOf
      <3>3. QED
        BY <1>1, <1>6, <2>1, <3>2 DEF Registering, At
    <2>2. CASE d # c
      <3>1. At(d, Started) \/ (At(d, {"mark"}) /\ call[d].kind = "enqueue")
        BY <1>1, <1>6, <2>2 DEF At
      <3>2. active[RunOf(d)] = d /\ ~At(d, {"idle", "leave"}) /\ RunOf(d) \in Runs
        BY <1>2, <3>1 DEF SingleInv, At, Started
      <3>3. active'[RunOf(d)] = d
        BY <1>1, <1>4, <2>2, <3>2 DEF Registering
      <3>4. RunOf(d)' = RunOf(d)
        BY <1>1, <2>2 DEF RunOf
      <3>5. QED
        BY <3>3, <3>4
    <2>3. QED
      BY <2>1, <2>2
  <1>7. ASSUME NEW d \in Calls, At(d, {"activate"} \cup Started)'
        PROVE  status'[RunOf(d)'] # "queued"
    <2>1. CASE d = c
      <3>1. pc # "idle"
        BY <1>7, <2>1 DEF At, pc, Started
      <3>2. RunOf(c)' = RunOf(c)
        BY <1>1, <3>1 DEF RunOf
      <3>3. QED
        BY <1>1, <1>7, <2>1, <3>2 DEF Registering, At
    <2>2. CASE d # c
      <3>1. At(d, {"activate"} \cup Started) /\ RunOf(d)' = RunOf(d)
        BY <1>1, <1>7, <2>2 DEF At, RunOf
      <3>2. status[RunOf(d)] # "queued" /\ ~At(d, {"idle", "leave"}) /\ RunOf(d) \in Runs
        BY <1>2, <3>1 DEF SingleInv, At, Started
      <3>3. CASE RunOf(d) = RunOf(c)
        BY <1>1, <1>4, <2>2, <3>1, <3>2, <3>3 DEF Registering
      <3>4. CASE RunOf(d) # RunOf(c)
        BY <1>1, <3>1, <3>2, <3>4 DEF Registering
      <3>5. QED
        BY <3>3, <3>4
    <2>3. QED
      BY <2>1, <2>2
  <1>8. active' \in [Runs -> Calls \cup {NoCall}]
    BY <1>1 DEF Registering
  <1>9. QED
    BY <1>5, <1>6, <1>7, <1>8 DEF SingleInv

(* SingleInv, of any calls and controllers *)
Single(calls, registered) ==
    /\ \A c, d \in Calls :
         /\ calls[c].run = calls[d].run
         /\ calls[c].at \notin {"idle", "leave"} /\ calls[d].at \notin {"idle", "leave"}
         => c = d
    /\ registered \in [Runs -> Calls \cup {NoCall}]
    /\ \A c \in Calls :
         /\ \/ calls[c].at \in Started
            \/ calls[c].at = "mark" /\ calls[c].kind = "enqueue"
            => registered[calls[c].run] = c
         /\ calls[c].at \in {"activate"} \cup Started => status[calls[c].run] # "queued"

LEMMA SingleIs == SingleInv <=> Single(call, active)
  BY DEF SingleInv, Single, At, RunOf

(* drain registers the controller of each task it takes, and no other.      *)
LEMMA DrainSingle ==
    ASSUME NEW q, NEW calls, NEW registered,
           WaitsIn(q, calls), Single(calls, registered),
           \A c \in Calls : calls[c].at # "idle" => calls[c].run \in Runs,
           Drain(q, calls, registered), phase' = phase, status' = status
    PROVE  SingleInv'
  <1> DEFINE n == DrainCount(q, calls)
             Slots(r) == {i \in 1..n : calls[q[i]].run = r}
  <1>1. n \in 0..Len(q) /\ Len(q) \in Nat
    BY DrainFits DEF WaitsIn
  <1>2. active' = [r \in Runs |-> IF Slots(r) = {} THEN registered[r] ELSE q[Max(Slots(r))]]
    BY DEF Drain
  <1>3. call' = [c \in Calls |-> IF \E i \in 1..n : q[i] = c
                                 THEN [calls[c] EXCEPT !.at = "mark"] ELSE calls[c]]
    BY DEF Drain
  <1> HIDE DEF n
  <1>4. ASSUME NEW i \in 1..n
        PROVE  q[i] \in Calls /\ calls[q[i]].at = "queued" /\ i \in 1..Len(q)
    BY <1>1 DEF WaitsIn
  <1>5. ASSUME NEW c \in Calls
        PROVE  /\ call'[c].kind = calls[c].kind /\ call'[c].run = calls[c].run
               /\ call'[c].at = IF \E i \in 1..n : q[i] = c THEN "mark" ELSE calls[c].at
    <2>1. CASE \E i \in 1..n : q[i] = c
      <3>1. call'[c] = [calls[c] EXCEPT !.at = "mark"]
        BY <1>3, <2>1
      <3>2. "mark" \in PC /\ calls[c] \in CallState
        BY DEF PC, WaitsIn
      <3>3. QED
        BY <2>1, <3>1, <3>2, FieldAt
    <2>2. CASE ~ \E i \in 1..n : q[i] = c
      BY <1>3, <2>2
    <2>3. QED
      BY <2>1, <2>2
  <1>6. ASSUME NEW r \in Runs, NEW i \in Slots(r)
        PROVE  active'[r] = q[i]
    <2>1. \A j \in Slots(r) : j = i
      <3> SUFFICES ASSUME NEW j \in Slots(r) PROVE j = i
        OBVIOUS
      <3>1. calls[q[j]].run = calls[q[i]].run /\ i \in 1..n /\ j \in 1..n
        OBVIOUS
      <3>2. q[j] = q[i]
        BY <1>4, <3>1 DEF Single
      <3>3. QED
        BY <1>4, <3>1, <3>2 DEF WaitsIn
    <2>2. Slots(r) = {i}
      BY <2>1
    <2>3. i \in Int
      OBVIOUS
    <2>4. Max({i}) = i
      BY <2>3 DEF Max
    <2>5. QED
      BY <1>2, <2>2, <2>4
  <1>7. ASSUME NEW r \in Runs, \A i \in 1..n : calls[q[i]].run # r
        PROVE  active'[r] = registered[r]
    BY <1>2, <1>7
  <1>8. active' \in [Runs -> Calls \cup {NoCall}]
    <2>1. ASSUME NEW r \in Runs PROVE active'[r] \in Calls \cup {NoCall}
      <3>1. CASE \E i \in 1..n : calls[q[i]].run = r
        <4>1. PICK i \in 1..n : calls[q[i]].run = r
          BY <3>1
        <4>2. i \in Slots(r)
          BY <4>1
        <4>3. QED
          BY <1>4, <1>6, <4>2
      <3>2. CASE \A i \in 1..n : calls[q[i]].run # r
        BY <1>7, <3>2 DEF Single
      <3>3. QED
        BY <3>1, <3>2
    <2>2. active' = [r \in Runs |-> active'[r]]
      <3> DEFINE given(r) == IF Slots(r) = {} THEN registered[r] ELSE q[Max(Slots(r))]
      <3>1. active' = [r \in Runs |-> given(r)]
        BY <1>2
      <3> HIDE DEF given
      <3>2. QED
        BY <3>1
    <2>3. QED
      BY <2>1, <2>2
  <1>9. \A c, d \in Calls :
          RunOf(c)' = RunOf(d)' /\ ~At(c, {"idle", "leave"})' /\ ~At(d, {"idle", "leave"})' => c = d
    <2>1. ASSUME NEW c \in Calls, ~At(c, {"idle", "leave"})'
          PROVE  calls[c].at \notin {"idle", "leave"} /\ RunOf(c)' = calls[c].run
      BY <1>4, <1>5, <2>1 DEF At, RunOf
    <2>2. QED
      BY <2>1 DEF Single
  <1>10. ASSUME NEW c \in Calls,
                At(c, Started)' \/ (At(c, {"mark"})' /\ call'[c].kind = "enqueue")
         PROVE  active'[RunOf(c)'] = c
    <2>1. CASE \E i \in 1..n : q[i] = c
      <3>1. PICK i \in 1..n : q[i] = c
        BY <2>1
      <3>2. RunOf(c)' = calls[c].run /\ calls[c].run \in Runs
        BY <1>4, <1>5, <3>1 DEF RunOf
      <3>3. i \in Slots(calls[c].run)
        BY <3>1
      <3>4. QED
        BY <1>6, <3>1, <3>2, <3>3
    <2>2. CASE ~ \E i \in 1..n : q[i] = c
      <3>1. /\ call'[c].at = calls[c].at /\ call'[c].kind = calls[c].kind
            /\ RunOf(c)' = calls[c].run
        BY <1>5, <2>2 DEF RunOf
      <3>2. /\ registered[calls[c].run] = c
            /\ calls[c].at \notin {"idle", "leave", "queued"}
            /\ calls[c].run \in Runs
        BY <1>10, <3>1 DEF Single, At, Started
      <3>3. \A i \in 1..n : calls[q[i]].run # calls[c].run
        <4> SUFFICES ASSUME NEW i \in 1..n, calls[q[i]].run = calls[c].run PROVE FALSE
          OBVIOUS
        <4>1. q[i] = c
          BY <1>4, <3>2 DEF Single
        <4>2. QED
          BY <2>2, <4>1
      <3>4. QED
        BY <1>7, <3>1, <3>2, <3>3
    <2>3. QED
      BY <2>1, <2>2
  <1>11. ASSUME NEW c \in Calls, At(c, {"activate"} \cup Started)'
         PROVE  status'[RunOf(c)'] # "queued"
    <2>1. calls[c].at \in {"activate"} \cup Started /\ RunOf(c)' = calls[c].run
      BY <1>5, <1>11 DEF At, RunOf, Started
    <2>2. QED
      BY <2>1 DEF Single
  <1>12. QED
    BY <1>8, <1>9, <1>10, <1>11 DEF SingleInv

(* Steps of others, that register nothing and queue no run.                 *)
LEMMA SingleKept ==
    ASSUME FullInv, SingleInv, active' = active,
           \A r \in Runs : status'[r] = "queued" => status[r] = "queued",
           \A c \in Calls :
             \/ call'[c].at = "idle"
             \/ /\ call'[c].kind = call[c].kind /\ call'[c].run = call[c].run
                /\ \/ call'[c].at = call[c].at
                   \/ call[c].at = "queued" /\ call'[c].at = "terminalize"
    PROVE  SingleInv'
  <1>1. \A c \in Calls : ~At(c, {"idle"}) => RunOf(c) \in Runs
    BY DEF FullInv, ExecutorInv, CallsInv
  <1>2. \A c, d \in Calls :
          RunOf(c)' = RunOf(d)' /\ ~At(c, {"idle", "leave"})' /\ ~At(d, {"idle", "leave"})' => c = d
    <2>1. ASSUME NEW c \in Calls, ~At(c, {"idle", "leave"})'
          PROVE  ~At(c, {"idle", "leave"}) /\ RunOf(c)' = RunOf(c)
      BY <2>1 DEF At, RunOf
    <2>2. QED
      BY <2>1 DEF SingleInv
  <1>3. ASSUME NEW c \in Calls,
               At(c, Started)' \/ (At(c, {"mark"})' /\ call'[c].kind = "enqueue")
        PROVE  active'[RunOf(c)'] = c
    <2>1. /\ At(c, Started) \/ (At(c, {"mark"}) /\ call[c].kind = "enqueue")
          /\ RunOf(c)' = RunOf(c)
      BY <1>3 DEF At, RunOf, Started
    <2>2. QED
      BY <2>1 DEF SingleInv
  <1>4. ASSUME NEW c \in Calls, At(c, {"activate"} \cup Started)'
        PROVE  status'[RunOf(c)'] # "queued"
    <2>1. At(c, {"activate"} \cup Started) /\ RunOf(c)' = RunOf(c) /\ RunOf(c) \in Runs
      BY <1>1, <1>4 DEF At, RunOf, Started
    <2>2. QED
      BY <2>1 DEF SingleInv
  <1>5. active' \in [Runs -> Calls \cup {NoCall}]
    BY DEF SingleInv
  <1>6. QED
    BY <1>2, <1>3, <1>4, <1>5 DEF SingleInv

LEMMA DeliverCalls ==
    ASSUME FullInv, NEW r \in Runs, CancelDeliver(r)
    PROVE  \A c \in Calls :
             \/ call[c].at = "queued" /\ call'[c].at = "idle"
             \/ call'[c] = Signalled(call, {active[r]}, "cancelled")[c]
  <1> DEFINE aborted == Signalled(call, {active[r]}, "cancelled")
             I       == {i \in 1..Len(queue) : RunOf(queue[i]) = r}
             waiting == SelectInSeq(queue, LAMBDA c : RunOf(c) = r)
  <1>1. /\ call \in [Calls -> CallState]
        /\ queue \in Seq(Calls)
        /\ \A c \in Calls : call[c].at = "queued" <=> \E i \in 1..Len(queue) : queue[i] = c
    BY DEF FullInv, ExecutorInv, CallsInv, QueueInv, At
  <1>2. aborted \in [Calls -> CallState]
    BY <1>1, SignalKeeps DEF Signals
  <1>3. waiting # 0 => waiting \in 1..Len(queue)
    <2>1. waiting = IF I # {} THEN Min(I) ELSE 0
      BY DEF SelectInSeq
    <2>2. I \subseteq Nat
      OBVIOUS
    <2>3. I # {} => Min(I) \in I
      BY <2>2, Least
    <2>4. QED
      BY <2>1, <2>3
  <1>4. \/ waiting = 0 /\ call' = aborted
        \/ waiting # 0 /\ call' = [aborted EXCEPT ![queue[waiting]] = IdleCall]
    BY DEF CancelDeliver
  <1> HIDE DEF aborted, I, waiting
  <1>5. ASSUME NEW c \in Calls
        PROVE  (call[c].at = "queued" /\ call'[c].at = "idle") \/ call'[c] = aborted[c]
    <2>1. CASE waiting = 0
      BY <1>4, <2>1
    <2>2. CASE waiting # 0
      <3>1. queue[waiting] \in Calls /\ call[queue[waiting]].at = "queued"
        BY <1>1, <1>3, <2>2
      <3>2. call' = [aborted EXCEPT ![queue[waiting]] = IdleCall]
        BY <1>4, <2>2
      <3>3. CASE c = queue[waiting]
        BY <1>2, <3>1, <3>2, <3>3 DEF IdleCall
      <3>4. CASE c # queue[waiting]
        BY <1>2, <3>2, <3>4
      <3>5. QED
        BY <3>3, <3>4
    <2>3. QED
      BY <2>1, <2>2
  <1>6. QED
    BY <1>5 DEF aborted

LEMMA SubmitSingle ==
    ASSUME FullInv, SingleInv, Duplicates = FALSE, NEW c \in Calls, NEW r \in Runs, Submit(c, r)
    PROVE  SingleInv'
  <1> DEFINE kind == IF r \in InlineRuns THEN "execute" ELSE "enqueue"
             next == IF r \in InlineRuns THEN NextOfExecute[status'[r]] ELSE NextOfEnqueue[status'[r]]
             found == IF next = "retry" THEN status[r] ELSE "none"
             new  == [IdleCall EXCEPT !.at = next, !.kind = kind, !.run = r, !.expected = found]
  <1>1. /\ call \in [Calls -> CallState]
        /\ status \in [Runs -> {"none"} \cup Active \cup Finished]
        /\ call[c].at = "idle"
        /\ \A d \in Calls : call[d].run = r => call[d].at = "leave"
        /\ call' = [call EXCEPT ![c] = new] /\ next # "idle"
        /\ active' = active
    BY DEF Submit, FullInv, ExecutorInv, CallsInv, CareInv, At, RunOf
  <1>2. /\ \A q \in Runs \ {r} : status'[q] = status[q]
        /\ status'[r] = IF status[r] \in {"none"} THEN "queued" ELSE status[r]
    BY <1>1, SetsRow DEF Submit, Active
  <1>3. next \in {"limits", "retry", "mark"} /\ (next = "mark" => kind = "execute")
    BY <1>1, <1>2 DEF NextOfEnqueue, NextOfExecute, Active, Finished
  <1> HIDE DEF next, kind, found
  <1>4. new.at = next /\ new.kind = kind /\ new.run = r
    BY DEF IdleCall
  <1> HIDE DEF new
  <1>5. call'[c] = new /\ \A d \in Calls \ {c} : call'[d] = call[d]
    BY <1>1
  <1>6. \A d, e \in Calls :
          RunOf(d)' = RunOf(e)' /\ ~At(d, {"idle", "leave"})' /\ ~At(e, {"idle", "leave"})' => d = e
    <2>1. ASSUME NEW d \in Calls \ {c}, ~At(d, {"idle", "leave"})'
          PROVE  RunOf(d)' # r /\ RunOf(d)' = RunOf(d) /\ ~At(d, {"idle", "leave"})
      BY <1>1, <1>5, <2>1 DEF At, RunOf
    <2>2. RunOf(c)' = r
      BY <1>4, <1>5 DEF RunOf
    <2>3. QED
      BY <2>1, <2>2 DEF SingleInv
  <1>7. ASSUME NEW d \in Calls,
               At(d, Started)' \/ (At(d, {"mark"})' /\ call'[d].kind = "enqueue")
        PROVE  active'[RunOf(d)'] = d
    <2>1. d # c
      BY <1>3, <1>4, <1>5, <1>7 DEF At, Started
    <2>2. QED
      BY <1>1, <1>5, <1>7, <2>1 DEF SingleInv, At, RunOf
  <1>8. ASSUME NEW d \in Calls, At(d, {"activate"} \cup Started)'
        PROVE  status'[RunOf(d)'] # "queued"
    <2>1. d # c
      BY <1>3, <1>4, <1>5, <1>8 DEF At, Started
    <2>2. At(d, {"activate"} \cup Started) /\ RunOf(d)' = RunOf(d)
      BY <1>5, <1>8, <2>1 DEF At, RunOf
    <2>3. RunOf(d) # r
      BY <1>1, <2>2 DEF At, RunOf, Started
    <2>4. RunOf(d) \in Runs
      BY <2>2 DEF FullInv, ExecutorInv, CallsInv, At, Started
    <2>5. QED
      BY <1>2, <2>2, <2>3, <2>4 DEF SingleInv
  <1>9. active' \in [Runs -> Calls \cup {NoCall}]
    BY <1>1 DEF SingleInv
  <1>10. QED
    BY <1>6, <1>7, <1>8, <1>9 DEF SingleInv

LEMMA PushSingle ==
    ASSUME FullInv, SingleInv, NEW c \in Calls, Push(c)
    PROVE  SingleInv'
  <1> DEFINE next  == [call[c] EXCEPT !.at = "queued"]
             calls == [call EXCEPT ![c] = next]
             q     == Append(queue, c)
  <1>1. /\ call \in [Calls -> CallState]
        /\ call[c].at = "push" /\ call[c].run \in Runs
        /\ UNCHANGED <<status, phase>>
        /\ Drain(q, calls, active)
    BY DEF Push, FullInv, ExecutorInv, CallsInv, At, RunOf
  <1>2. WaitsIn(q, calls)
    BY PushWaits
  <1>3. next.at = "queued" /\ next.run = call[c].run
    <2>1. "queued" \in PC
      BY DEF PC
    <2>2. QED
      BY <1>1, <2>1, FieldAt
  <1> HIDE DEF next
  <1>4. calls[c] = next /\ \A d \in Calls \ {c} : calls[d] = call[d]
    BY <1>1
  <1> HIDE DEF calls, q
  <1>5. Single(calls, active)
    BY <1>1, <1>3, <1>4 DEF SingleInv, Single, At, RunOf, Started
  <1>6. \A d \in Calls : calls[d].at # "idle" => calls[d].run \in Runs
    BY <1>1, <1>3, <1>4 DEF FullInv, ExecutorInv, CallsInv, At, RunOf
  <1>7. QED
    BY <1>1, <1>2, <1>5, <1>6, DrainSingle

LEMMA LeaveSingle ==
    ASSUME FullInv, SingleInv, NEW c \in Calls, Leave(c), call[c].kind # "execute"
    PROVE  SingleInv'
  <1> DEFINE calls == [call EXCEPT ![c] = IdleCall]
             registered == Deactivated(c)
  <1>1. /\ call \in [Calls -> CallState]
        /\ call[c].at = "leave"
        /\ UNCHANGED <<status, phase>>
        /\ Drain(queue, calls, registered)
    BY DEF Leave, FullInv, ExecutorInv, CallsInv, At
  <1>2. WaitsIn(queue, calls)
    BY LeaveWaits
  <1>3. IdleCall.at = "idle"
    BY DEF IdleCall
  <1>4. calls[c] = IdleCall /\ \A d \in Calls \ {c} : calls[d] = call[d]
    BY <1>1
  <1>5. /\ registered \in [Runs -> Calls \cup {NoCall}]
        /\ \A r \in Runs, d \in Calls \ {c} : active[r] = d => registered[r] = d
    BY DEF Deactivated, SingleInv
  <1> HIDE DEF calls, registered
  <1>6. \A d \in Calls : call[d].at # "idle" => call[d].run \in Runs
    BY DEF FullInv, ExecutorInv, CallsInv, At, RunOf
  <1>7. Single(calls, registered)
    <2>1. ASSUME NEW d \in Calls
          PROVE  /\ \/ calls[d].at \in Started
                    \/ calls[d].at = "mark" /\ calls[d].kind = "enqueue"
                    => registered[calls[d].run] = d
                 /\ calls[d].at \in {"activate"} \cup Started => status[calls[d].run] # "queued"
      <3>1. CASE d = c
        BY <1>3, <1>4, <3>1 DEF Started
      <3>2. CASE d # c
        BY <1>4, <1>5, <1>6, <3>2 DEF SingleInv, At, RunOf, Started
      <3>3. QED
        BY <3>1, <3>2
    <2>2. \A d, e \in Calls :
            /\ calls[d].run = calls[e].run
            /\ calls[d].at \notin {"idle", "leave"} /\ calls[e].at \notin {"idle", "leave"}
            => d = e
      BY <1>3, <1>4 DEF SingleInv, At, RunOf
    <2>3. QED
      BY <1>5, <2>1, <2>2 DEF Single
  <1>8. \A d \in Calls : calls[d].at # "idle" => calls[d].run \in Runs
    BY <1>3, <1>4, <1>6
  <1>9. QED
    BY <1>1, <1>2, <1>7, <1>8, DrainSingle

LEMMA SingleStep ==
    ASSUME FullInv, SingleInv, Duplicates = FALSE, [Next]_vars
    PROVE  SingleInv'
  <1> DEFINE calls(S) == Signalled(call, S, "closed")
  <1>1. /\ call \in [Calls -> CallState]
        /\ status \in [Runs -> {"none"} \cup Active \cup Finished]
    BY DEF FullInv, ExecutorInv, CallsInv, CareInv
  <1>2. CASE \E c \in Calls, r \in Runs : Submit(c, r)
    BY <1>2, SubmitSingle
  <1>3. ASSUME NEW c \in Calls, Admission(c) \/ Execution(c) \/ DeadlineTimer(c) PROVE SingleInv'
    BY <1>3, PushSingle, LeaveSingle, TurnKeepsSingle DEF Admission, Execution, CallMoves
  <1>4. ASSUME NEW r \in Runs, CancelRequest(r) \/ CancelWaiting(r) PROVE SingleInv'
    <2>1. active' = active /\ call' = call
      BY <1>4 DEF CancelRequest, CancelWaiting
    <2>2. \A q \in Runs : status'[q] = "queued" => status[q] = "queued"
      BY <1>1, <1>4 DEF CancelRequest, CancelWaiting, Sets
    <2>3. QED
      BY <2>1, <2>2, SingleKept
  <1>5. ASSUME NEW r \in Runs, CancelDeliver(r) PROVE SingleInv'
    <2>1. UNCHANGED <<active, status>>
      BY <1>5 DEF CancelDeliver
    <2>2. ASSUME NEW c \in Calls
          PROVE  \/ call'[c].at = "idle"
                 \/ /\ call'[c].kind = call[c].kind /\ call'[c].run = call[c].run
                    /\ call'[c].at = call[c].at
      <3> DEFINE told == Signalled(call, {active[r]}, "cancelled")
      <3>1. told[c].kind = call[c].kind /\ told[c].run = call[c].run /\ told[c].at = call[c].at
        BY <1>1, SignalKeeps DEF Signals
      <3>2. call'[c].at = "idle" \/ call'[c] = told[c]
        BY <1>5, DeliverCalls
      <3> HIDE DEF told
      <3>3. QED
        BY <3>1, <3>2
    <2>3. QED
      BY <2>1, <2>2, SingleKept
  <1>6. CASE BeginClose
    <2>1. UNCHANGED <<active, status>> /\ call' = calls(Registered)
      BY <1>6 DEF BeginClose
    <2>2. \A c \in Calls : /\ call'[c].kind = call[c].kind /\ call'[c].run = call[c].run
                           /\ call'[c].at = call[c].at
      BY <1>1, <2>1, SignalKeeps DEF Signals
    <2>3. QED
      BY <2>1, <2>2, SingleKept
  <1>7. CASE SpliceQueue
    <2>1. /\ UNCHANGED <<active, status>>
          /\ call' = [c \in Calls |-> IF call[c].at = "queued"
                                      THEN [call[c] EXCEPT !.at = "terminalize"]
                                      ELSE calls(Registered)[c]]
      BY <1>7 DEF SpliceQueue, At
    <2>2. \A c \in Calls : LET told == calls(Registered)[c]
                           IN  told.kind = call[c].kind /\ told.run = call[c].run /\ told.at = call[c].at
      BY <1>1, SignalKeeps DEF Signals
    <2> HIDE DEF calls
    <2>3. ASSUME NEW c \in Calls
          PROVE  /\ call'[c].kind = call[c].kind /\ call'[c].run = call[c].run
                 /\ \/ call'[c].at = call[c].at
                    \/ call[c].at = "queued" /\ call'[c].at = "terminalize"
      <3>1. CASE call[c].at = "queued"
        <4>1. call'[c] = [call[c] EXCEPT !.at = "terminalize"]
          BY <2>1, <3>1
        <4>2. "terminalize" \in PC
          BY DEF PC
        <4>3. QED
          BY <1>1, <3>1, <4>1, <4>2, FieldAt
      <3>2. CASE call[c].at # "queued"
        BY <2>1, <2>2, <3>2
      <3>3. QED
        BY <3>1, <3>2
    <2>4. QED
      BY <2>1, <2>3, SingleKept
  <1>8. CASE EndClose \/ UNCHANGED vars
    <2>1. UNCHANGED <<active, status, call>>
      BY <1>8 DEF EndClose, vars
    <2>2. QED
      BY <2>1, SingleKept
  <1>9. CASE Restart
    <2>1. \A c \in Calls : call'[c].at = "idle"
      BY <1>9 DEF Restart, IdleCall
    <2>2. active' \in [Runs -> Calls \cup {NoCall}]
      BY <1>9 DEF Restart
    <2>3. QED
      BY <2>1, <2>2 DEF SingleInv, At, Started
  <1>10. QED
    BY <1>2, <1>3, <1>4, <1>5, <1>6, <1>7, <1>8, <1>9 DEF Next, Cancelling, Closing

LEMMA InitSingle == Init => SingleInv /\ ResultInv
  <1> SUFFICES ASSUME Init PROVE SingleInv /\ ResultInv
    OBVIOUS
  <1>1. \A c \in Calls : call[c].at = "idle"
    BY DEF Init, IdleCall
  <1>2. SingleInv
    BY <1>1 DEF Init, SingleInv, At, Started
  <1>3. ResultInv
    BY DEF Init, ResultInv
  <1>4. QED
    BY <1>2, <1>3

-----------------------------------------------------------------------------
(* The rows, step by step                                                  *)

LEMMA OneRow ==
    ASSUME ResultInv, NEW r \in Runs, stored' = stored,
           \A q \in Runs \ {r} : status'[q] = status[q],
           \/ status'[r] = status[r]
           \/ status[r] \in {"none", "failed", "cancelled"} /\ status'[r] = "queued"
           \/ status[r] = "queued" /\ status'[r] = "running"
           \/ status[r] \in Open /\ status'[r] = "cancel_requested"
           \/ status[r] \in Active /\ status'[r] \in {"cancelled", "failed"}
    PROVE  ResultInv' /\ Lifecycle!Next
  <1>1. ResultInv'
    BY DEF ResultInv, Open, Active
  <1>2. ASSUME NEW q \in Runs PROVE Lifecycle!Step(q) \/ Lifecycle!Stays(q)
    <2>1. CASE status'[q] = status[q]
      BY <2>1 DEF Lifecycle!Stays, Lifecycle!Keeps
    <2>2. CASE q = r /\ status[r] \in {"none", "failed", "cancelled"} /\ status'[r] = "queued"
      BY <2>2 DEF Lifecycle!Step, Lifecycle!Submit, Lifecycle!Goes, Lifecycle!Keeps
    <2>3. CASE q = r /\ status[r] = "queued" /\ status'[r] = "running"
      BY <2>3 DEF Lifecycle!Step, Lifecycle!Start, Lifecycle!Goes, Lifecycle!Keeps
    <2>4. CASE q = r /\ status[r] \in Open /\ status'[r] = "cancel_requested"
      BY <2>4 DEF Lifecycle!Step, Lifecycle!RequestCancel, Lifecycle!Goes, Lifecycle!Keeps, Open
    <2>5. CASE q = r /\ status[r] \in Active /\ status'[r] = "cancelled"
      BY <2>5 DEF Lifecycle!Step, Lifecycle!Cancel, Lifecycle!Goes, Lifecycle!Keeps, Active
    <2>6. CASE q = r /\ status[r] \in Active /\ status'[r] = "failed"
      BY <2>6 DEF Lifecycle!Step, Lifecycle!Fail, Lifecycle!Goes, Lifecycle!Keeps, Active
    <2>7. QED
      BY <2>1, <2>2, <2>3, <2>4, <2>5, <2>6
  <1>3. QED
    BY <1>1, <1>2 DEF Lifecycle!Next

LEMMA CallRow ==
    ASSUME FullInv, SingleInv, ResultInv, NEW c \in Calls, CallMoves(c)
    PROVE  ResultInv' /\ (Lifecycle!Next \/ UNCHANGED <<status, stored>>)
  <1> DEFINE r == RunOf(c)
  <1>1. /\ status \in [Runs -> {"none"} \cup Active \cup Finished]
        /\ call \in [Calls -> CallState]
        /\ r \in Runs
        /\ At(c, {"retry"}) => call[c].expected \in {"failed", "cancelled"}
        /\ At(c, {"store"}) => status[r] # "queued"
    <2>1. call \in [Calls -> CallState]
      BY DEF FullInv, ExecutorInv, CallsInv
    <2>2. call[c].expected \in {"none", "failed", "cancelled"}
      BY <2>1 DEF CallState
    <2>3. ~At(c, {"idle"})
      BY CallTurns DEF Turn, At
    <2>4. QED
      BY <2>1, <2>2, <2>3 DEF FullInv, ExecutorInv, CallsInv, CareInv, SingleInv, At, Started
  <1>2. CASE UNCHANGED <<status, stored>>
    BY <1>2 DEF ResultInv
  <1>3. CASE Retry(c) /\ status[r] = call[c].expected
    <2>1. status' = [status EXCEPT ![r] = "queued"] \/ UNCHANGED status
      BY <1>3 DEF Retry
    <2>2. stored' = stored /\ At(c, {"retry"})
      BY <1>3 DEF Retry
    <2>3. /\ \A q \in Runs \ {r} : status'[q] = status[q]
          /\ status'[r] = "queued" \/ status'[r] = status[r]
      BY <1>1, <2>1
    <2>4. QED
      BY <1>1, <1>3, <2>2, <2>3, OneRow
  <1>4. CASE Reject(c) \/ CancelRow(c) \/ FailRow(c)
    <2>1. PICK to \in {"failed", "cancelled"} : Sets(r, Active, to) /\ stored' = stored
      BY <1>4 DEF Reject, CancelRow, FailRow
    <2>2. /\ \A q \in Runs \ {r} : status'[q] = status[q]
          /\ status'[r] = IF status[r] \in Active THEN to ELSE status[r]
      BY <1>1, <2>1, SetsRow DEF Finished
    <2>3. QED
      BY <1>1, <2>1, <2>2, OneRow
  <1>5. CASE MarkRunning(c) /\ status[r] = "queued"
    <2>1. status' = [status EXCEPT ![r] = "running"] /\ stored' = stored
      BY <1>5 DEF MarkRunning
    <2>2. status'[r] = "running" /\ \A q \in Runs \ {r} : status'[q] = status[q]
      BY <1>1, <2>1
    <2>3. QED
      BY <1>1, <1>5, <2>1, <2>2, OneRow
  <1>6. CASE Complete(c) /\ status[r] \in Open
    <2>1. /\ status' = [status EXCEPT ![r] = "completed"]
          /\ stored' = [stored EXCEPT ![r] = c]
          /\ status[r] = "running"
      BY <1>1, <1>6 DEF Complete, Storable, Open
    <2>2. /\ status'[r] = "completed" /\ stored'[r] = c
          /\ \A q \in Runs \ {r} : status'[q] = status[q] /\ stored'[q] = stored[q]
          /\ stored' \in [Runs -> Calls \cup {NoCall}]
          /\ stored[r] = NoCall
      BY <1>1, <2>1 DEF ResultInv
    <2>3. ResultInv'
      BY <2>2 DEF ResultInv
    <2>4. Lifecycle!Step(r)
      BY <2>1, <2>2 DEF Lifecycle!Step, Lifecycle!Complete, Lifecycle!Goes
    <2>5. \A q \in Runs \ {r} : Lifecycle!Stays(q)
      BY <2>2 DEF Lifecycle!Stays, Lifecycle!Keeps
    <2>6. QED
      BY <2>3, <2>4, <2>5 DEF Lifecycle!Next
  <1>7. QED
    BY <1>2, <1>3, <1>4, <1>5, <1>6
       DEF CallMoves, Retry, Reread, CountActive, MarkRunning, Skip, Activate, Check, TaskEnds,
           Complete, Storable, Unstored, Catch, Terminalize, Leave, DeadlineTimer

LEMMA RowStep ==
    ASSUME FullInv, SingleInv, ResultInv, [Next]_vars
    PROVE  ResultInv' /\ (Lifecycle!Next \/ UNCHANGED <<status, stored>>)
  <1>1. status \in [Runs -> {"none"} \cup Active \cup Finished]
    BY DEF FullInv, CareInv
  <1>2. ASSUME UNCHANGED <<status, stored>>
        PROVE  ResultInv' /\ (Lifecycle!Next \/ UNCHANGED <<status, stored>>)
    BY <1>2 DEF ResultInv
  <1>3. ASSUME NEW c \in Calls, NEW r \in Runs, Submit(c, r) PROVE ResultInv' /\ Lifecycle!Next
    <2>1. /\ \A q \in Runs \ {r} : status'[q] = status[q]
          /\ status'[r] = IF status[r] \in {"none"} THEN "queued" ELSE status[r]
      BY <1>1, <1>3, SetsRow DEF Submit, Active
    <2>2. stored' = stored
      BY <1>3 DEF Submit
    <2>3. QED
      BY <2>1, <2>2, OneRow
  <1>4. ASSUME NEW c \in Calls, Admission(c) \/ Execution(c) \/ DeadlineTimer(c)
        PROVE  ResultInv' /\ (Lifecycle!Next \/ UNCHANGED <<status, stored>>)
    <2>1. CASE Push(c) \/ Leave(c)
      BY <1>2, <2>1 DEF Push, Leave
    <2>2. CASE ~(Push(c) \/ Leave(c))
      BY <1>4, <2>2, CallRow DEF Admission, Execution, CallMoves
    <2>3. QED
      BY <2>1, <2>2
  <1>5. ASSUME NEW r \in Runs, CancelRequest(r) PROVE ResultInv' /\ Lifecycle!Next
    <2>1. /\ status' = [status EXCEPT ![r] = "cancel_requested"]
          /\ status[r] \in Open /\ stored' = stored
      BY <1>5 DEF CancelRequest
    <2>2. status'[r] = "cancel_requested" /\ \A q \in Runs \ {r} : status'[q] = status[q]
      BY <1>1, <2>1
    <2>3. QED
      BY <2>1, <2>2, OneRow
  <1>6. ASSUME NEW r \in Runs, CancelWaiting(r) PROVE ResultInv' /\ Lifecycle!Next
    <2>1. Sets(r, Active, "cancelled") /\ stored' = stored
      BY <1>6 DEF CancelWaiting
    <2>2. /\ \A q \in Runs \ {r} : status'[q] = status[q]
          /\ status'[r] = IF status[r] \in Active THEN "cancelled" ELSE status[r]
      BY <1>1, <2>1, SetsRow DEF Finished
    <2>3. QED
      BY <2>1, <2>2, OneRow
  <1>7. CASE Restart
    <2>1. /\ stored' = stored
          /\ \A r \in Runs : status'[r] = IF status[r] \in Active THEN "failed" ELSE status[r]
      BY <1>7 DEF Restart
    <2>2. ResultInv'
      BY <2>1 DEF ResultInv, Active
    <2>3. ASSUME NEW r \in Runs PROVE Lifecycle!Step(r) \/ Lifecycle!Stays(r)
      <3>1. CASE status[r] \in Active
        BY <2>1, <3>1 DEF Lifecycle!Step, Lifecycle!Fail, Lifecycle!Goes, Lifecycle!Keeps, Active
      <3>2. CASE status[r] \notin Active
        BY <2>1, <3>2 DEF Lifecycle!Stays, Lifecycle!Keeps
      <3>3. QED
        BY <3>1, <3>2
    <2>4. QED
      BY <2>2, <2>3 DEF Lifecycle!Next
  <1>8. CASE (\E r \in Runs : CancelDeliver(r)) \/ BeginClose \/ Closing \/ UNCHANGED vars
    <2>1. UNCHANGED <<status, stored>>
      BY <1>8 DEF CancelDeliver, BeginClose, Closing, SpliceQueue, EndClose, vars
    <2>2. QED
      BY <1>2, <2>1
  <1>9. QED
    BY <1>3, <1>4, <1>5, <1>6, <1>7, <1>8 DEF Next, Cancelling

(* With one request at a time for a run, the in-process executor moves the  *)
(* rows as RunLifecycle allows: a run whose cancellation was requested is   *)
(* never completed, a completed one keeps its result, none goes back.       *)
THEOREM ExecutorImplements ==
    ASSUME Duplicates = FALSE
    PROVE  Spec => ImplementsLifecycle
  <1> DEFINE I == FullInv /\ SingleInv /\ ResultInv
  <1>1. Init => I
    BY InitInv, InitSingle
  <1>2. I /\ [Next]_vars => I' /\ [Lifecycle!Next]_(Lifecycle!vars)
    <2> SUFFICES ASSUME I, [Next]_vars PROVE I' /\ [Lifecycle!Next]_(Lifecycle!vars)
      OBVIOUS
    <2>1. FullInv' /\ SingleInv' /\ ResultInv'
      BY StepInv, SingleStep, RowStep
    <2>2. Lifecycle!Next \/ UNCHANGED <<status, stored>>
      BY RowStep
    <2>3. QED
      BY <2>1, <2>2 DEF Lifecycle!vars
  <1>3. Init => Lifecycle!Init
    BY DEF Init, Lifecycle!Init
  <1> HIDE DEF I
  <1>4. QED
    BY <1>1, <1>2, <1>3, PTL DEF Spec, ImplementsLifecycle, Lifecycle!Spec

(* And when cancel delivers its abort, the execution of the run has its     *)
(* controller registered: the signal reaches it.                            *)
THEOREM AbortReaches ==
    ASSUME Duplicates = FALSE
    PROVE  Spec => AbortDelivered
  <1> DEFINE I == FullInv /\ SingleInv
             Delivered == \A c \in Calls :
                 /\ At(c, Started) /\ canceller[RunOf(c)] = "deliver"
                 /\ call'[c].at # "idle" /\ canceller'[RunOf(c)] # "deliver"
                 => call'[c].signal # "none"
  <1>1. Init => I
    BY InitInv, InitSingle
  <1>2. I /\ [Next]_vars => I'
    BY StepInv, SingleStep
  <1>3. I /\ [Next]_vars => [Delivered]_vars
    <2> SUFFICES ASSUME I, [Next]_vars, NEW c \in Calls,
                        At(c, Started), canceller[RunOf(c)] = "deliver",
                        call'[c].at # "idle", canceller'[RunOf(c)] # "deliver"
                 PROVE  call'[c].signal # "none"
      OBVIOUS
    <2>1. /\ call \in [Calls -> CallState]
          /\ RunOf(c) \in Runs /\ active[RunOf(c)] = c
          /\ canceller \in [Runs -> {"none", "deliver", "cancelRow"}]
      BY DEF FullInv, ExecutorInv, CallsInv, CareInv, SingleInv, At, Started
    <2>2. canceller' # canceller
      OBVIOUS
    <2>3. ~Restart
      BY DEF Restart, IdleCall
    <2>4. PICK r \in Runs : CancelRequest(r) \/ CancelDeliver(r) \/ CancelWaiting(r)
      <3>1. \A d \in Calls : CallMoves(d) => canceller' = canceller
        BY CallTurns DEF Turn
      <3>2. QED
        BY <2>2, <2>3, <3>1
           DEF Next, vars, Submit, Admission, Push, Execution, Leave, CallMoves, Cancelling,
               BeginClose, Closing, SpliceQueue, EndClose
    <2>5. CASE r # RunOf(c)
      BY <2>1, <2>4, <2>5 DEF CancelRequest, CancelDeliver, CancelWaiting
    <2>6. CASE r = RunOf(c)
      <3>1. CancelDeliver(r)
        BY <2>4, <2>6 DEF CancelRequest, CancelWaiting
      <3>2. call'[c] = Signalled(call, {active[r]}, "cancelled")[c]
        BY <3>1, DeliverCalls DEF At, Started
      <3> DEFINE next == [call[c] EXCEPT !.signal = "cancelled"]
      <3>3. next.signal = "cancelled"
        BY <2>1, FieldSignal DEF Signals
      <3>4. call[c].signal = "none" => call'[c] = next
        BY <2>1, <2>6, <3>2 DEF Signalled, At, Started
      <3>5. call[c].signal # "none" => call'[c] = call[c]
        BY <2>1, <3>2 DEF Signalled
      <3> HIDE DEF next
      <3>6. QED
        BY <3>3, <3>4, <3>5
    <2>7. QED
      BY <2>5, <2>6
  <1> HIDE DEF I
  <1>4. QED
    BY <1>1, <1>2, <1>3, PTL DEF Spec, AbortDelivered
=============================================================================
