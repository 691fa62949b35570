----------------------------- MODULE RunService -----------------------------
(***************************************************************************)
(* RunService with its in-process executor (rust_socket mode, and every    *)
(* orchestration run): enqueue puts a task into a bounded FIFO queue,      *)
(* execute runs it in the caller's request, cancel and close reach it      *)
(* through the AbortController kept per run id.                            *)
(*                                                                         *)
(* Definitions with a word after "_" are wrong on purpose, as in RunStore. *)
(*                                                                         *)
(* The process is one event loop: a step is what runs between two awaits,  *)
(* with the one database statement it waits for.  Calls is the set of      *)
(* enqueue and execute calls that can be under way at once; an identity is *)
(* used again when its call, and the execution it started, is over.        *)
(***************************************************************************)
EXTENDS Integers, FiniteSets, Sequences, SequencesExt

CONSTANTS
    Runs,
    InlineRuns,     \* the runs of the kinds that are executed, not enqueued
    Calls,
    NoRun,
    NoCall,
    MaxConcurrent,  \* maxConcurrentRuns
    Duplicates      \* a request may be repeated before the earlier one has written its end

ASSUME RunServiceAssumption ==
    /\ InlineRuns \subseteq Runs
    /\ NoRun \notin Runs
    /\ NoCall \notin Calls
    /\ MaxConcurrent \in Nat \ {0}
    /\ Duplicates \in BOOLEAN

VARIABLES
    status,    \* portfolio_backtest_runs.status
    stored,    \* the call whose result_json the run holds, or NoCall
    call,      \* where each call stands, and its AbortController
    queue,     \* the calls whose tasks wait for a slot
    active,    \* activeExecutions: the call whose controller is registered
    canceller, \* where cancel of each run stands
    phase      \* accepting, or the progress of performClose

vars == <<status, stored, call, queue, active, canceller, phase>>

Active    == {"queued", "running", "cancel_requested"}
Finished  == {"completed", "failed", "cancelled"}
Open      == {"queued", "running"}

Admitting == {"retry", "reread", "limits", "reject", "push"}
Started   == {"check", "task", "finish", "store"}
PC == {"idle", "queued", "mark", "skip", "activate", "unstored", "catch", "terminalize",
       "cancelRow", "failRow", "leave"} \cup Admitting \cup Started

CallState == [at       : PC,
              kind     : {"enqueue", "execute"},
              run      : Runs \cup {NoRun},
              expected : {"none", "failed", "cancelled"},
              error    : {"none", "cancelled", "closed", "deadline", "other"},
              signal   : {"none", "cancelled", "closed", "deadline"}]

IdleCall == [at |-> "idle", kind |-> "enqueue", run |-> NoRun, expected |-> "none",
             error |-> "none", signal |-> "none"]

TypeOK ==
    /\ status \in [Runs -> {"none"} \cup Active \cup Finished]
    /\ stored \in [Runs -> Calls \cup {NoCall}]
    /\ call \in [Calls -> CallState]
    /\ queue \in Seq(Calls)
    /\ active \in [Runs -> Calls \cup {NoCall}]
    /\ canceller \in [Runs -> {"none", "deliver", "cancelRow"}]
    /\ phase \in {"accepting", "closing", "draining", "closed"}

Init ==
    /\ status = [r \in Runs |-> "none"]
    /\ stored = [r \in Runs |-> NoCall]
    /\ call = [c \in Calls |-> IdleCall]
    /\ queue = <<>>
    /\ active = [r \in Runs |-> NoCall]
    /\ canceller = [r \in Runs |-> "none"]
    /\ phase = "accepting"

-----------------------------------------------------------------------------
(* Rows, and the steps of a call. *)

At(c, pcs) == call[c].at \in pcs
RunOf(c)   == call[c].run
Goes(c, pc) == call' = [call EXCEPT ![c].at = pc]
Fails(c, error) == call' = [call EXCEPT ![c].at = "catch", ![c].error = error]
Ends(c) == call' = [call EXCEPT ![c] = IdleCall]

(* The controller is not read again, nor the error that was caught. *)
Settles(c, pc) ==
    call' = [call EXCEPT ![c].at = pc, ![c].error = "none", ![c].signal = "none"]

(* UPDATE ... SET status = to WHERE status IN from *)
Sets(r, from, to) == status' = [status EXCEPT ![r] = IF @ \in from THEN to ELSE @]

InAdmission(c) == call[c].kind = "enqueue" /\ At(c, Admitting)

(* executionTasks and, once spliced, the terminalizations of close *)
InExecution(c) == ~At(c, {"idle", "queued"}) /\ ~InAdmission(c)

Occupied(calls) ==
    {c \in Calls : calls[c].kind = "enqueue" /\ calls[c].at \notin Admitting \cup {"idle", "queued"}}

Lower(m, n) == IF m < n THEN m ELSE n

DrainCount(q, calls) ==
    IF phase # "accepting" THEN 0
    ELSE Lower(Len(q), MaxConcurrent - Cardinality(Occupied(calls)))

(* drain: the tasks at the head of q take the free slots, in order; each   *)
(* registers its controller before its first await.                        *)
Drain(q, calls, registered) ==
    LET n == DrainCount(q, calls)
        Slots(r) == {i \in 1..n : calls[q[i]].run = r}
    IN  /\ queue' = SubSeq(q, n + 1, Len(q))
        /\ call' = [c \in Calls |-> IF \E i \in 1..n : q[i] = c
                                    THEN [calls[c] EXCEPT !.at = "mark"] ELSE calls[c]]
        /\ active' = [r \in Runs |-> IF Slots(r) = {} THEN registered[r] ELSE q[Max(Slots(r))]]

-----------------------------------------------------------------------------
(* Admission: create, retryTerminal, the limits, and the push.             *)

NextOfEnqueue == [s \in Active \cup Finished |->
    CASE s = "queued"                  -> "limits"
      [] s \in {"failed", "cancelled"} -> "retry"
      [] OTHER                         -> "idle"]

NextOfExecute == [s \in Active \cup Finished |->
    CASE s = "completed"               -> "idle"
      [] s \in {"failed", "cancelled"} -> "retry"
      [] OTHER                         -> "mark"]

Submit(c, r) ==
    /\ phase = "accepting"
    /\ At(c, {"idle"})
    /\ Duplicates \/ \A d \in Calls : RunOf(d) = r => At(d, {"leave"})
    /\ Sets(r, {"none"}, "queued")
    /\ LET kind == IF r \in InlineRuns THEN "execute" ELSE "enqueue"
           next == IF r \in InlineRuns THEN NextOfExecute[status'[r]]
                                       ELSE NextOfEnqueue[status'[r]]
       IN  /\ next # "idle"
           /\ call' = [call EXCEPT ![c] = [IdleCall EXCEPT
                 !.at = next, !.kind = kind, !.run = r,
                 !.expected = IF next = "retry" THEN status[r] ELSE "none"]]
    /\ UNCHANGED <<stored, queue, active, canceller, phase>>

Retry(c) ==
    /\ At(c, {"retry"})
    /\ \/ /\ status[RunOf(c)] = call[c].expected
          /\ status' = [status EXCEPT ![RunOf(c)] = "queued"]
          /\ call' = [call EXCEPT ![c].at = "reread", ![c].expected = "none"]
       \/ /\ status[RunOf(c)] # call[c].expected
          /\ Ends(c)
          /\ UNCHANGED status
    /\ UNCHANGED <<stored, queue, active, canceller, phase>>

Reread(c) ==
    /\ At(c, {"reread"})
    /\ \/ call[c].kind = "execute" /\ Goes(c, "mark")
       \/ /\ call[c].kind = "enqueue"
          /\ IF status[RunOf(c)] = "queued" THEN Goes(c, "limits") ELSE Ends(c)
    /\ UNCHANGED <<status, stored, queue, active, canceller, phase>>

(* activeCount: the runs of others count too, so either answer is possible. *)
CountActive(c) ==
    /\ At(c, {"limits"})
    /\ Goes(c, "reject") \/ Goes(c, "push")
    /\ UNCHANGED <<status, stored, queue, active, canceller, phase>>

Reject(c) ==
    /\ At(c, {"reject"})
    /\ Sets(RunOf(c), Active, "failed")
    /\ Ends(c)
    /\ UNCHANGED <<stored, queue, active, canceller, phase>>

Push(c) ==
    /\ At(c, {"push"})
    /\ Drain(Append(queue, c), [call EXCEPT ![c].at = "queued"], active)
    /\ UNCHANGED <<status, stored, canceller, phase>>

-----------------------------------------------------------------------------
(* Execution: runQueued, and the second half of executeAccepted.           *)

(* An execute that finds the run active throws; nothing was registered. *)
MarkRunning(c) ==
    /\ At(c, {"mark"})
    /\ \/ /\ status[RunOf(c)] = "queued"
          /\ status' = [status EXCEPT ![RunOf(c)] = "running"]
          /\ Goes(c, IF call[c].kind = "execute" THEN "activate" ELSE "check")
       \/ /\ status[RunOf(c)] # "queued"
          /\ IF call[c].kind = "execute" THEN Ends(c) ELSE Goes(c, "skip")
          /\ UNCHANGED status
    /\ UNCHANGED <<stored, queue, active, canceller, phase>>

Skip(c) ==
    /\ At(c, {"skip"})
    /\ Settles(c, IF status[RunOf(c)] = "cancel_requested" THEN "cancelRow" ELSE "leave")
    /\ UNCHANGED <<status, stored, queue, active, canceller, phase>>

ShutdownSignal == IF phase = "accepting" THEN "none" ELSE "closed"

Activate(c) ==
    /\ At(c, {"activate"})
    /\ active' = [active EXCEPT ![RunOf(c)] = c]
    /\ call' = [call EXCEPT ![c].at = "check", ![c].signal = ShutdownSignal]
    /\ UNCHANGED <<status, stored, queue, canceller, phase>>

(* throwIfCancelled, before the task and before complete *)
Check(c) ==
    /\ At(c, {"check", "finish"})
    /\ \/ /\ call[c].signal # "none"
          /\ Fails(c, call[c].signal)
       \/ /\ call[c].signal = "none"
          /\ status[RunOf(c)] = "cancel_requested"
          /\ call' = [call EXCEPT ![c].at = "catch", ![c].error = "cancelled",
                                  ![c].signal = "cancelled"]
       \/ /\ call[c].signal = "none"
          /\ status[RunOf(c)] # "cancel_requested"
          /\ Goes(c, IF At(c, {"check"}) THEN "task" ELSE "store")
    /\ UNCHANGED <<status, stored, queue, active, canceller, phase>>

(* The task and its artifacts: done, failed, or stopped by the signal. *)
TaskEnds(c) ==
    /\ At(c, {"task"})
    /\ \/ Goes(c, "finish")
       \/ Fails(c, "other")
       \/ call[c].signal # "none" /\ Fails(c, call[c].signal)
    /\ UNCHANGED <<status, stored, queue, active, canceller, phase>>

(* The timer of the controller fires; execute sets it after markRunning. *)
DeadlineTimer(c) ==
    /\ At(c, {"mark", "unstored", "catch"} \cup Started)
    /\ call[c].kind = "enqueue" \/ ~At(c, {"mark"})
    /\ call[c].signal = "none"
    /\ call' = [call EXCEPT ![c].signal = "deadline"]
    /\ UNCHANGED <<status, stored, queue, active, canceller, phase>>

Storable_AnyActive == Active

Storable == Open

Complete(c) ==
    /\ At(c, {"store"})
    /\ \/ /\ status[RunOf(c)] \in Storable
          /\ status' = [status EXCEPT ![RunOf(c)] = "completed"]
          /\ stored' = [stored EXCEPT ![RunOf(c)] = c]
          /\ Settles(c, "leave")
       \/ /\ status[RunOf(c)] \notin Storable
          /\ Goes(c, "unstored")
          /\ UNCHANGED <<status, stored>>
    /\ UNCHANGED <<queue, active, canceller, phase>>

Unstored(c) ==
    /\ At(c, {"unstored"})
    /\ IF status[RunOf(c)] = "cancel_requested" THEN Fails(c, "cancelled") ELSE Settles(c, "leave")
    /\ UNCHANGED <<status, stored, queue, active, canceller, phase>>

AdmissionSettled_AllTasks ==
    /\ \A c \in Calls : ~InAdmission(c) /\ ~InExecution(c)
    /\ \A r \in Runs : canceller[r] = "none"

(* waitForTasks(admissionTasks) has nothing left to wait for. *)
AdmissionSettled ==
    /\ \A c \in Calls : ~InAdmission(c)
    /\ \A r \in Runs : canceller[r] = "none"

(* The catch clause: which terminal status the run is given. *)
Catch(c) ==
    LET cancelled == "cancelled" \in {call[c].error, call[c].signal}
        closed    == "closed" \in {call[c].error, call[c].signal}
    IN  /\ At(c, {"catch"})
        /\ \/ /\ cancelled \/ status[RunOf(c)] = "cancel_requested"
              /\ Settles(c, "cancelRow")
           \/ /\ ~cancelled /\ status[RunOf(c)] # "cancel_requested"
              /\ closed => AdmissionSettled
              /\ Settles(c, "failRow")
        /\ UNCHANGED <<status, stored, queue, active, canceller, phase>>

CancelRow(c) ==
    /\ At(c, {"cancelRow"})
    /\ Sets(RunOf(c), Active, "cancelled")
    /\ Goes(c, "leave")
    /\ UNCHANGED <<stored, queue, active, canceller, phase>>

FailRow(c) ==
    /\ At(c, {"failRow"})
    /\ Sets(RunOf(c), Active, "failed")
    /\ Goes(c, "leave")
    /\ UNCHANGED <<stored, queue, active, canceller, phase>>

(* deactivateContext: only the controller that is still registered goes. *)
Deactivated_AnyController(c) == [active EXCEPT ![RunOf(c)] = NoCall]

Deactivated(c) == [active EXCEPT ![RunOf(c)] = IF @ = c THEN NoCall ELSE @]

Leave_SlotKept(c) ==
    /\ At(c, {"leave"})
    /\ active' = Deactivated(c)
    /\ Ends(c)
    /\ UNCHANGED <<status, stored, queue, canceller, phase>>

(* finally: the slot is free, and drain hands it on. *)
Leave(c) ==
    /\ At(c, {"leave"})
    /\ IF call[c].kind = "execute"
       THEN /\ active' = Deactivated(c)
            /\ Ends(c)
            /\ UNCHANGED queue
       ELSE Drain(queue, [call EXCEPT ![c] = IdleCall], Deactivated(c))
    /\ UNCHANGED <<status, stored, canceller, phase>>

-----------------------------------------------------------------------------
(* cancel *)

CancelRequest(r) ==
    /\ phase = "accepting"
    /\ canceller[r] = "none"
    /\ status[r] \in Open
    /\ status' = [status EXCEPT ![r] = "cancel_requested"]
    /\ canceller' = [canceller EXCEPT ![r] = "deliver"]
    /\ UNCHANGED <<stored, call, queue, active, phase>>

Signalled(calls, S, reason) ==
    [c \in Calls |-> IF /\ c \in S
                        /\ calls[c].signal = "none"
                        /\ calls[c].at \notin {"cancelRow", "failRow", "leave"}
                     THEN [calls[c] EXCEPT !.signal = reason] ELSE calls[c]]

(* Abort the registered controller, take the task out of the queue. *)
CancelDeliver(r) ==
    LET aborted == Signalled(call, {active[r]}, "cancelled")
        waiting == SelectInSeq(queue, LAMBDA c : RunOf(c) = r)
    IN  /\ canceller[r] = "deliver"
        /\ IF waiting = 0
           THEN /\ call' = aborted
                /\ canceller' = [canceller EXCEPT ![r] = "none"]
                /\ UNCHANGED queue
           ELSE /\ call' = [aborted EXCEPT ![queue[waiting]] = IdleCall]
                /\ canceller' = [canceller EXCEPT ![r] = "cancelRow"]
                /\ queue' = RemoveAt(queue, waiting)
        /\ UNCHANGED <<status, stored, active, phase>>

CancelWaiting(r) ==
    /\ canceller[r] = "cancelRow"
    /\ Sets(r, Active, "cancelled")
    /\ canceller' = [canceller EXCEPT ![r] = "none"]
    /\ UNCHANGED <<stored, call, queue, active, phase>>

-----------------------------------------------------------------------------
(* close, and the next start of the process                                *)

Registered == {active[r] : r \in Runs} \ {NoCall}

BeginClose ==
    /\ phase = "accepting"
    /\ phase' = "closing"
    /\ call' = Signalled(call, Registered, "closed")
    /\ UNCHANGED <<status, stored, queue, active, canceller>>

SpliceQueue_EarlyClose ==
    /\ phase = "closing"
    /\ phase' = "draining"
    /\ call' = [c \in Calls |-> IF At(c, {"queued"})
                                THEN [call[c] EXCEPT !.at = "terminalize"]
                                ELSE Signalled(call, Registered, "closed")[c]]
    /\ queue' = <<>>
    /\ UNCHANGED <<status, stored, active, canceller>>

(* Admission is over: what was pushed meanwhile is terminalized as well. *)
SpliceQueue ==
    /\ phase = "closing"
    /\ AdmissionSettled
    /\ phase' = "draining"
    /\ call' = [c \in Calls |-> IF At(c, {"queued"})
                                THEN [call[c] EXCEPT !.at = "terminalize"]
                                ELSE Signalled(call, Registered, "closed")[c]]
    /\ queue' = <<>>
    /\ UNCHANGED <<status, stored, active, canceller>>

(* terminalizeQueuedRun *)
Terminalize(c) ==
    /\ At(c, {"terminalize"})
    /\ Goes(c, IF status[RunOf(c)] = "cancel_requested" THEN "cancelRow" ELSE "failRow")
    /\ UNCHANGED <<status, stored, queue, active, canceller, phase>>

EndClose ==
    /\ phase = "draining"
    /\ \A c \in Calls : ~InExecution(c)
    /\ phase' = "closed"
    /\ UNCHANGED <<status, stored, call, queue, active, canceller>>

(* A crash, or the exit after close; initialize fails the open runs. *)
Restart ==
    /\ status' = [r \in Runs |-> IF status[r] \in Active THEN "failed" ELSE status[r]]
    /\ call' = [c \in Calls |-> IdleCall]
    /\ queue' = <<>>
    /\ active' = [r \in Runs |-> NoCall]
    /\ canceller' = [r \in Runs |-> "none"]
    /\ phase' = "accepting"
    /\ UNCHANGED stored

-----------------------------------------------------------------------------
Admission(c) == Retry(c) \/ Reread(c) \/ CountActive(c) \/ Reject(c) \/ Push(c)

Execution(c) ==
    \/ MarkRunning(c)
    \/ Skip(c)
    \/ Activate(c)
    \/ Check(c)
    \/ TaskEnds(c)
    \/ Complete(c)
    \/ Unstored(c)
    \/ Catch(c)
    \/ CancelRow(c)
    \/ FailRow(c)
    \/ Leave(c)
    \/ Terminalize(c)

Cancelling(r) == CancelDeliver(r) \/ CancelWaiting(r)

Closing == SpliceQueue \/ EndClose

Next ==
    \/ \E c \in Calls, r \in Runs : Submit(c, r)
    \/ \E c \in Calls : Admission(c) \/ Execution(c) \/ DeadlineTimer(c)
    \/ \E r \in Runs : CancelRequest(r) \/ Cancelling(r)
    \/ BeginClose
    \/ Closing
    \/ Restart

Spec == Init /\ [][Next]_vars

(* The event loop runs every continuation, and a task ends: it answers,    *)
(* throws, or obeys the signal its deadline timer raises at the latest.    *)
Fairness ==
    /\ \A c \in Calls : WF_vars(Admission(c)) /\ WF_vars(Execution(c))
    /\ \A r \in Runs : WF_vars(Cancelling(r))
    /\ WF_vars(Closing)

FairSpec == Spec /\ Fairness

-----------------------------------------------------------------------------
(* Properties *)

(* A task waits in the queue only while every slot is taken: no end of an  *)
(* execution, cancellation or rejection forgets to hand its slot on.       *)
NoIdleSlot ==
    (phase = "accepting" /\ queue # <<>>) => Cardinality(Occupied(call)) = MaxConcurrent

(* close resolves only when nothing is left running or waiting, not even   *)
(* what was still being admitted when it began.                            *)
SettledWhenClosed ==
    phase = "closed" =>
        /\ queue = <<>>
        /\ \A c \in Calls : At(c, {"idle"})
        /\ \A r \in Runs : status[r] \notin Open

(* When cancel of a run delivers its abort, no execution of that run is    *)
(* left with a signal that nobody raised.                                  *)
AbortDelivered ==
    [][\A c \in Calls :
          /\ At(c, Started) /\ canceller[RunOf(c)] = "deliver"
          /\ call'[c].at # "idle" /\ canceller'[RunOf(c)] # "deliver"
          => call'[c].signal # "none"]_vars

(* The rows go through the statuses of RunLifecycle: what the durable      *)
(* queue promises about a run, this executor promises too.                 *)
Lifecycle == INSTANCE RunLifecycle WITH
                 status   <- status,
                 result   <- stored,
                 NoResult <- NoCall,
                 Results  <- Calls

ImplementsLifecycle == Lifecycle!Spec

(* close comes to an end: executions that wait for admission to settle and *)
(* the close that waits for both do not wait for each other.               *)
CloseCompletes == (phase = "closing") ~> (phase \in {"closed", "accepting"})

(* No accepted task is lost: an open run is ended or its cancellation is   *)
(* requested.                                                              *)
OpenRunMoves == \A r \in Runs : status[r] \in Open ~> status[r] \notin Open

(* A run whose cancellation was accepted becomes cancelled (or ends). *)
CancelledRunEnds ==
    \A r \in Runs : status[r] = "cancel_requested" ~> status[r] # "cancel_requested"
=============================================================================
