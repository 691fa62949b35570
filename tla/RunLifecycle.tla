---------------------------- MODULE RunLifecycle ----------------------------
(***************************************************************************)
(* What a caller of the run API is promised about one run, whoever         *)
(* executes it: the statuses it may see follow each other as below, a      *)
(* completed run keeps its one result for ever, a run whose cancellation   *)
(* was requested is not completed and not started again behind the         *)
(* caller's back, and no run stays open.                                   *)
(***************************************************************************)
CONSTANTS
    Runs,
    NoResult,
    Results

VARIABLES
    status,   \* what get_run answers
    result    \* the stored output, or NoResult

vars == <<status, result>>

Open == {"queued", "running", "cancel_requested"}
Over == {"completed", "failed", "cancelled"}

Init ==
    /\ status = [r \in Runs |-> "none"]
    /\ result = [r \in Runs |-> NoResult]

Goes(r, from, to) == status[r] \in from /\ status'[r] = to

Keeps(r) == result'[r] = result[r]

(* create, or a retry of a run that failed or was cancelled *)
Submit(r)        == Goes(r, {"none", "failed", "cancelled"}, "queued") /\ Keeps(r)
Start(r)         == Goes(r, {"queued"}, "running") /\ Keeps(r)
Requeue(r)       == Goes(r, {"running"}, "queued") /\ Keeps(r)
RequestCancel(r) == Goes(r, {"queued", "running"}, "cancel_requested") /\ Keeps(r)
Cancel(r)        == Goes(r, {"queued", "running", "cancel_requested"}, "cancelled") /\ Keeps(r)
Fail(r)          == Goes(r, {"queued", "running", "cancel_requested"}, "failed") /\ Keeps(r)
Complete(r) ==
    /\ Goes(r, {"running"}, "completed")
    /\ result[r] = NoResult
    /\ result'[r] \in Results

Step(r) ==
    \/ Submit(r)
    \/ Start(r)
    \/ Requeue(r)
    \/ RequestCancel(r)
    \/ Cancel(r)
    \/ Fail(r)
    \/ Complete(r)

Stays(r) == status'[r] = status[r] /\ Keeps(r)

(* Recovery moves several runs in one transaction. *)
Next == \A r \in Runs : Step(r) \/ Stays(r)

Spec == Init /\ [][Next]_vars
=============================================================================
