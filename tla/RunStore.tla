------------------------------ MODULE RunStore ------------------------------
(***************************************************************************)
(* The three PostgreSQL tables through which the web server and the        *)
(* compute workers share a run:                                            *)
(*   portfolio_backtest_runs     run[r]     the status column              *)
(*   portfolio_run_jobs          job[r]     the durable queue entry        *)
(*   portfolio_worker_artifacts  output[r]  the immutable output artifact  *)
(* One operator per repository method.  A method is one SQL transaction    *)
(* that locks the job row and the run row, so it is one step; t is the     *)
(* clock value the caller read before the transaction began.               *)
(*                                                                         *)
(* lease_owner is "<worker id>:<uuid>", fresh at every claim: the number   *)
(* of the claim, counted by claims[r], stands for it.                      *)
(*                                                                         *)
(* Operators whose name ends in a word after "_" are deliberately wrong    *)
(* forms of the definition that follows them.  No action uses them; each   *)
(* shows that some property fails when the code has that bug.              *)
(***************************************************************************)
EXTENDS Integers

CONSTANTS
    Runs,         \* run identities (owner, kind, request hash, data revision)
    LeaseTime,    \* WORKER_LEASE_MS
    RunDeadline,  \* runDeadlineMs: deadline_at - time of enqueue
    MaxAttempts,  \* max_attempts
    RetryDelay    \* retry_delay_ms of a retryable failure

ASSUME RunStoreAssumption ==
    /\ LeaseTime \in Nat \ {0}
    /\ RunDeadline \in Nat \ {0}
    /\ MaxAttempts \in Nat \ {0}
    /\ RetryDelay \in Nat

VARIABLES
    run,      \* portfolio_backtest_runs.status, "none" before the INSERT
    job,      \* portfolio_run_jobs, NoJob before the INSERT
    output,   \* the claim whose output artifact is stored, or NoOutput
    claims    \* how many claims were ever granted on the run

storeVars == <<run, job, output, claims>>

-----------------------------------------------------------------------------

Active    == {"queued", "running", "cancel_requested"}
Finished  == {"completed", "failed", "cancelled"}
Open      == {"queued", "running"}
RunStatus == {"none"} \cup Active \cup Finished

NoOwner   == 0
NoOutput  == 0

JobRow == [state     : {"none"} \cup Open \cup Finished,
           owner     : Nat,    \* lease_owner, NoOwner when NULL
           lease     : Nat,    \* lease_expires_at, 0 when NULL
           available : Nat,    \* available_at
           deadline  : Nat,    \* deadline_at
           attempts  : Nat]    \* attempt_count

NoJob == [state |-> "none", owner |-> NoOwner, lease |-> 0,
          available |-> 0, deadline |-> 0, attempts |-> 0]

StoreInit ==
    /\ run    = [r \in Runs |-> "none"]
    /\ job    = [r \in Runs |-> NoJob]
    /\ output = [r \in Runs |-> NoOutput]
    /\ claims = [r \in Runs |-> 0]

StoreTypeOK ==
    /\ run    \in [Runs -> RunStatus]
    /\ job    \in [Runs -> JobRow]
    /\ output \in [Runs -> Nat]
    /\ claims \in [Runs -> Nat]

-----------------------------------------------------------------------------
(* Row updates shared by the repository methods.                           *)

QueuedJob(t) == [state |-> "queued", owner |-> NoOwner, lease |-> 0,
                 available |-> t, deadline |-> t + RunDeadline, attempts |-> 0]

Released(j, state) == [j EXCEPT !.state = state, !.owner = NoOwner, !.lease = 0]

Claimed(j, owner, t) == [j EXCEPT !.state    = "running",
                                  !.owner    = owner,
                                  !.lease    = t + LeaseTime,
                                  !.attempts = j.attempts + 1]

Requeued_AttemptsReset(j, t) ==
    [Released(j, "queued") EXCEPT !.available = t, !.attempts = 0]

Requeued(j, t) == [Released(j, "queued") EXCEPT !.available = t]

(* UPDATE ... SET state = final WHERE state IN ('queued', 'running') *)
EndedJob(j, final) == IF j.state \in Open THEN Released(j, final) ELSE j

EndedRun_CancelForgotten(s, final) == IF s \in Open THEN final ELSE s

(* UPDATE ... SET status = final
   WHERE status IN ('queued', 'running', 'cancel_requested') *)
EndedRun(s, final) == IF s \in Active THEN final ELSE s

(* transitionCancelled and transitionFailed; cancel_locked and fail_locked. *)
Transition(r, final) ==
    /\ job' = [job EXCEPT ![r] = EndedJob(@, final)]
    /\ run' = [run EXCEPT ![r] = EndedRun(@, final)]

-----------------------------------------------------------------------------
(* RunRepository: the methods that touch the run row only.                 *)

CreateRun(r) ==
    /\ run[r] = "none"
    /\ run' = [run EXCEPT ![r] = "queued"]
    /\ UNCHANGED <<job, output, claims>>

FailRun(r) ==
    /\ run' = [run EXCEPT ![r] = EndedRun(@, "failed")]
    /\ UNCHANGED <<job, output, claims>>

RequestCancellation(r) ==
    /\ run' = [run EXCEPT ![r] = IF @ \in Open THEN "cancel_requested" ELSE @]
    /\ UNCHANGED <<job, output, claims>>

RetryRun(r) ==
    /\ run[r] \in {"failed", "cancelled"}
    /\ run' = [run EXCEPT ![r] = "queued"]
    /\ UNCHANGED <<job, output, claims>>

-----------------------------------------------------------------------------
(* RunJobRepository and WorkerRepository: the durable queue.               *)

(* INSERT ... ON CONFLICT(run_id) DO NOTHING *)
EnqueueJob(r, t) ==
    /\ job' = [job EXCEPT ![r] = IF @.state = "none" THEN QueuedJob(t) ELSE @]
    /\ UNCHANGED <<run, output, claims>>

Retriable(r) ==
    /\ job[r].state \in {"failed", "cancelled"}
    /\ run[r] = job[r].state

RetryTerminal(r, t) ==
    /\ Retriable(r)
    /\ output[r] = NoOutput
    /\ job' = [job EXCEPT ![r] = QueuedJob(t)]
    /\ run' = [run EXCEPT ![r] = "queued"]
    /\ UNCHANGED <<output, claims>>

Claimable_RunUnchecked(r, t) ==
    /\ job[r].state = "queued"
    /\ job[r].available <= t
    /\ job[r].deadline > t
    /\ job[r].attempts < MaxAttempts

Claimable(r, t) ==
    /\ job[r].state = "queued"
    /\ job[r].available <= t
    /\ job[r].deadline > t
    /\ job[r].attempts < MaxAttempts
    /\ run[r] = "queued"

Claim(r, t) ==
    /\ Claimable(r, t)
    /\ claims' = [claims EXCEPT ![r] = @ + 1]
    /\ job' = [job EXCEPT ![r] = Claimed(@, claims[r] + 1, t)]
    /\ run' = [run EXCEPT ![r] = "running"]
    /\ UNCHANGED output

HoldsLease_AnyOwner(r, owner, t) ==
    /\ job[r].state = "running"
    /\ job[r].lease > t

HoldsLease(r, owner, t) ==
    /\ job[r].state = "running"
    /\ job[r].owner = owner
    /\ job[r].lease > t

InTime(r, t) == job[r].deadline > t

RenewLease(r, owner, t) ==
    /\ HoldsLease(r, owner, t)
    /\ InTime(r, t)
    /\ job' = [job EXCEPT ![r].lease = t + LeaseTime]
    /\ UNCHANGED <<run, output, claims>>

(* "cancelled": complete and fail both look at the run row first. *)
ObserveCancellation(r, owner, t) ==
    /\ HoldsLease(r, owner, t)
    /\ run[r] = "cancel_requested"
    /\ Transition(r, "cancelled")
    /\ UNCHANGED <<output, claims>>

(* "completed": artifact, run row and job row in one transaction. *)
StoreOutput(r, owner, t) ==
    /\ HoldsLease(r, owner, t)
    /\ InTime(r, t)
    /\ run[r] = "running"
    /\ output[r] = NoOutput
    /\ output' = [output EXCEPT ![r] = owner]
    /\ Transition(r, "completed")
    /\ UNCHANGED claims

(* "lost": nothing is written. *)
Complete(r, owner, t) ==
    \/ InTime(r, t) /\ ObserveCancellation(r, owner, t)
    \/ StoreOutput(r, owner, t)
    \/ /\ \/ ~HoldsLease(r, owner, t)
          \/ ~InTime(r, t)
          \/ run[r] \notin {"running", "cancel_requested"}
       /\ UNCHANGED storeVars

Requeue(r, t) ==
    /\ job' = [job EXCEPT ![r] = Requeued(@, t)]
    /\ run' = [run EXCEPT ![r] = IF @ = "running" THEN "queued" ELSE @]

MayRetry_Unlimited(r, t, retryable) == retryable /\ InTime(r, t)

MayRetry(r, t, retryable) ==
    /\ retryable
    /\ InTime(r, t)
    /\ job[r].attempts < MaxAttempts

Fail(r, owner, t, retryable) ==
    \/ ObserveCancellation(r, owner, t)
    \/ /\ HoldsLease(r, owner, t)
       /\ run[r] # "cancel_requested"
       /\ \/ MayRetry(r, t, retryable) /\ Requeue(r, t + RetryDelay)
          \/ ~MayRetry(r, t, retryable) /\ Transition(r, "failed")
       /\ UNCHANGED <<output, claims>>
    \/ ~HoldsLease(r, owner, t) /\ UNCHANGED storeVars

CancelJob(r) ==
    /\ \/ job[r].state = "queued" /\ Transition(r, "cancelled")
       \/ /\ job[r].state = "running"
          /\ run' = [run EXCEPT ![r] = IF @ = "running" THEN "cancel_requested" ELSE @]
          /\ UNCHANGED job
    /\ UNCHANGED <<output, claims>>

DeadlineOutcome(r) == IF run[r] = "cancel_requested" THEN "cancelled" ELSE "failed"

ExpireDeadline(r, t) ==
    /\ job[r].state \in Open
    /\ ~InTime(r, t)
    /\ Transition(r, DeadlineOutcome(r))
    /\ UNCHANGED <<output, claims>>

-----------------------------------------------------------------------------
(* recover_expired of the workers, recoverExpiredLeases of the web server. *)

LeaseExpired_Any(r, t) == job[r].state = "running"

LeaseExpired(r, t) == job[r].state = "running" /\ job[r].lease <= t

Recoverable_LeasesOnly(t) == {r \in Runs : LeaseExpired(r, t)}

Recoverable(t) ==
    {r \in Runs : (job[r].state \in Open /\ ~InTime(r, t)) \/ LeaseExpired(r, t)}

RecoveryAction_CancelLast(r, t) ==
    IF ~InTime(r, t) \/ job[r].attempts >= MaxAttempts THEN "failed"
    ELSE IF run[r] = "cancel_requested" THEN "cancelled"
    ELSE "queued"

RecoveryAction(r, t) ==
    IF run[r] = "cancel_requested" THEN "cancelled"
    ELSE IF ~InTime(r, t) \/ job[r].attempts >= MaxAttempts THEN "failed"
    ELSE "queued"

RecoveredJob(r, t) ==
    IF RecoveryAction(r, t) = "queued" THEN Requeued(job[r], t)
    ELSE EndedJob(job[r], RecoveryAction(r, t))

RecoveredRun(r, t) ==
    IF RecoveryAction(r, t) = "queued"
    THEN IF run[r] = "running" THEN "queued" ELSE run[r]
    ELSE EndedRun(run[r], RecoveryAction(r, t))

(* S: the rows the query returns; SKIP LOCKED and LIMIT may leave some out. *)
Recover(S, t) ==
    /\ job' = [r \in Runs |-> IF r \in S THEN RecoveredJob(r, t) ELSE job[r]]
    /\ run' = [r \in Runs |-> IF r \in S THEN RecoveredRun(r, t) ELSE run[r]]
    /\ UNCHANGED <<output, claims>>
=============================================================================
