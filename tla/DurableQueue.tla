---------------------------- MODULE DurableQueue ----------------------------
(***************************************************************************)
(* External execution mode: the web server puts a run into the durable     *)
(* queue, Rust workers (`portfolio-lens-worker run`) claim it under a      *)
(* lease, renew the lease from a heartbeat thread, and complete or fail    *)
(* it; any worker, and a restarted web server, recovers what a crashed     *)
(* worker left behind.                                                     *)
(*                                                                         *)
(* Requests for one run identity are dispatched one at a time here; module *)
(* ExternalDispatch lets several of them race.                             *)
(***************************************************************************)
EXTENDS RunStore

CONSTANTS
    Workers,     \* worker processes
    NoRun,       \* not a run
    Lag,         \* longest time between reading the clock and the row lock
    Horizon,     \* bound: the clock stops there
    MaxRetries,  \* bound: user retries per run
    MaxCrashes   \* bound: worker crashes in a behaviour

ASSUME DurableQueueAssumption ==
    /\ NoRun \notin Runs
    /\ Lag \in Nat
    /\ Horizon \in Nat
    /\ MaxRetries \in Nat
    /\ MaxCrashes \in Nat

VARIABLES
    now,         \* epoch_ms()
    pc,          \* where process_one of a worker stands
    claim,       \* the worker's JobClaim
    flags,       \* LeaseState: the AtomicBools that are set
    beating,     \* the heartbeat thread is alive
    dispatching, \* enqueueExternal created the run, its job is not inserted yet
    cancelling,  \* cancel found no job and is about to update the run row
    retries,     \* user retries so far
    crashes      \* worker crashes so far

workerVars == <<pc, claim, flags, beating>>
serverVars == <<dispatching, cancelling, retries>>
vars == <<storeVars, now, workerVars, serverVars, crashes>>

NoClaim == [run |-> NoRun, owner |-> NoOwner, deadline |-> 0]
JobClaim == [run : Runs, owner : Nat, deadline : Nat]

Flags    == {"lost", "deadline", "cancelled"}
Outcomes == {"ok", "retryable", "invalid"}
PC == {"down", "idle", "computing", "complete", "retry", "fail", "join"}

TypeOK ==
    /\ StoreTypeOK
    /\ now \in 0..Horizon
    /\ pc \in [Workers -> PC]
    /\ claim \in [Workers -> JobClaim \cup {NoClaim}]
    /\ flags \in [Workers -> SUBSET Flags]
    /\ beating \in [Workers -> BOOLEAN]
    /\ dispatching \in [Runs -> BOOLEAN]
    /\ cancelling \in [Runs -> BOOLEAN]
    /\ retries \in [Runs -> 0..MaxRetries]
    /\ crashes \in 0..MaxCrashes

Init ==
    /\ StoreInit
    /\ now = 0
    /\ pc = [w \in Workers |-> "idle"]
    /\ claim = [w \in Workers |-> NoClaim]
    /\ flags = [w \in Workers |-> {}]
    /\ beating = [w \in Workers |-> FALSE]
    /\ dispatching = [r \in Runs |-> FALSE]
    /\ cancelling = [r \in Runs |-> FALSE]
    /\ retries = [r \in Runs |-> 0]
    /\ crashes = 0

(* A clock value read at most Lag ago. *)
Stamps == {t \in 0..now : now - t <= Lag}

Tick ==
    /\ now < Horizon
    /\ now' = now + 1
    /\ UNCHANGED <<storeVars, workerVars, serverVars, crashes>>

-----------------------------------------------------------------------------
(* The worker: process_one, its heartbeat thread, and the recovery that    *)
(* the main loop runs between two calls of process_one.                    *)

WorkerClaim(w) ==
    /\ pc[w] = "idle"
    /\ \E r \in Runs, t \in Stamps :
          /\ Claim(r, t)
          /\ claim' = [claim EXCEPT ![w] = [run |-> r, owner |-> claims[r] + 1,
                                            deadline |-> job[r].deadline]]
    /\ pc' = [pc EXCEPT ![w] = "computing"]
    /\ flags' = [flags EXCEPT ![w] = {}]
    /\ beating' = [beating EXCEPT ![w] = TRUE]
    /\ UNCHANGED <<now, serverVars, crashes>>

(* The heartbeat thread sets one flag and ends. *)
StopBeating(w, flag) ==
    /\ flags' = [flags EXCEPT ![w] = @ \cup {flag}]
    /\ beating' = [beating EXCEPT ![w] = FALSE]

BeatDeadline(w) ==
    /\ beating[w]
    /\ now >= claim[w].deadline
    /\ StopBeating(w, "deadline")
    /\ UNCHANGED <<storeVars, now, pc, claim, serverVars, crashes>>

BeatRenew(w) ==
    /\ beating[w]
    /\ \E t \in Stamps : RenewLease(claim[w].run, claim[w].owner, t)
    /\ IF run[claim[w].run] = "cancel_requested"
       THEN StopBeating(w, "cancelled")
       ELSE UNCHANGED <<flags, beating>>
    /\ UNCHANGED <<now, pc, claim, serverVars, crashes>>

(* Not renewed, or the database call failed. *)
BeatLost(w) ==
    /\ beating[w]
    /\ StopBeating(w, "lost")
    /\ UNCHANGED <<storeVars, now, pc, claim, serverVars, crashes>>

(* What finalization does with the flags and the outcome of the compute. *)
Finalization(set, outcome) ==
    CASE "lost" \in set                 -> "join"
      [] set \in {{"deadline"}, {"cancelled"}, {"deadline", "cancelled"}} -> "fail"
      [] set = {} /\ outcome = "ok"        -> "complete"
      [] set = {} /\ outcome = "retryable" -> "retry"
      [] set = {} /\ outcome = "invalid"   -> "fail"

(* The compute returns.  At a checkpoint after the deadline it bails out   *)
(* with the deadline flag set; the last checkpoint may have been earlier.  *)
FinishCompute(w) ==
    /\ pc[w] = "computing"
    /\ \/ \E outcome \in Outcomes :
             /\ pc' = [pc EXCEPT ![w] = Finalization(flags[w], outcome)]
             /\ UNCHANGED flags
       \/ /\ "lost" \notin flags[w]
          /\ now >= claim[w].deadline
          /\ flags' = [flags EXCEPT ![w] = @ \cup {"deadline"}]
          /\ pc' = [pc EXCEPT ![w] = "fail"]
    /\ UNCHANGED <<storeVars, now, claim, beating, serverVars, crashes>>

Finalize(w) ==
    /\ \E t \in Stamps :
          \/ pc[w] = "complete" /\ Complete(claim[w].run, claim[w].owner, t)
          \/ pc[w] = "retry" /\ Fail(claim[w].run, claim[w].owner, t, TRUE)
          \/ pc[w] = "fail" /\ Fail(claim[w].run, claim[w].owner, t, FALSE)
    /\ pc' = [pc EXCEPT ![w] = "join"]
    /\ UNCHANGED <<now, claim, flags, beating, serverVars, crashes>>

(* stop_heartbeat: the thread is joined before process_one returns. *)
Join(w) ==
    /\ pc[w] = "join"
    /\ pc' = [pc EXCEPT ![w] = "idle"]
    /\ claim' = [claim EXCEPT ![w] = NoClaim]
    /\ flags' = [flags EXCEPT ![w] = {}]
    /\ beating' = [beating EXCEPT ![w] = FALSE]
    /\ UNCHANGED <<storeVars, now, serverVars, crashes>>

(* The process dies, or exits on a database error; restart: unless-stopped *)
Crash(w) ==
    /\ pc[w] # "down"
    /\ crashes < MaxCrashes
    /\ crashes' = crashes + 1
    /\ pc' = [pc EXCEPT ![w] = "down"]
    /\ claim' = [claim EXCEPT ![w] = NoClaim]
    /\ flags' = [flags EXCEPT ![w] = {}]
    /\ beating' = [beating EXCEPT ![w] = FALSE]
    /\ UNCHANGED <<storeVars, now, serverVars>>

Restart(w) ==
    /\ pc[w] = "down"
    /\ pc' = [pc EXCEPT ![w] = "idle"]
    /\ UNCHANGED <<storeVars, now, claim, flags, beating, serverVars, crashes>>

WorkerRecover(w) ==
    /\ pc[w] = "idle"
    /\ \E t \in Stamps : \E S \in SUBSET Recoverable(t) : S # {} /\ Recover(S, t)
    /\ UNCHANGED <<now, workerVars, serverVars, crashes>>

-----------------------------------------------------------------------------
(* The web server: RunService in external mode.                            *)

(* enqueueExternal of a request that has no job: create or reopen the run. *)
Submit(r) ==
    /\ ~dispatching[r]
    /\ job[r].state = "none"
    /\ \/ CreateRun(r) /\ UNCHANGED retries
       \/ /\ retries[r] < MaxRetries
          /\ RetryRun(r)
          /\ retries' = [retries EXCEPT ![r] = @ + 1]
    /\ dispatching' = [dispatching EXCEPT ![r] = TRUE]
    /\ UNCHANGED <<now, workerVars, cancelling, crashes>>

(* ... the second half: input artifact and job row. *)
Enqueue(r) ==
    /\ dispatching[r]
    /\ \E t \in Stamps : t + RunDeadline <= Horizon /\ EnqueueJob(r, t)
    /\ dispatching' = [dispatching EXCEPT ![r] = FALSE]
    /\ UNCHANGED <<now, workerVars, cancelling, retries, crashes>>

(* ... or a limit is exceeded, or the job cannot be registered. *)
Reject(r) ==
    /\ dispatching[r]
    /\ FailRun(r)
    /\ dispatching' = [dispatching EXCEPT ![r] = FALSE]
    /\ UNCHANGED <<now, workerVars, cancelling, retries, crashes>>

(* enqueueExternal of a request whose job failed or was cancelled. *)
Resubmit(r) ==
    /\ ~dispatching[r]
    /\ retries[r] < MaxRetries
    /\ \E t \in Stamps : t + RunDeadline <= Horizon /\ RetryTerminal(r, t)
    /\ retries' = [retries EXCEPT ![r] = @ + 1]
    /\ UNCHANGED <<now, workerVars, dispatching, cancelling, crashes>>

Cancel(r) ==
    /\ CancelJob(r)
    /\ UNCHANGED <<now, workerVars, serverVars, crashes>>

(* cancel found no job; the job may be inserted before the run row changes. *)
CancelLookup(r) ==
    /\ run[r] # "none"
    /\ job[r].state = "none"
    /\ cancelling' = [cancelling EXCEPT ![r] = TRUE]
    /\ UNCHANGED <<storeVars, now, workerVars, dispatching, retries, crashes>>

CancelRun(r) ==
    /\ cancelling[r]
    /\ RequestCancellation(r)
    /\ cancelling' = [cancelling EXCEPT ![r] = FALSE]
    /\ UNCHANGED <<now, workerVars, dispatching, retries, crashes>>

(* get of an open run whose deadline has passed. *)
Read(r) ==
    /\ \E t \in Stamps : ExpireDeadline(r, t)
    /\ UNCHANGED <<now, workerVars, serverVars, crashes>>

(* The server stops and starts again: what it held in memory is gone;      *)
(* initialize recovers the queue, then the open runs that have no job.     *)
StaleRuns == {r \in Runs : job[r].state = "none"}

ServerRestart ==
    /\ \E t \in Stamps : \E S \in SUBSET Recoverable(t) :
          /\ job' = [r \in Runs |-> IF r \in S THEN RecoveredJob(r, t) ELSE job[r]]
          /\ run' = [r \in Runs |-> IF r \in S THEN RecoveredRun(r, t)
                                    ELSE IF r \in StaleRuns THEN EndedRun(run[r], "failed")
                                    ELSE run[r]]
    /\ dispatching' = [r \in Runs |-> FALSE]
    /\ cancelling' = [r \in Runs |-> FALSE]
    /\ UNCHANGED <<output, claims, now, workerVars, retries, crashes>>

-----------------------------------------------------------------------------
WorkerNext(w) ==
    \/ WorkerClaim(w)
    \/ BeatDeadline(w)
    \/ BeatRenew(w)
    \/ BeatLost(w)
    \/ FinishCompute(w)
    \/ Finalize(w)
    \/ Join(w)
    \/ Crash(w)
    \/ Restart(w)
    \/ WorkerRecover(w)

ServerNext(r) ==
    \/ Submit(r)
    \/ Enqueue(r)
    \/ Reject(r)
    \/ Resubmit(r)
    \/ Cancel(r)
    \/ CancelLookup(r)
    \/ CancelRun(r)
    \/ Read(r)

Next ==
    \/ Tick
    \/ \E w \in Workers : WorkerNext(w)
    \/ \E r \in Runs : ServerNext(r)
    \/ ServerRestart

Spec == Init /\ [][Next]_vars

(***************************************************************************)
(* Fairness.  Time passes; a worker process that is down is restarted      *)
(* (restart: unless-stopped); a compute reaches a checkpoint or its end;   *)
(* finalization and the join of the heartbeat thread are straight-line     *)
(* code; an idle worker runs recover_expired every recovery_ms, over all   *)
(* the rows the limit allows; and enqueueExternal runs to its end.         *)
(***************************************************************************)
RecoverAll(w) ==
    /\ pc[w] = "idle"
    /\ Recoverable(now) # {}
    /\ Recover(Recoverable(now), now)
    /\ UNCHANGED <<now, workerVars, serverVars, crashes>>

Fairness ==
    /\ WF_vars(Tick)
    /\ \A w \in Workers :
          /\ WF_vars(Restart(w))
          /\ WF_vars(FinishCompute(w))
          /\ WF_vars(Finalize(w))
          /\ WF_vars(Join(w))
          /\ WF_vars(RecoverAll(w))
    /\ \A r \in Runs : WF_vars(Enqueue(r) \/ Reject(r))

FairSpec == Spec /\ Fairness

-----------------------------------------------------------------------------
(* Properties. *)

(* The two tables never disagree about where a run stands, although the    *)
(* run row is also written by methods that never look at the job row.  A   *)
(* job that ended in a state its run does not share could be neither       *)
(* claimed nor retried.                                                    *)
RunJobAgreement ==
    \A r \in Runs :
        /\ job[r].state = "running"   => run[r] \in {"running", "cancel_requested"}
        /\ job[r].state = "queued"    => run[r] \in {"queued", "cancel_requested"}
        /\ job[r].state \in Finished => run[r] = job[r].state
        /\ job[r].state = "none"      => run[r] \notin {"running", "completed"}

(* A queued job has an attempt left: no path back to the queue (a          *)
(* retryable failure, a lost lease, a user's retry) leaves a job there     *)
(* that claim would skip until its deadline.                               *)
QueuedJobHasAttempt ==
    \A r \in Runs : job[r].state = "queued" => job[r].attempts < MaxAttempts

(* An output artifact is stored exactly for the completed runs, and it was *)
(* computed under the last claim ever granted on the run: a worker that    *)
(* lost its lease and finishes later stores nothing.                       *)
OutputOfLastClaim ==
    \A r \in Runs :
        /\ run[r] = "completed" <=> output[r] # NoOutput
        /\ output[r] # NoOutput => output[r] = claims[r]

(* A job that kills its workers or fails again and again is handed out at  *)
(* most max_attempts times per request of the user, crashes included.      *)
AttemptBudget ==
    \A r \in Runs : claims[r] <= MaxAttempts * (retries[r] + 1)

(* The worker that holds the lease of r is at its final transaction. *)
FinalizedByHolder(r) ==
    \E w \in Workers :
        /\ claim[w].run = r
        /\ claim[w].owner = job[r].owner
        /\ pc[w] \in {"complete", "retry", "fail"}
        /\ pc'[w] = "join"

(* While a lease and the deadline are good, only the worker that holds the *)
(* lease ends or releases the job: not another worker's recovery, not a    *)
(* former holder's late result, not a cancel, a read or a restart of the   *)
(* web server.                                                             *)
LeaseRespected ==
    [][\A r \in Runs :
          (job[r].state = "running" /\ job'[r].owner # job[r].owner)
              => \/ FinalizedByHolder(r)
                 \/ job[r].lease <= now
                 \/ job[r].deadline <= now]_vars

(* Once cancellation of a queued or running job is requested, the run ends *)
(* cancelled: it is not completed, not failed by an error, a deadline or a *)
(* lost lease, and not put back into the queue.                            *)
CancellationHonoured ==
    [][\A r \in Runs :
          (run[r] = "cancel_requested" /\ job[r].state # "none")
              => run'[r] \in {"cancel_requested", "cancelled"}]_vars

(* The statuses a caller sees are those of RunLifecycle. *)
Lifecycle == INSTANCE RunLifecycle WITH
                 status   <- run,
                 result   <- output,
                 NoResult <- NoOutput,
                 Results  <- Nat \ {NoOutput}

ImplementsLifecycle == Lifecycle!Spec

(* No run stays open, whatever its workers do: a crashed worker's job is   *)
(* found by its lease, a job nobody claims by its deadline.                *)
EveryRunEnds ==
    \A r \in Runs : run[r] \in Active ~> run[r] \in Finished
=============================================================================
