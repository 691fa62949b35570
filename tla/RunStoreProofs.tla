--------------------------- MODULE RunStoreProofs ---------------------------
(***************************************************************************)
(* What every transaction of the run tables preserves.                     *)
(***************************************************************************)
EXTENDS RunStore, TLAPS

(* One row pair: the run, its job, its output artifact. *)
RowInv(r) ==
    /\ job[r].state = "none" =>
          /\ claims[r] = 0
          /\ job[r].attempts = 0
          /\ run[r] \notin {"running", "completed"}
    /\ job[r].state = "queued" =>
          /\ run[r] \in {"queued", "cancel_requested"}
          /\ job[r].attempts < MaxAttempts
    /\ job[r].state = "running" =>
          /\ run[r] \in {"running", "cancel_requested"}
          /\ job[r].owner = claims[r]
          /\ claims[r] # NoOwner
    /\ job[r].state \in Finished => run[r] = job[r].state
    /\ job[r].state # "running" => job[r].owner = NoOwner
    /\ job[r].attempts <= MaxAttempts
    /\ run[r] = "completed" <=> output[r] # NoOutput
    /\ output[r] # NoOutput => output[r] = claims[r]
    /\ run[r] = "none" => job[r].state = "none"

StoreInv == StoreTypeOK /\ \A r \in Runs : RowInv(r)

(* The columns of one row pair that the invariant speaks of stay. *)
RowStays(r) ==
    /\ run'[r] = run[r]
    /\ output'[r] = output[r]
    /\ claims'[r] = claims[r]
    /\ job'[r].state = job[r].state
    /\ job'[r].owner = job[r].owner
    /\ job'[r].attempts = job[r].attempts

(* How a transaction of the queue may change them: a claim, or an end, a   *)
(* release or a marking for cancellation of a run that has a job.          *)
RowMoves(r) ==
    /\ job[r].state # "none"
    /\ \/ /\ run[r] = "queued" /\ run'[r] = "running"
          /\ output'[r] = output[r]
          /\ claims'[r] = claims[r] + 1
          /\ job'[r].attempts = job[r].attempts + 1
       \/ /\ claims'[r] = claims[r]
          /\ job'[r].attempts = job[r].attempts
          /\ \/ /\ output'[r] = output[r]
                /\ \/ run[r] = "running" /\ run'[r] \in {"queued", "cancel_requested"}
                   \/ run[r] \in Active /\ run'[r] = "cancelled"
                   \/ run[r] \in Open /\ run'[r] = "failed"
             \/ /\ run[r] = "running" /\ run'[r] = "completed"
                /\ output[r] = NoOutput
                /\ output'[r] = claims[r] /\ claims[r] # NoOwner

QueueStep == \A r \in Runs : RowStays(r) \/ RowMoves(r)

-----------------------------------------------------------------------------
(* What the row updates return. *)

(* A job row just inserted, or reopened by a retry. *)
LEMMA QueuedJobRow ==
  ASSUME NEW t \in Nat
  PROVE  /\ QueuedJob(t) \in JobRow
         /\ QueuedJob(t).state = "queued"
         /\ QueuedJob(t).owner = NoOwner
         /\ QueuedJob(t).attempts = 0
  BY RunStoreAssumption DEF QueuedJob, JobRow, NoOwner, Open

(* A released row has no owner and the attempts it had. *)
LEMMA ReleasedRow ==
  ASSUME NEW j \in JobRow, NEW state \in {"none"} \cup Open \cup Finished
  PROVE  /\ Released(j, state) \in JobRow
         /\ Released(j, state).state = state
         /\ Released(j, state).owner = NoOwner
         /\ Released(j, state).attempts = j.attempts
         /\ Released(j, state).deadline = j.deadline
  BY DEF Released, JobRow, NoOwner

(* A requeued row is a released row with a later time of availability. *)
LEMMA RequeuedRow ==
  ASSUME NEW j \in JobRow, NEW t \in Nat
  PROVE  /\ Requeued(j, t) \in JobRow
         /\ Requeued(j, t).state = "queued"
         /\ Requeued(j, t).owner = NoOwner
         /\ Requeued(j, t).attempts = j.attempts
  <1> DEFINE k == Released(j, "queued")
  <1>1. /\ k \in JobRow
        /\ k.state = "queued"
        /\ k.owner = NoOwner
        /\ k.attempts = j.attempts
    BY ReleasedRow DEF Open
  <1> HIDE DEF k
  <1>2. Requeued(j, t) = [k EXCEPT !.available = t]
    BY DEF Requeued, k
  <1>3. QED
    BY <1>1, <1>2 DEF JobRow

(* A claimed row runs under the new owner, one attempt older. *)
LEMMA ClaimedRow ==
  ASSUME NEW j \in JobRow, NEW owner \in Nat, NEW t \in Nat
  PROVE  /\ Claimed(j, owner, t) \in JobRow
         /\ Claimed(j, owner, t).state = "running"
         /\ Claimed(j, owner, t).owner = owner
         /\ Claimed(j, owner, t).attempts = j.attempts + 1
  <1>1. j.attempts + 1 \in Nat /\ t + LeaseTime \in Nat
    BY RunStoreAssumption DEF JobRow
  <1>2. QED
    BY <1>1 DEF Claimed, JobRow, Open

(* EndedJob releases an open row and leaves the others alone. *)
LEMMA EndedJobRow ==
  ASSUME NEW j \in JobRow, NEW final \in Finished
  PROVE  /\ EndedJob(j, final) \in JobRow
         /\ EndedJob(j, final).attempts = j.attempts
         /\ j.state \in Open => /\ EndedJob(j, final).state = final
                                /\ EndedJob(j, final).owner = NoOwner
         /\ j.state \notin Open => EndedJob(j, final) = j
  BY ReleasedRow DEF EndedJob, Open, Finished

-----------------------------------------------------------------------------
(* The transactions. *)

OtherRowsStay(r) ==
    \A q \in Runs \ {r} : /\ run'[q] = run[q]
                          /\ job'[q] = job[q]
                          /\ output'[q] = output[q]
                          /\ claims'[q] = claims[q]

(* A transaction that rewrites the rows of one run keeps the invariant of  *)
(* the tables if it keeps the invariant of that run.                       *)
LEMMA OneRowChanges ==
  ASSUME StoreInv, NEW r \in Runs, StoreTypeOK', OtherRowsStay(r), RowInv(r)'
  PROVE  StoreInv'
  <1>1. ASSUME NEW q \in Runs PROVE RowInv(q)'
    <2>1. CASE q = r
      BY <2>1
    <2>2. CASE q # r
      BY <2>2 DEF OtherRowsStay, StoreInv, RowInv
    <2>3. QED
      BY <2>1, <2>2
  <1>2. QED
    BY <1>1 DEF StoreInv

(* ... and is a step of the queue if it moves that run like one. *)
LEMMA OneRowMoves ==
  ASSUME NEW r \in Runs, OtherRowsStay(r), RowStays(r) \/ RowMoves(r)
  PROVE  QueueStep
  BY DEF OtherRowsStay, QueueStep, RowStays

(* The empty tables satisfy the invariant. *)
LEMMA StoreInitInv == StoreInit => StoreInv
  BY RunStoreAssumption
  DEF StoreInit, StoreInv, StoreTypeOK, RowInv, NoJob, NoOwner, NoOutput, JobRow, RunStatus,
      Active, Finished, Open

(* claim takes a queued job and makes its worker the only owner. *)
LEMMA ClaimInv ==
  ASSUME StoreInv, NEW r \in Runs, NEW t \in Nat, Claim(r, t)
  PROVE  StoreInv' /\ QueueStep
  <1> DEFINE k == Claimed(job[r], claims[r] + 1, t)
  <1>1. /\ k \in JobRow
        /\ k.state = "running"
        /\ k.owner = claims[r] + 1
        /\ k.attempts = job[r].attempts + 1
    <2> DEFINE owner == claims[r] + 1
    <2>1. job[r] \in JobRow /\ owner \in Nat
      BY DEF StoreInv, StoreTypeOK
    <2>2. k = Claimed(job[r], owner, t)
      OBVIOUS
    <2> HIDE DEF k, owner
    <2>3. k \in JobRow /\ k.state = "running" /\ k.owner = owner /\ k.attempts = job[r].attempts + 1
      BY <2>1, <2>2, ClaimedRow
    <2>4. QED
      BY <2>3 DEF owner
  <1>2. job' = [job EXCEPT ![r] = k]
    <2>1. job' = [job EXCEPT ![r] = Claimed(job[r], claims[r] + 1, t)]
      BY Zenon DEF Claim
    <2>2. QED
      BY <2>1
  <1> HIDE DEF k
  <1>3. StoreTypeOK'
    BY <1>1, <1>2 DEF Claim, StoreInv, StoreTypeOK, RunStatus, Active
  <1>4. RowInv(r)'
    BY <1>1, <1>2, RunStoreAssumption
    DEF Claim, Claimable, StoreInv, StoreTypeOK, RowInv, JobRow, NoOwner, NoOutput, Finished
  <1>5. OtherRowsStay(r)
    BY <1>1, <1>2 DEF OtherRowsStay, StoreInv, StoreTypeOK, Claim, Claimable
  <1>6. RowStays(r) \/ RowMoves(r)
    BY <1>1, <1>2
    DEF RowStays, RowMoves, StoreInv, StoreTypeOK, RowInv, NoOwner, NoOutput, Open, Active, Claim, Claimable
  <1>7. QED
    BY <1>3, <1>4, <1>5, <1>6, OneRowChanges, OneRowMoves

(* transitionCancelled and transitionFailed end the run and its job alike. *)
LEMMA TransitionInv ==
  ASSUME StoreInv, NEW r \in Runs, NEW final \in {"cancelled", "failed"},
         final = "failed" => run[r] # "cancel_requested",
         job[r].state \in Open, Transition(r, final), UNCHANGED <<output, claims>>
  PROVE  StoreInv' /\ QueueStep
  <1> DEFINE k == EndedJob(job[r], final)
  <1>1. /\ k \in JobRow
        /\ k.state = final
        /\ k.owner = NoOwner
        /\ k.attempts = job[r].attempts
    BY EndedJobRow DEF StoreInv, StoreTypeOK, Finished
  <1>2. job' = [job EXCEPT ![r] = k]
    BY DEF Transition
  <1> HIDE DEF k
  <1>3. run[r] \in Active /\ run' = [run EXCEPT ![r] = final]
    BY DEF Transition, EndedRun, StoreInv, RowInv, Active, Open
  <1>4. StoreTypeOK'
    BY <1>1, <1>2, <1>3 DEF StoreInv, StoreTypeOK, RunStatus, Finished
  <1>5. RowInv(r)'
    BY <1>1, <1>2, <1>3
    DEF StoreInv, StoreTypeOK, RowInv, NoOwner, NoOutput, Finished, Open, Active
  <1>6. OtherRowsStay(r)
    BY <1>1, <1>2, <1>3 DEF OtherRowsStay, StoreInv, StoreTypeOK
  <1>7. RowStays(r) \/ RowMoves(r)
    BY <1>1, <1>2, <1>3
    DEF RowStays, RowMoves, StoreInv, StoreTypeOK, RowInv, NoOwner, NoOutput, Open, Active
  <1>8. QED
    BY <1>4, <1>5, <1>6, <1>7, OneRowChanges, OneRowMoves

(* heartbeat changes the end of the lease and nothing else. *)
LEMMA RenewLeaseInv ==
  ASSUME StoreInv, NEW r \in Runs, NEW owner \in Nat, NEW t \in Nat, RenewLease(r, owner, t)
  PROVE  StoreInv' /\ QueueStep
  <1> DEFINE k == [job[r] EXCEPT !.lease = t + LeaseTime]
  <1>1. /\ k \in JobRow
        /\ k.state = job[r].state
        /\ k.owner = job[r].owner
        /\ k.attempts = job[r].attempts
    <2>1. job[r] \in JobRow /\ t + LeaseTime \in Nat
      BY RunStoreAssumption DEF StoreInv, StoreTypeOK
    <2>2. QED
      BY <2>1 DEF JobRow
  <1>2. job' = [job EXCEPT ![r] = k]
    BY DEF RenewLease
  <1> HIDE DEF k
  <1>3. UNCHANGED <<run, output, claims>>
    BY DEF RenewLease
  <1>4. StoreTypeOK'
    BY <1>1, <1>2, <1>3 DEF StoreInv, StoreTypeOK
  <1>5. RowInv(r)'
    BY <1>1, <1>2, <1>3 DEF StoreInv, StoreTypeOK, RowInv
  <1>6. OtherRowsStay(r)
    BY <1>1, <1>2, <1>3 DEF OtherRowsStay, StoreInv, StoreTypeOK
  <1>7. RowStays(r) \/ RowMoves(r)
    BY <1>1, <1>2, <1>3
    DEF RowStays, RowMoves, StoreInv, StoreTypeOK, RowInv, NoOwner, NoOutput, Open, Active
  <1>8. QED
    BY <1>4, <1>5, <1>6, <1>7, OneRowChanges, OneRowMoves

(* The output is stored by the last claim, with both rows completed. *)
LEMMA StoreOutputInv ==
  ASSUME StoreInv, NEW r \in Runs, NEW owner \in Nat, NEW t \in Nat, StoreOutput(r, owner, t)
  PROVE  StoreInv' /\ QueueStep
  <1> DEFINE k == EndedJob(job[r], "completed")
  <1>1. /\ job[r].state = "running"
        /\ job[r].owner = owner
        /\ run[r] = "running"
        /\ output' = [output EXCEPT ![r] = owner]
        /\ claims' = claims
    BY DEF StoreOutput, HoldsLease
  <1>2. /\ k \in JobRow
        /\ k.state = "completed"
        /\ k.owner = NoOwner
        /\ k.attempts = job[r].attempts
    BY <1>1, EndedJobRow DEF StoreInv, StoreTypeOK, Finished, Open
  <1>3. job' = [job EXCEPT ![r] = k]
    BY DEF StoreOutput, Transition
  <1> HIDE DEF k
  <1>4. run' = [run EXCEPT ![r] = "completed"]
    BY <1>1 DEF StoreOutput, Transition, EndedRun, Active
  <1>5. StoreTypeOK'
    BY <1>1, <1>2, <1>3, <1>4 DEF StoreInv, StoreTypeOK, RunStatus, Finished
  <1>6. RowInv(r)'
    BY <1>1, <1>2, <1>3, <1>4
    DEF StoreInv, StoreTypeOK, RowInv, NoOwner, NoOutput, Finished
  <1>7. OtherRowsStay(r)
    BY <1>1, <1>2, <1>3, <1>4 DEF OtherRowsStay, StoreInv, StoreTypeOK, StoreOutput
  <1>8. RowStays(r) \/ RowMoves(r)
    BY <1>1, <1>2, <1>3, <1>4
    DEF RowStays, RowMoves, StoreInv, StoreTypeOK, RowInv, NoOwner, NoOutput, Open, Active, StoreOutput
  <1>9. QED
    BY <1>5, <1>6, <1>7, <1>8, OneRowChanges, OneRowMoves

(* A cancellation seen by complete or fail ends both rows. *)
LEMMA ObserveCancellationInv ==
  ASSUME StoreInv, NEW r \in Runs, NEW owner \in Nat, NEW t \in Nat,
         ObserveCancellation(r, owner, t)
  PROVE  StoreInv' /\ QueueStep
  BY TransitionInv DEF ObserveCancellation, HoldsLease, Open

(* complete: completed, cancelled or lost. *)
LEMMA CompleteInv ==
  ASSUME StoreInv, NEW r \in Runs, NEW owner \in Nat, NEW t \in Nat, Complete(r, owner, t)
  PROVE  StoreInv' /\ QueueStep
  <1>1. CASE ObserveCancellation(r, owner, t)
    BY <1>1, ObserveCancellationInv
  <1>2. CASE StoreOutput(r, owner, t)
    BY <1>2, StoreOutputInv
  <1>3. CASE UNCHANGED storeVars
    BY <1>3 DEF storeVars, StoreInv, StoreTypeOK, RowInv, QueueStep, RowStays
  <1>4. QED
    BY <1>1, <1>2, <1>3 DEF Complete

(* A released job goes back to the queue with its run. *)
LEMMA RequeueInv ==
  ASSUME StoreInv, NEW r \in Runs, NEW t \in Nat, Requeue(r, t),
         UNCHANGED <<output, claims>>,
         job[r].state = "running", run[r] = "running", job[r].attempts < MaxAttempts
  PROVE  StoreInv' /\ QueueStep
  <1> DEFINE k == Requeued(job[r], t)
  <1>1. /\ k \in JobRow
        /\ k.state = "queued"
        /\ k.owner = NoOwner
        /\ k.attempts = job[r].attempts
    BY RequeuedRow DEF StoreInv, StoreTypeOK
  <1>2. job' = [job EXCEPT ![r] = k]
    BY DEF Requeue
  <1> HIDE DEF k
  <1>3. run' = [run EXCEPT ![r] = "queued"]
    BY DEF Requeue
  <1>4. StoreTypeOK'
    BY <1>1, <1>2, <1>3 DEF StoreInv, StoreTypeOK, RunStatus, Active
  <1>5. RowInv(r)'
    BY <1>1, <1>2, <1>3 DEF StoreInv, StoreTypeOK, RowInv, NoOutput, Finished
  <1>6. OtherRowsStay(r)
    BY <1>1, <1>2, <1>3 DEF OtherRowsStay, StoreInv, StoreTypeOK
  <1>7. RowStays(r) \/ RowMoves(r)
    BY <1>1, <1>2, <1>3
    DEF RowStays, RowMoves, StoreInv, StoreTypeOK, RowInv, NoOwner, NoOutput, Open, Active
  <1>8. QED
    BY <1>4, <1>5, <1>6, <1>7, OneRowChanges, OneRowMoves

(* fail: cancelled, requeued, failed or lost. *)
LEMMA FailInv ==
  ASSUME StoreInv, NEW r \in Runs, NEW owner \in Nat, NEW t \in Nat,
         NEW retryable \in BOOLEAN, Fail(r, owner, t, retryable)
  PROVE  StoreInv' /\ QueueStep
  <1>1. CASE ObserveCancellation(r, owner, t)
    BY <1>1, ObserveCancellationInv
  <1>2. CASE /\ HoldsLease(r, owner, t)
             /\ run[r] # "cancel_requested"
             /\ MayRetry(r, t, retryable)
             /\ Requeue(r, t + RetryDelay)
             /\ UNCHANGED <<output, claims>>
    <2>1. job[r].state = "running" /\ run[r] = "running" /\ job[r].attempts < MaxAttempts
      BY <1>2 DEF HoldsLease, MayRetry, StoreInv, RowInv
    <2>2. t + RetryDelay \in Nat
      BY RunStoreAssumption
    <2>3. QED
      BY <1>2, <2>1, <2>2, RequeueInv
  <1>3. CASE /\ HoldsLease(r, owner, t)
             /\ run[r] # "cancel_requested"
             /\ Transition(r, "failed")
             /\ UNCHANGED <<output, claims>>
    BY <1>3, TransitionInv DEF HoldsLease, Open
  <1>4. CASE UNCHANGED storeVars
    BY <1>4 DEF storeVars, StoreInv, StoreTypeOK, RowInv, QueueStep, RowStays
  <1>5. QED
    BY <1>1, <1>2, <1>3, <1>4 DEF Fail

(* cancel ends a queued job; of a running one it marks the run. *)
LEMMA CancelJobInv ==
  ASSUME StoreInv, NEW r \in Runs, CancelJob(r)
  PROVE  StoreInv' /\ QueueStep
  <1>1. CASE job[r].state = "queued" /\ Transition(r, "cancelled")
    BY <1>1, TransitionInv DEF CancelJob, Open
  <1>2. CASE /\ job[r].state = "running"
             /\ run' = [run EXCEPT ![r] = IF @ = "running" THEN "cancel_requested" ELSE @]
             /\ UNCHANGED job
    <2>1. run' = [run EXCEPT ![r] = "cancel_requested"] /\ UNCHANGED <<job, output, claims>>
      BY <1>2 DEF CancelJob, StoreInv, StoreTypeOK, RowInv
    <2>2. StoreTypeOK'
      BY <2>1 DEF StoreInv, StoreTypeOK, RunStatus, Active
    <2>3. RowInv(r)'
      BY <1>2, <2>1 DEF StoreInv, StoreTypeOK, RowInv, Finished
    <2>4. OtherRowsStay(r) /\ (RowStays(r) \/ RowMoves(r))
      BY <1>2, <2>1
      DEF OtherRowsStay, RowStays, RowMoves, StoreInv, StoreTypeOK, RowInv, Active
    <2>5. QED
      BY <2>2, <2>3, <2>4, OneRowChanges, OneRowMoves
  <1>3. QED
    BY <1>1, <1>2 DEF CancelJob

(* A deadline ends both rows, as cancelled if that was asked for. *)
LEMMA ExpireDeadlineInv ==
  ASSUME StoreInv, NEW r \in Runs, NEW t \in Nat, ExpireDeadline(r, t)
  PROVE  StoreInv' /\ QueueStep
  BY TransitionInv DEF ExpireDeadline, DeadlineOutcome

(* The job row is inserted for a run that waits for it. *)
LEMMA EnqueueJobInv ==
  ASSUME StoreInv, NEW r \in Runs, NEW t \in Nat, EnqueueJob(r, t),
         job[r].state = "none", run[r] \in {"queued", "cancel_requested"}
  PROVE  StoreInv'
  <1>1. job' = [job EXCEPT ![r] = QueuedJob(t)] /\ UNCHANGED <<run, output, claims>>
    BY DEF EnqueueJob
  <1>2. StoreTypeOK'
    BY <1>1, QueuedJobRow DEF StoreInv, StoreTypeOK
  <1>3. RowInv(r)'
    BY <1>1, QueuedJobRow, RunStoreAssumption
    DEF StoreInv, StoreTypeOK, RowInv, NoOutput, Finished
  <1>4. QED
    BY <1>1, <1>2, <1>3, OneRowChanges DEF OtherRowsStay, StoreInv, StoreTypeOK

(* A retry reopens both rows; there was no output. *)
LEMMA RetryTerminalInv ==
  ASSUME StoreInv, NEW r \in Runs, NEW t \in Nat, RetryTerminal(r, t)
  PROVE  StoreInv'
  <1>1. /\ job' = [job EXCEPT ![r] = QueuedJob(t)]
        /\ run' = [run EXCEPT ![r] = "queued"]
        /\ UNCHANGED <<output, claims>>
        /\ output[r] = NoOutput
    BY DEF RetryTerminal
  <1>2. StoreTypeOK'
    BY <1>1, QueuedJobRow DEF StoreInv, StoreTypeOK, RunStatus, Active
  <1>3. RowInv(r)'
    BY <1>1, QueuedJobRow, RunStoreAssumption
    DEF StoreInv, StoreTypeOK, RowInv, NoOutput, Finished
  <1>4. QED
    BY <1>1, <1>2, <1>3, OneRowChanges DEF OtherRowsStay, StoreInv, StoreTypeOK

(* A method that changes the status of a run without a job, to anything    *)
(* but running or completed, disturbs nothing.                             *)
LEMMA JoblessRunInv ==
  ASSUME StoreInv, NEW r \in Runs, job[r].state = "none",
         NEW s \in {"queued", "cancel_requested", "failed"},
         run' = [run EXCEPT ![r] = s], UNCHANGED <<job, output, claims>>
  PROVE  StoreInv'
  <1>1. StoreTypeOK'
    BY DEF StoreInv, StoreTypeOK, RunStatus, Active, Finished
  <1>2. RowInv(r)'
    BY DEF StoreInv, StoreTypeOK, RowInv, Open, Finished
  <1>3. QED
    BY <1>1, <1>2, OneRowChanges DEF OtherRowsStay, StoreInv, StoreTypeOK

(* requestCancellation does not look at the job row, and need not. *)
LEMMA RequestCancellationInv ==
  ASSUME StoreInv, NEW r \in Runs, RequestCancellation(r)
  PROVE  StoreInv'
  <1>1. CASE run[r] \in Open
    <2>1. run' = [run EXCEPT ![r] = "cancel_requested"] /\ UNCHANGED <<job, output, claims>>
      BY <1>1 DEF RequestCancellation
    <2>2. StoreTypeOK'
      BY <2>1 DEF StoreInv, StoreTypeOK, RunStatus, Active
    <2>3. RowInv(r)'
      BY <1>1, <2>1 DEF StoreInv, StoreTypeOK, RowInv, Open, Finished
    <2>4. QED
      BY <2>1, <2>2, <2>3, OneRowChanges DEF OtherRowsStay, StoreInv, StoreTypeOK
  <1>2. CASE run[r] \notin Open
    <2>1. run' = run /\ UNCHANGED <<job, output, claims>>
      BY <1>2 DEF RequestCancellation, StoreInv, StoreTypeOK
    <2>2. QED
      BY <2>1 DEF StoreInv, StoreTypeOK, RowInv
  <1>3. QED
    BY <1>1, <1>2

-----------------------------------------------------------------------------
(* Recovery rewrites many rows in one transaction. *)

(* What recovery makes of one row it selected. *)
LEMMA RecoveredRow ==
  ASSUME StoreInv, NEW t \in Nat, NEW r \in Recoverable(t)
  PROVE  /\ run[r] \in Active
         /\ RecoveredJob(r, t) \in JobRow
         /\ RecoveredJob(r, t).owner = NoOwner
         /\ RecoveredJob(r, t).attempts = job[r].attempts
         /\ RecoveredRun(r, t) = RecoveredJob(r, t).state
         /\ \/ /\ RecoveredJob(r, t).state = "queued"
               /\ job[r].attempts < MaxAttempts
               /\ run[r] = "running"
            \/ /\ RecoveredJob(r, t).state = "failed"
               /\ run[r] # "cancel_requested"
            \/ RecoveredJob(r, t).state = "cancelled"
  <1>1. r \in Runs /\ job[r] \in JobRow /\ run[r] \in RunStatus /\ RowInv(r)
    BY DEF Recoverable, StoreInv, StoreTypeOK
  <1>2. job[r].state \in Open /\ run[r] \in Active
    BY <1>1 DEF Recoverable, LeaseExpired, RowInv, Open, Active
  <1>3. CASE RecoveryAction(r, t) = "queued"
    <2>1. InTime(r, t) /\ job[r].attempts < MaxAttempts /\ run[r] # "cancel_requested"
      BY <1>1, <1>3, RunStoreAssumption DEF RecoveryAction, JobRow
    <2>2. job[r].state = "running" /\ run[r] = "running"
      BY <1>1, <2>1 DEF Recoverable, LeaseExpired, RowInv
    <2>3. /\ RecoveredJob(r, t) = Requeued(job[r], t)
          /\ RecoveredRun(r, t) = "queued"
      BY <1>3, <2>2 DEF RecoveredJob, RecoveredRun
    <2>4. QED
      BY <1>1, <2>1, <2>2, <2>3, RequeuedRow DEF Active
  <1>4. CASE RecoveryAction(r, t) # "queued"
    <2> DEFINE final == RecoveryAction(r, t)
    <2>1. \/ final = "failed" /\ run[r] # "cancel_requested"
          \/ final = "cancelled"
      BY <1>4 DEF RecoveryAction
    <2>2. /\ RecoveredJob(r, t) = EndedJob(job[r], final)
          /\ RecoveredRun(r, t) = final
      BY <1>2, <1>4 DEF RecoveredJob, RecoveredRun, EndedRun
    <2> HIDE DEF final
    <2>3. QED
      BY <1>1, <1>2, <2>1, <2>2, EndedJobRow DEF Finished
  <1>5. QED
    BY <1>3, <1>4

(* Rows that recovery left out may keep their status, or, having no job,   *)
(* be failed as stale by a restart of the web server.                      *)
LEMMA RecoverInv ==
  ASSUME StoreInv, NEW t \in Nat, NEW S \in SUBSET Recoverable(t),
         StoreTypeOK', UNCHANGED <<output, claims>>,
         \A r \in S : run'[r] = RecoveredRun(r, t) /\ job'[r] = RecoveredJob(r, t),
         \A r \in Runs \ S :
            /\ job'[r] = job[r]
            /\ \/ run'[r] = run[r]
               \/ job[r].state = "none" /\ run'[r] = "failed"
  PROVE  /\ StoreInv'
         /\ \A r \in Runs : \/ RowStays(r) \/ RowMoves(r)
                            \/ job[r].state = "none" /\ run'[r] = "failed"
  <1>1. ASSUME NEW r \in S
        PROVE  RowInv(r)' /\ RowMoves(r)
    <2>1. r \in Runs /\ job[r].state \in Open
      BY DEF Recoverable, LeaseExpired, Open
    <2>2. RowInv(r)'
      BY <2>1, RecoveredRow DEF StoreInv, RowInv, Open, Finished, NoOutput
    <2>3. RowMoves(r)
      BY <2>1, RecoveredRow DEF RowMoves, Open, Active
    <2>4. QED
      BY <2>2, <2>3
  <1>2. ASSUME NEW r \in Runs \ S
        PROVE  /\ RowInv(r)'
               /\ RowStays(r) \/ (job[r].state = "none" /\ run'[r] = "failed")
    BY DEF StoreInv, RowInv, RowStays, Finished
  <1>3. StoreInv'
    BY <1>1, <1>2 DEF StoreInv
  <1>4. QED
    BY <1>1, <1>2, <1>3
=============================================================================
