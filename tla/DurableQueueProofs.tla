------------------------- MODULE DurableQueueProofs -------------------------
(***************************************************************************)
(* The safety properties of the durable queue, for any number of runs and  *)
(* workers, any lease, deadline and attempt limit, and any staleness of    *)
(* the clock readings.                                                     *)
(***************************************************************************)
EXTENDS DurableQueue, RunStoreProofs

(* A worker that is past its claim has one. *)
WorkerInv ==
    \A w \in Workers :
        (pc[w] \in {"computing", "complete", "retry", "fail"} \/ beating[w])
            => claim[w] \in JobClaim

(* Until its job is inserted, a run under dispatch stays open. *)
DispatchInv ==
    \A r \in Runs : dispatching[r] =>
        /\ job[r].state = "none"
        /\ run[r] \in {"queued", "cancel_requested"}

(* Every claim but those of the current request is paid by a retry. *)
BudgetInv ==
    \A r \in Runs : claims[r] <= MaxAttempts * retries[r] + job[r].attempts

IInv == TypeOK /\ StoreInv /\ WorkerInv /\ DispatchInv /\ BudgetInv

-----------------------------------------------------------------------------
(* Clock readings are natural numbers. *)
LEMMA StampsNat == ASSUME TypeOK PROVE Stamps \subseteq Nat
  BY DurableQueueAssumption DEF Stamps, TypeOK

(* A transaction of the queue does not touch a run under dispatch, and     *)
(* spends an attempt for every claim.                                      *)
LEMMA QueueStepInv ==
  ASSUME IInv, StoreInv', QueueStep, UNCHANGED <<dispatching, retries>>
  PROVE  DispatchInv' /\ BudgetInv'
  <1>1. DispatchInv'
    BY DEF IInv, DispatchInv, QueueStep, RowStays, RowMoves
  <1>2. ASSUME NEW r \in Runs
        PROVE  claims'[r] <= MaxAttempts * retries[r] + job'[r].attempts
    <2> DEFINE paid == MaxAttempts * retries[r]
    <2>1. paid \in Nat
      BY RunStoreAssumption, DurableQueueAssumption DEF IInv, TypeOK
    <2>2. claims[r] <= paid + job[r].attempts
      BY DEF IInv, BudgetInv
    <2> HIDE DEF paid
    <2>3. claims[r] \in Nat /\ job[r].attempts \in Nat
      BY DEF IInv, StoreInv, StoreTypeOK, JobRow
    <2>4. \/ claims'[r] = claims[r] /\ job'[r].attempts = job[r].attempts
          \/ claims'[r] = claims[r] + 1 /\ job'[r].attempts = job[r].attempts + 1
      BY DEF QueueStep, RowStays, RowMoves
    <2>5. claims'[r] <= paid + job'[r].attempts
      BY <2>1, <2>2, <2>3, <2>4
    <2>6. QED
      BY <2>5 DEF paid
  <1>3. BudgetInv'
    BY <1>2 DEF BudgetInv
  <1>4. QED
    BY <1>1, <1>3

(* A step that leaves the tables alone is a step of the queue. *)
LEMMA StoreUnchanged ==
  ASSUME StoreInv, UNCHANGED storeVars
  PROVE  StoreInv' /\ QueueStep
  BY DEF storeVars, StoreInv, StoreTypeOK, RowInv, QueueStep, RowStays

(* Recovery, alone or with the failing of stale runs, keeps the types. *)
LEMMA RecoverTypeOK ==
  ASSUME StoreInv, NEW t \in Nat, NEW S \in SUBSET Recoverable(t), NEW stale \in [Runs -> RunStatus],
         job' = [r \in Runs |-> IF r \in S THEN RecoveredJob(r, t) ELSE job[r]],
         run' = [r \in Runs |-> IF r \in S THEN RecoveredRun(r, t) ELSE stale[r]],
         UNCHANGED <<output, claims>>
  PROVE  StoreTypeOK'
  <1>1. \A r \in S : RecoveredJob(r, t) \in JobRow /\ RecoveredRun(r, t) \in RunStatus
    BY RecoveredRow DEF RunStatus, Active, Finished
  <1>2. QED
    BY <1>1 DEF StoreInv, StoreTypeOK

(* The initial states satisfy the inductive invariant. *)
LEMMA InitInv == Init => IInv
  <1> SUFFICES ASSUME Init PROVE IInv
    OBVIOUS
  <1>1. StoreInv
    BY StoreInitInv DEF Init
  <1>2. TypeOK
    BY <1>1, DurableQueueAssumption DEF Init, TypeOK, StoreInv, PC, NoClaim, Flags
  <1>3. WorkerInv /\ DispatchInv
    BY DEF Init, WorkerInv, DispatchInv
  <1>4. ASSUME NEW r \in Runs PROVE claims[r] <= MaxAttempts * retries[r] + job[r].attempts
    BY RunStoreAssumption DEF Init, StoreInit, NoJob
  <1>5. QED
    BY <1>1, <1>2, <1>3, <1>4 DEF IInv, BudgetInv

-----------------------------------------------------------------------------
(* The worker's steps are steps of the queue. *)

(* A heartbeat that stops leaves its flag and starts no other heartbeat. *)
LEMMA StopBeatingTypes ==
  ASSUME flags \in [Workers -> SUBSET Flags], beating \in [Workers -> BOOLEAN],
         NEW w \in Workers, StopBeating(w, "cancelled") \/ UNCHANGED <<flags, beating>>
  PROVE  /\ flags' \in [Workers -> SUBSET Flags]
         /\ beating' \in [Workers -> BOOLEAN]
         /\ \A u \in Workers : beating'[u] => beating[u]
  <1>1. CASE UNCHANGED <<flags, beating>>
    BY <1>1
  <1>2. CASE StopBeating(w, "cancelled")
    <2>1. /\ flags' = [flags EXCEPT ![w] = flags[w] \cup {"cancelled"}]
          /\ beating' = [beating EXCEPT ![w] = FALSE]
      BY <1>2 DEF StopBeating
    <2>2. flags[w] \cup {"cancelled"} \in SUBSET Flags
      BY DEF Flags
    <2>3. flags' \in [Workers -> SUBSET Flags]
      BY <2>1, <2>2
    <2>4. beating' \in [Workers -> BOOLEAN]
      BY <2>1
    <2>5. ASSUME NEW u \in Workers, beating'[u] PROVE beating[u]
      <3>1. CASE u = w
        BY <2>1, <2>5, <3>1
      <3>2. CASE u # w
        BY <2>1, <2>5, <3>2
      <3>3. QED
        BY <3>1, <3>2
    <2>6. QED
      BY <2>3, <2>4, <2>5
  <1>3. QED
    BY <1>1, <1>2


(* What a worker does keeps the invariant and moves runs as the queue may. *)
LEMMA WorkerStepInv ==
  ASSUME IInv, NEW w \in Workers, WorkerNext(w)
  PROVE  IInv' /\ QueueStep
  <1> USE DEF IInv
  <1>1. UNCHANGED <<dispatching, retries>>
    BY DEF WorkerNext, WorkerClaim, BeatDeadline, BeatRenew, BeatLost, FinishCompute, Finalize,
           Join, Crash, Restart, WorkerRecover, serverVars
  <1>2. SUFFICES StoreInv' /\ QueueStep /\ TypeOK' /\ WorkerInv'
    BY <1>1, QueueStepInv
  <1>3. CASE WorkerClaim(w)
    <2>1. PICK r \in Runs, t \in Stamps :
             /\ Claim(r, t)
             /\ claim' = [claim EXCEPT ![w] = [run |-> r, owner |-> claims[r] + 1,
                                               deadline |-> job[r].deadline]]
      BY <1>3 DEF WorkerClaim
    <2>2. StoreInv' /\ QueueStep
      BY <2>1, StampsNat, ClaimInv
    <2>3. [run |-> r, owner |-> claims[r] + 1, deadline |-> job[r].deadline] \in JobClaim
      BY DEF StoreInv, StoreTypeOK, JobRow, JobClaim
    <2>4. TypeOK' /\ WorkerInv'
      BY <1>3, <2>1, <2>2, <2>3 DEF WorkerClaim, TypeOK, StoreInv, WorkerInv, PC, serverVars
    <2>5. QED
      BY <2>2, <2>4
  <1>4. CASE BeatDeadline(w) \/ BeatLost(w)
    <2>1. StoreInv' /\ QueueStep
      BY <1>4, StoreUnchanged DEF BeatDeadline, BeatLost
    <2>2. TypeOK' /\ WorkerInv'
      BY <1>4, <2>1
      DEF BeatDeadline, BeatLost, StopBeating, TypeOK, StoreInv, WorkerInv, Flags, serverVars
    <2>3. QED
      BY <2>1, <2>2
  <1>5. CASE BeatRenew(w)
    <2>1. claim[w] \in JobClaim
      BY <1>5 DEF BeatRenew, WorkerInv
    <2>2. StoreInv' /\ QueueStep
      BY <1>5, <2>1, StampsNat, RenewLeaseInv DEF BeatRenew, JobClaim
    <2>3. \/ StopBeating(w, "cancelled")
          \/ UNCHANGED <<flags, beating>>
      BY <1>5 DEF BeatRenew
    <2>4. /\ flags' \in [Workers -> SUBSET Flags]
          /\ beating' \in [Workers -> BOOLEAN]
          /\ \A u \in Workers : beating'[u] => beating[u]
      BY <2>3, StopBeatingTypes DEF TypeOK
    <2>5. TypeOK' /\ WorkerInv'
      BY <1>5, <2>2, <2>4 DEF BeatRenew, TypeOK, StoreInv, WorkerInv, serverVars
    <2>6. QED
      BY <2>2, <2>5
  <1>6. CASE FinishCompute(w)
    <2>1. StoreInv' /\ QueueStep
      BY <1>6, StoreUnchanged DEF FinishCompute
    <2>2. \A outcome \in Outcomes : Finalization(flags[w], outcome) \in {"join", "fail", "complete", "retry"}
      BY DEF TypeOK, Flags, Outcomes, Finalization
    <2>3. TypeOK' /\ WorkerInv'
      BY <1>6, <2>1, <2>2 DEF FinishCompute, TypeOK, StoreInv, WorkerInv, PC, Flags, serverVars
    <2>4. QED
      BY <2>1, <2>3
  <1>7. CASE Finalize(w)
    <2>1. claim[w] \in JobClaim
      BY <1>7 DEF Finalize, WorkerInv
    <2>2. StoreInv' /\ QueueStep
      BY <1>7, <2>1, StampsNat, CompleteInv, FailInv DEF Finalize, JobClaim
    <2>3. TypeOK' /\ WorkerInv'
      BY <1>7, <2>2 DEF Finalize, TypeOK, StoreInv, WorkerInv, PC, serverVars
    <2>4. QED
      BY <2>2, <2>3
  <1>8. CASE Join(w) \/ Crash(w) \/ Restart(w)
    <2>1. StoreInv' /\ QueueStep
      BY <1>8, StoreUnchanged DEF Join, Crash, Restart
    <2>2. CASE Join(w)
      BY <2>1, <2>2 DEF Join, TypeOK, StoreInv, WorkerInv, PC, serverVars
    <2>3. CASE Crash(w)
      <3>1. crashes' \in 0..MaxCrashes
        BY <2>3, DurableQueueAssumption DEF Crash, TypeOK
      <3>2. TypeOK' /\ WorkerInv'
        BY <2>1, <2>3, <3>1 DEF Crash, TypeOK, StoreInv, WorkerInv, PC, serverVars
      <3>3. QED
        BY <2>1, <3>2
    <2>4. CASE Restart(w)
      BY <2>1, <2>4 DEF Restart, TypeOK, StoreInv, WorkerInv, PC, serverVars
    <2>5. QED
      BY <1>8, <2>2, <2>3, <2>4
  <1>9. CASE WorkerRecover(w)
    <2>1. PICK t \in Stamps : \E S \in SUBSET Recoverable(t) : Recover(S, t)
      BY <1>9 DEF WorkerRecover
    <2>2. PICK S \in SUBSET Recoverable(t) : Recover(S, t)
      BY <2>1
    <2>3. t \in Nat /\ UNCHANGED <<output, claims>>
      BY <2>2, StampsNat DEF Recover
    <2>4. StoreTypeOK'
      BY <2>2, <2>3, RecoverTypeOK DEF Recover, StoreInv, StoreTypeOK
    <2>5. /\ \A r \in S : run'[r] = RecoveredRun(r, t) /\ job'[r] = RecoveredJob(r, t)
          /\ \A r \in Runs \ S : job'[r] = job[r] /\ run'[r] = run[r]
      BY <2>2 DEF Recover, Recoverable
    <2>6. /\ StoreInv'
          /\ \A r \in Runs : RowStays(r) \/ RowMoves(r) \/ job[r].state = "none"
      BY <2>3, <2>4, <2>5, RecoverInv
    <2>7. \A r \in S : job[r].state # "none"
      BY DEF Recoverable, LeaseExpired, Open
    <2>8. QueueStep
      BY <2>3, <2>5, <2>6, <2>7 DEF QueueStep, RowStays
    <2>9. TypeOK' /\ WorkerInv'
      BY <1>9, <2>6 DEF WorkerRecover, TypeOK, StoreInv, WorkerInv, workerVars, serverVars
    <2>10. QED
      BY <2>6, <2>8, <2>9
  <1>10. QED
    BY <1>3, <1>4, <1>5, <1>6, <1>7, <1>8, <1>9 DEF WorkerNext

-----------------------------------------------------------------------------
(* The server's steps may also insert, reopen or fail a run. *)

(* How a step of the server may change a run beyond what the queue does. *)
RowServed(r) ==
    /\ output'[r] = output[r]
    /\ claims'[r] = claims[r]
    /\ \/ /\ run[r] \in {"none", "failed", "cancelled"}
          /\ run'[r] = "queued"
          /\ job[r].state \notin Open
       \/ run[r] \in Open /\ run'[r] = "cancel_requested"
       \/ /\ job[r].state = "none"
          /\ run'[r] = run[r] \/ (run[r] \in Active /\ run'[r] = "failed")

ServerStep == \A r \in Runs : RowStays(r) \/ RowMoves(r) \/ RowServed(r)

(* What holds of every step of the server that changes one run only. *)
LEMMA OtherRowsStep ==
  ASSUME NEW r \in Runs, OtherRowsStay(r), RowStays(r) \/ RowMoves(r) \/ RowServed(r)
  PROVE  ServerStep
  BY DEF ServerStep, OtherRowsStay, RowStays

(* A user's retry pays for the attempts of the request it ends. *)
LEMMA RetryBudget ==
  ASSUME IInv, NEW r \in Runs, UNCHANGED claims,
         retries' = [retries EXCEPT ![r] = @ + 1],
         \A q \in Runs \ {r} : job'[q] = job[q],
         StoreTypeOK'
  PROVE  BudgetInv'
  <1> USE DEF IInv
  <1>1. ASSUME NEW q \in Runs
        PROVE  claims[q] <= MaxAttempts * retries'[q] + job'[q].attempts
    <2>1. CASE q = r
      <3> DEFINE paid == MaxAttempts * retries[r]
      <3>1. retries[r] \in Nat /\ retries'[r] = retries[r] + 1
        BY DurableQueueAssumption DEF TypeOK
      <3>2. paid \in Nat /\ MaxAttempts * (retries[r] + 1) = paid + MaxAttempts
        BY <3>1, RunStoreAssumption
      <3>3. claims[r] <= paid + job[r].attempts
        BY DEF BudgetInv
      <3> HIDE DEF paid
      <3>4. /\ claims[r] \in Nat /\ job[r].attempts \in Nat /\ job'[r].attempts \in Nat
            /\ job[r].attempts <= MaxAttempts
        BY DEF StoreInv, StoreTypeOK, RowInv, JobRow
      <3>5. claims[r] <= (paid + MaxAttempts) + job'[r].attempts
        BY <3>2, <3>3, <3>4, RunStoreAssumption
      <3>6. QED
        BY <2>1, <3>1, <3>2, <3>5
    <2>2. CASE q # r
      BY <2>2 DEF BudgetInv, TypeOK
    <2>3. QED
      BY <2>1, <2>2
  <1>2. QED
    BY <1>1 DEF BudgetInv

(* Each action of the server keeps the invariant. *)
LEMMA ServerStepInv ==
  ASSUME IInv, NEW r \in Runs, ServerNext(r)
  PROVE  IInv' /\ ServerStep
  <1> USE DEF IInv
  <1>1. job[r] \in JobRow /\ run[r] \in RunStatus /\ RowInv(r)
    BY DEF StoreInv, StoreTypeOK
  <1>2. UNCHANGED <<now, workerVars, crashes>>
    BY DEF ServerNext, Submit, Enqueue, Reject, Resubmit, Cancel, CancelLookup, CancelRun, Read,
           serverVars
  <1>3. WorkerInv'
    BY <1>2 DEF WorkerInv, workerVars
  <1>4. CASE Submit(r)
    <2>1. /\ run' = [run EXCEPT ![r] = "queued"] /\ UNCHANGED <<job, output, claims>>
          /\ job[r].state = "none"
          /\ run[r] \in {"none", "failed", "cancelled"}
          /\ dispatching' = [dispatching EXCEPT ![r] = TRUE]
          /\ UNCHANGED cancelling
      BY <1>4 DEF Submit, CreateRun, RetryRun
    <2>2. StoreInv'
      BY <2>1, JoblessRunInv
    <2>3. \/ UNCHANGED retries
          \/ retries[r] < MaxRetries /\ retries' = [retries EXCEPT ![r] = @ + 1]
      BY <1>4 DEF Submit
    <2>4. retries' \in [Runs -> 0..MaxRetries]
      BY <2>3, DurableQueueAssumption DEF TypeOK
    <2>5. TypeOK'
      BY <1>2, <2>1, <2>2, <2>4 DEF TypeOK, StoreInv, workerVars
    <2>6. DispatchInv'
      BY <2>1 DEF DispatchInv, TypeOK, StoreInv, StoreTypeOK
    <2>7. BudgetInv'
      BY <2>1, <2>2, <2>3, RetryBudget DEF BudgetInv, StoreInv
    <2>8. ServerStep
      BY <2>1, OtherRowsStep DEF OtherRowsStay, RowServed, Open, StoreInv, StoreTypeOK
    <2>9. QED
      BY <1>3, <2>2, <2>5, <2>6, <2>7, <2>8
  <1>5. CASE Enqueue(r)
    <2>1. job[r].state = "none" /\ run[r] \in {"queued", "cancel_requested"}
      BY <1>5 DEF Enqueue, DispatchInv
    <2>2. PICK t \in Stamps : EnqueueJob(r, t)
      BY <1>5 DEF Enqueue
    <2>3. StoreInv'
      BY <2>1, <2>2, StampsNat, EnqueueJobInv
    <2>4. job' = [job EXCEPT ![r] = QueuedJob(t)] /\ UNCHANGED <<run, output, claims>>
      BY <2>1, <2>2 DEF EnqueueJob
    <2>5. /\ dispatching' = [dispatching EXCEPT ![r] = FALSE]
          /\ UNCHANGED <<cancelling, retries>>
      BY <1>5 DEF Enqueue
    <2>6. TypeOK'
      BY <1>2, <2>3, <2>5 DEF TypeOK, StoreInv, workerVars
    <2>7. DispatchInv'
      BY <2>4, <2>5 DEF DispatchInv, TypeOK
    <2>8. BudgetInv'
      <3>1. job[r].attempts = 0 /\ QueuedJob(t).attempts = 0 /\ job \in [Runs -> JobRow]
        BY <1>1, <2>1, StampsNat, QueuedJobRow DEF RowInv, StoreInv, StoreTypeOK
      <3>2. \A q \in Runs : job'[q].attempts = job[q].attempts
        BY <2>4, <3>1
      <3>3. QED
        BY <2>4, <2>5, <3>2 DEF BudgetInv
    <2>9. ServerStep
      BY <2>1, <2>4, OtherRowsStep DEF OtherRowsStay, RowServed, StoreInv, StoreTypeOK
    <2>10. QED
      BY <1>3, <2>3, <2>6, <2>7, <2>8, <2>9
  <1>6. CASE Reject(r)
    <2>1. job[r].state = "none" /\ run[r] \in {"queued", "cancel_requested"}
      BY <1>6 DEF Reject, DispatchInv
    <2>2. /\ run' = [run EXCEPT ![r] = "failed"] /\ UNCHANGED <<job, output, claims>>
          /\ dispatching' = [dispatching EXCEPT ![r] = FALSE]
          /\ UNCHANGED <<cancelling, retries>>
      BY <1>6, <2>1 DEF Reject, FailRun, EndedRun, Active
    <2>3. StoreInv'
      BY <2>1, <2>2, JoblessRunInv
    <2>4. TypeOK' /\ DispatchInv' /\ BudgetInv'
      BY <1>2, <2>2, <2>3
      DEF TypeOK, StoreInv, StoreTypeOK, DispatchInv, BudgetInv, workerVars
    <2>5. ServerStep
      BY <2>1, <2>2, OtherRowsStep DEF OtherRowsStay, RowServed, StoreInv, StoreTypeOK, Active
    <2>6. QED
      BY <1>3, <2>3, <2>4, <2>5
  <1>7. CASE Resubmit(r)
    <2>1. PICK t \in Stamps : RetryTerminal(r, t)
      BY <1>7 DEF Resubmit
    <2>2. StoreInv'
      BY <2>1, StampsNat, RetryTerminalInv
    <2>3. /\ job' = [job EXCEPT ![r] = QueuedJob(t)] /\ run' = [run EXCEPT ![r] = "queued"]
          /\ UNCHANGED <<output, claims, dispatching, cancelling>>
          /\ job[r].state \notin Open /\ job[r].state # "none"
          /\ run[r] \in {"failed", "cancelled"}
          /\ retries[r] < MaxRetries
          /\ retries' = [retries EXCEPT ![r] = @ + 1]
      BY <1>7, <2>1 DEF Resubmit, RetryTerminal, Retriable, Open
    <2>4. retries' \in [Runs -> 0..MaxRetries]
      BY <2>3, DurableQueueAssumption DEF TypeOK
    <2>5. TypeOK'
      BY <1>2, <2>2, <2>3, <2>4 DEF TypeOK, StoreInv, workerVars
    <2>6. DispatchInv'
      BY <2>3 DEF DispatchInv, StoreInv, StoreTypeOK
    <2>7. BudgetInv'
      BY <2>2, <2>3, RetryBudget DEF StoreInv, StoreTypeOK
    <2>8. ServerStep
      BY <2>3, OtherRowsStep DEF OtherRowsStay, RowServed, StoreInv, StoreTypeOK
    <2>9. QED
      BY <1>3, <2>2, <2>5, <2>6, <2>7, <2>8
  <1>8. CASE Cancel(r) \/ Read(r)
    <2>1. UNCHANGED <<dispatching, cancelling, retries>>
      BY <1>8 DEF Cancel, Read, serverVars
    <2>2. StoreInv' /\ QueueStep
      BY <1>8, StampsNat, CancelJobInv, ExpireDeadlineInv DEF Cancel, Read
    <2>3. TypeOK'
      BY <1>2, <2>1, <2>2 DEF TypeOK, StoreInv, workerVars
    <2>4. QED
      BY <1>3, <2>1, <2>2, <2>3, QueueStepInv DEF QueueStep, ServerStep
  <1>9. CASE CancelLookup(r)
    <2>1. /\ cancelling' = [cancelling EXCEPT ![r] = TRUE]
          /\ UNCHANGED <<storeVars, dispatching, retries>>
      BY <1>9 DEF CancelLookup
    <2>2. StoreInv' /\ QueueStep
      BY <2>1, StoreUnchanged
    <2>3. TypeOK'
      BY <1>2, <2>1, <2>2 DEF TypeOK, StoreInv, workerVars
    <2>4. QED
      BY <1>3, <2>1, <2>2, <2>3, QueueStepInv DEF QueueStep, ServerStep
  <1>10. CASE CancelRun(r)
    <2>1. /\ cancelling' = [cancelling EXCEPT ![r] = FALSE]
          /\ UNCHANGED <<job, output, claims, dispatching, retries>>
          /\ run' = [run EXCEPT ![r] = IF @ \in Open THEN "cancel_requested" ELSE @]
          /\ RequestCancellation(r)
      BY <1>10 DEF CancelRun, RequestCancellation
    <2>2. StoreInv'
      BY <2>1, RequestCancellationInv
    <2>3. TypeOK'
      BY <1>2, <2>1, <2>2 DEF TypeOK, StoreInv, workerVars
    <2>4. DispatchInv' /\ BudgetInv'
      BY <2>1 DEF DispatchInv, BudgetInv, StoreInv, StoreTypeOK, Open
    <2>5. ServerStep
      <3>1. CASE run[r] \in Open
        <4>1. run'[r] = "cancel_requested"
          BY <2>1, <3>1 DEF StoreInv, StoreTypeOK
        <4>2. QED
          BY <2>1, <3>1, <4>1, OtherRowsStep DEF OtherRowsStay, RowServed, StoreInv, StoreTypeOK
      <3>2. CASE run[r] \notin Open
        <4>1. run' = run
          BY <2>1, <3>2 DEF StoreInv, StoreTypeOK
        <4>2. QED
          BY <2>1, <4>1 DEF ServerStep, RowStays
      <3>3. QED
        BY <3>1, <3>2
    <2>6. QED
      BY <1>3, <2>2, <2>3, <2>4, <2>5
  <1>11. QED
    BY <1>4, <1>5, <1>6, <1>7, <1>8, <1>9, <1>10 DEF ServerNext

(* A restart recovers the queue and fails the open runs that have no job. *)
LEMMA ServerRestartInv ==
  ASSUME IInv, ServerRestart
  PROVE  IInv' /\ ServerStep
  <1> USE DEF IInv
  <1>1. PICK t \in Stamps : \E S \in SUBSET Recoverable(t) :
          /\ job' = [r \in Runs |-> IF r \in S THEN RecoveredJob(r, t) ELSE job[r]]
          /\ run' = [r \in Runs |-> IF r \in S THEN RecoveredRun(r, t)
                                    ELSE IF r \in StaleRuns THEN EndedRun(run[r], "failed")
                                    ELSE run[r]]
    BY DEF ServerRestart
  <1>2. PICK S \in SUBSET Recoverable(t) :
          /\ job' = [r \in Runs |-> IF r \in S THEN RecoveredJob(r, t) ELSE job[r]]
          /\ run' = [r \in Runs |-> IF r \in S THEN RecoveredRun(r, t)
                                    ELSE IF r \in StaleRuns THEN EndedRun(run[r], "failed")
                                    ELSE run[r]]
    BY <1>1
  <1>3. /\ t \in Nat
        /\ dispatching' = [r \in Runs |-> FALSE]
        /\ cancelling' = [r \in Runs |-> FALSE]
        /\ UNCHANGED <<output, claims, now, workerVars, retries, crashes>>
    BY StampsNat DEF ServerRestart
  <1> DEFINE stale == [r \in Runs |-> IF r \in StaleRuns THEN EndedRun(run[r], "failed") ELSE run[r]]
  <1>4. stale \in [Runs -> RunStatus]
    BY DEF EndedRun, RunStatus, Finished, StoreInv, StoreTypeOK
  <1>5. run' = [r \in Runs |-> IF r \in S THEN RecoveredRun(r, t) ELSE stale[r]]
    BY <1>2
  <1>6. \A r \in Runs : \/ stale[r] = run[r]
                        \/ job[r].state = "none" /\ run[r] \in Active /\ stale[r] = "failed"
    BY DEF StaleRuns, EndedRun
  <1> HIDE DEF stale
  <1>7. StoreTypeOK'
    BY <1>2, <1>3, <1>4, <1>5, RecoverTypeOK
  <1>8. /\ \A r \in S : run'[r] = RecoveredRun(r, t) /\ job'[r] = RecoveredJob(r, t)
        /\ \A r \in Runs \ S : job'[r] = job[r] /\ run'[r] = stale[r]
    BY <1>2, <1>5 DEF Recoverable
  <1>9. /\ StoreInv'
        /\ \A r \in Runs : \/ RowStays(r) \/ RowMoves(r)
                           \/ job[r].state = "none" /\ run'[r] = "failed"
    BY <1>3, <1>6, <1>7, <1>8, RecoverInv
  <1>10. \A r \in S : job[r].state # "none"
    BY DEF Recoverable, LeaseExpired, Open
  <1>11. ASSUME NEW r \in Runs
         PROVE  /\ RowStays(r) \/ RowMoves(r) \/ RowServed(r)
                /\ claims'[r] = claims[r] /\ job'[r].attempts = job[r].attempts
    <2>1. CASE r \in S
      BY <1>3, <1>8, <1>9, <1>10, <2>1, RecoveredRow
    <2>2. CASE r \notin S
      BY <1>3, <1>6, <1>8, <2>2 DEF RowStays, RowServed
    <2>3. QED
      BY <2>1, <2>2
  <1>12. TypeOK' /\ WorkerInv' /\ DispatchInv' /\ BudgetInv'
    BY <1>3, <1>9, <1>11 DEF TypeOK, StoreInv, WorkerInv, DispatchInv, BudgetInv, workerVars
  <1>13. QED
    BY <1>9, <1>11, <1>12 DEF ServerStep

-----------------------------------------------------------------------------
(* The inductive step. *)
LEMMA NextInv ==
  ASSUME IInv, [Next]_vars
  PROVE  IInv' /\ ServerStep
  <1>1. CASE Tick
    <2>1. /\ UNCHANGED <<storeVars, workerVars, serverVars, crashes>>
          /\ now' \in 0..Horizon
      BY <1>1, DurableQueueAssumption DEF Tick, IInv, TypeOK
    <2>2. StoreInv' /\ QueueStep
      BY <2>1, StoreUnchanged DEF IInv
    <2>3. TypeOK' /\ WorkerInv'
      BY <2>1, <2>2 DEF IInv, TypeOK, StoreInv, WorkerInv, workerVars, serverVars
    <2>4. QED
      BY <2>1, <2>2, <2>3, QueueStepInv DEF IInv, QueueStep, ServerStep, serverVars
  <1>2. CASE \E w \in Workers : WorkerNext(w)
    BY <1>2, WorkerStepInv DEF QueueStep, ServerStep
  <1>3. CASE \E r \in Runs : ServerNext(r)
    BY <1>3, ServerStepInv
  <1>4. CASE ServerRestart
    BY <1>4, ServerRestartInv
  <1>5. CASE UNCHANGED vars
    <2>1. StoreInv' /\ QueueStep
      BY <1>5, StoreUnchanged DEF IInv, vars
    <2>2. QED
      BY <1>5, <2>1
      DEF IInv, TypeOK, StoreInv, WorkerInv, DispatchInv, BudgetInv, vars, storeVars, workerVars,
          serverVars, QueueStep, ServerStep
  <1>6. QED
    BY <1>1, <1>2, <1>3, <1>4, <1>5 DEF Next

(* The inductive invariant holds in every reachable state. *)
THEOREM Invariance == Spec => []IInv
  BY InitInv, NextInv, PTL DEF Spec

(* Every variable keeps its type. *)
THEOREM TypeCorrect == Spec => []TypeOK
  <1>1. IInv => TypeOK
    BY DEF IInv
  <1>2. QED
    BY <1>1, Invariance, PTL

(* The run row and the job row never disagree about where a run stands. *)
THEOREM Agreement == Spec => []RunJobAgreement
  <1>1. IInv => RunJobAgreement
    BY DEF IInv, StoreInv, RowInv, RunJobAgreement
  <1>2. QED
    BY <1>1, Invariance, PTL

(* Every path back to the queue leaves an attempt. *)
THEOREM AttemptLeft == Spec => []QueuedJobHasAttempt
  <1>1. IInv => QueuedJobHasAttempt
    BY DEF IInv, StoreInv, RowInv, QueuedJobHasAttempt
  <1>2. QED
    BY <1>1, Invariance, PTL

(* A completed run, and no other, has an output, that of its last claim. *)
THEOREM FencedOutput == Spec => []OutputOfLastClaim
  <1>1. IInv => OutputOfLastClaim
    BY DEF IInv, StoreInv, RowInv, OutputOfLastClaim
  <1>2. QED
    BY <1>1, Invariance, PTL

(* A run is handed out at most max_attempts times per request. *)
THEOREM BoundedAttempts == Spec => []AttemptBudget
  <1>1. ASSUME IInv, NEW r \in Runs
        PROVE  claims[r] <= MaxAttempts * (retries[r] + 1)
    <2> DEFINE paid == MaxAttempts * retries[r]
    <2>1. retries[r] \in Nat
      BY <1>1, DurableQueueAssumption DEF IInv, TypeOK
    <2>2. paid \in Nat /\ MaxAttempts * (retries[r] + 1) = paid + MaxAttempts
      BY <2>1, RunStoreAssumption
    <2>3. claims[r] <= paid + job[r].attempts
      BY <1>1 DEF IInv, BudgetInv
    <2> HIDE DEF paid
    <2>4. claims[r] \in Nat /\ job[r].attempts \in Nat /\ job[r].attempts <= MaxAttempts
      BY <1>1 DEF IInv, StoreInv, StoreTypeOK, RowInv, JobRow
    <2>5. QED
      BY <2>2, <2>3, <2>4, RunStoreAssumption
  <1>2. IInv => AttemptBudget
    BY <1>1 DEF AttemptBudget
  <1>3. QED
    BY <1>2, Invariance, PTL

(* A requested cancellation of a job's run ends it cancelled. *)
THEOREM Cancellation == Spec => CancellationHonoured
  <1>1. ASSUME IInv, [Next]_vars, NEW r \in Runs,
               run[r] = "cancel_requested", job[r].state # "none"
        PROVE  run'[r] \in {"cancel_requested", "cancelled"}
    BY <1>1, NextInv DEF ServerStep, RowStays, RowMoves, RowServed, Open, Active
  <1>2. IInv /\ [Next]_vars =>
          [\A r \in Runs :
             (run[r] = "cancel_requested" /\ job[r].state # "none")
                 => run'[r] \in {"cancel_requested", "cancelled"}]_vars
    BY <1>1
  <1>3. QED
    BY <1>2, Invariance, PTL DEF Spec, CancellationHonoured

-----------------------------------------------------------------------------
(* A good lease is ended by its holder only. *)

(* A late or foreign worker finds that it does not hold the lease. *)
LEMMA FinalizeRespects ==
  ASSUME IInv, NEW w \in Workers, Finalize(w), NEW r \in Runs,
         job[r].state = "running", job'[r].owner # job[r].owner
  PROVE  FinalizedByHolder(r)
  <1> USE DEF IInv
  <1>1. claim[w] \in JobClaim
    BY DEF Finalize, WorkerInv
  <1> DEFINE q == claim[w].run
  <1>2. q \in Runs
    BY <1>1 DEF JobClaim
  <1>3. job' # job /\ pc[w] \in {"complete", "retry", "fail"} /\ pc'[w] = "join"
    BY DEF Finalize, TypeOK
  <1>4. PICK t \in Stamps :
           \/ Complete(q, claim[w].owner, t)
           \/ Fail(q, claim[w].owner, t, TRUE)
           \/ Fail(q, claim[w].owner, t, FALSE)
    BY DEF Finalize
  <1>5. HoldsLease(q, claim[w].owner, t)
    BY <1>3, <1>4 DEF Complete, Fail, ObserveCancellation, StoreOutput, storeVars
  <1>6. \A x \in Runs \ {q} : job'[x] = job[x]
    BY <1>3, <1>4
    DEF Complete, Fail, ObserveCancellation, StoreOutput, Requeue, Transition, storeVars,
        StoreInv, StoreTypeOK
  <1>7. r = q
    BY <1>6
  <1>8. QED
    BY <1>3, <1>5, <1>7 DEF FinalizedByHolder, HoldsLease

(* Every other step leaves the holder of a good lease alone. *)
LEMMA OtherStepsRespect ==
  ASSUME IInv, Next, NEW r \in Runs, job[r].state = "running",
         job[r].lease > now, job[r].deadline > now,
         \A w \in Workers : ~Finalize(w)
  PROVE  job'[r].owner = job[r].owner
  <1> USE DEF IInv
  <1>1. /\ job[r] \in JobRow /\ job \in [Runs -> JobRow]
        /\ \A t \in Stamps : t \in Nat /\ t <= now
        /\ now \in Nat
    BY StampsNat, DurableQueueAssumption DEF StoreInv, StoreTypeOK, TypeOK, Stamps
  <1>2. \A t \in Stamps : r \notin Recoverable(t)
    BY <1>1 DEF Recoverable, LeaseExpired, InTime, JobRow
  <1>3. ASSUME NEW w \in Workers, WorkerNext(w) PROVE job'[r].owner = job[r].owner
    <2>1. CASE WorkerClaim(w)
      BY <1>1, <2>1 DEF WorkerClaim, Claim, Claimable
    <2>2. CASE BeatRenew(w)
      <3>1. PICK t \in Stamps : RenewLease(claim[w].run, claim[w].owner, t)
        BY <2>2 DEF BeatRenew
      <3>2. claim[w].run # r => job'[r] = job[r]
        BY <1>1, <3>1 DEF RenewLease
      <3>3. claim[w].run = r => job' = [job EXCEPT ![r] = [job[r] EXCEPT !.lease = t + LeaseTime]]
        BY <3>1 DEF RenewLease
      <3>4. [job[r] EXCEPT !.lease = t + LeaseTime].owner = job[r].owner
        BY <1>1 DEF JobRow
      <3>5. QED
        BY <1>1, <3>2, <3>3, <3>4
    <2>3. CASE WorkerRecover(w)
      <3>1. PICK t \in Stamps : \E S \in SUBSET Recoverable(t) : Recover(S, t)
        BY <2>3 DEF WorkerRecover
      <3>2. QED
        BY <1>2, <3>1 DEF Recover
    <2>4. CASE UNCHANGED storeVars
      BY <2>4 DEF storeVars
    <2>5. QED
      BY <1>3, <2>1, <2>2, <2>3, <2>4
      DEF WorkerNext, BeatDeadline, BeatLost, FinishCompute, Join, Crash, Restart
  <1>4. ASSUME NEW q \in Runs, ServerNext(q) PROVE job'[r].owner = job[r].owner
    <2>1. CASE Enqueue(q) \/ Resubmit(q)
      BY <1>1, <2>1
      DEF Enqueue, EnqueueJob, Resubmit, RetryTerminal, Retriable, DispatchInv
    <2>2. CASE Cancel(q)
      BY <1>1, <2>2 DEF Cancel, CancelJob, Transition
    <2>3. CASE Read(q)
      BY <1>1, <2>3 DEF Read, ExpireDeadline, InTime, Transition, JobRow
    <2>4. CASE UNCHANGED job
      BY <2>4
    <2>5. QED
      BY <1>4, <2>1, <2>2, <2>3, <2>4
      DEF ServerNext, Submit, CreateRun, RetryRun, Reject, FailRun, CancelLookup, CancelRun,
          RequestCancellation, storeVars
  <1>5. CASE ServerRestart
    BY <1>2, <1>5 DEF ServerRestart
  <1>6. CASE Tick
    BY <1>6 DEF Tick, storeVars
  <1>7. QED
    BY <1>3, <1>4, <1>5, <1>6 DEF Next

(* Only the holder of a good lease ends or releases the job. *)
THEOREM LeaseFencing == Spec => LeaseRespected
  <1> DEFINE Respects == \A r \in Runs :
          (job[r].state = "running" /\ job'[r].owner # job[r].owner)
              => \/ FinalizedByHolder(r)
                 \/ job[r].lease <= now
                 \/ job[r].deadline <= now
  <1>1. ASSUME IInv, Next PROVE Respects
    <2> SUFFICES ASSUME NEW r \in Runs, job[r].state = "running",
                        job'[r].owner # job[r].owner,
                        ~(job[r].lease <= now), ~(job[r].deadline <= now)
                 PROVE  FinalizedByHolder(r)
      OBVIOUS
    <2>1. job[r].lease > now /\ job[r].deadline > now
      BY <1>1, DurableQueueAssumption DEF IInv, StoreInv, StoreTypeOK, TypeOK, JobRow
    <2>2. QED
      BY <1>1, <2>1, FinalizeRespects, OtherStepsRespect
  <1>2. IInv /\ [Next]_vars => [Respects]_vars
    BY <1>1
  <1>3. QED
    BY <1>2, Invariance, PTL DEF Spec, LeaseRespected

-----------------------------------------------------------------------------
(* The durable queue implements the lifecycle of a run: its initial states *)
(* and its steps are initial states and steps of RunLifecycle.             *)
THEOREM Implements == Spec => ImplementsLifecycle
  <1>1. Init => Lifecycle!Init
    BY DEF Init, StoreInit, Lifecycle!Init
  <1>2. IInv /\ [Next]_vars => Lifecycle!Next
    <2> SUFFICES ASSUME IInv, [Next]_vars, NEW r \in Runs
                 PROVE  Lifecycle!Step(r) \/ Lifecycle!Stays(r)
      BY DEF Lifecycle!Next
    <2> USE DEF Lifecycle!Step, Lifecycle!Stays, Lifecycle!Submit, Lifecycle!Start,
            Lifecycle!Requeue, Lifecycle!RequestCancel, Lifecycle!Cancel, Lifecycle!Fail,
            Lifecycle!Complete, Lifecycle!Goes, Lifecycle!Keeps
    <2>1. CASE RowStays(r)
      BY <2>1 DEF RowStays
    <2>2. CASE RowMoves(r)
      BY <2>2 DEF RowMoves, IInv, StoreInv, StoreTypeOK, Open, Active, NoOutput, NoOwner
    <2>3. CASE RowServed(r)
      BY <2>3 DEF RowServed, Open, Active
    <2>4. QED
      BY <2>1, <2>2, <2>3, NextInv DEF ServerStep
  <1>3. QED
    BY <1>1, <1>2, Invariance, PTL DEF Spec, ImplementsLifecycle, Lifecycle!Spec
=============================================================================
