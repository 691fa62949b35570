----------------------- MODULE ExternalDispatchProofs -----------------------
(***************************************************************************)
(* No run is left open without a job and without a request that will end   *)
(* it, unless the call of a request for it threw; and the limit is exceeded by less than the requests that overlap,   *)
(* for any number of runs and of requests racing on them.                  *)
(***************************************************************************)
EXTENDS ExternalDispatch, RunStoreProofs, FiniteSetTheorems

Request == [at : Steps, run : Runs \cup {NoRun}, seen : RunStatus]

(* A request that will insert the job of its run or fail the run: it found *)
(* the run open, or reopened it.  A request that finds the run ended may   *)
(* still leave it to another one.                                          *)
Committed(d) ==
    \/ At(d, "lookup") /\ ~Terminal(d)
    \/ request[d].at \in {"count", "reject", "register"}

OwnerInv ==
    \A r \in Runs :
        (run[r] \in Active /\ job[r].state = "none")
            => r \in stranded \/ \E d \in Dispatchers : RunOf(d) = r /\ Committed(d)

(* Before it gives up for the limit, a request has seen a job. *)
JobSeenInv ==
    \A d \in Dispatchers :
        request[d].at \in {"countJob", "retryJob"} => job[RunOf(d)].state # "none"

BusyInv == \A d \in Dispatchers : request[d].at # "idle" => RunOf(d) \in Runs

IInv == TypeOK /\ OwnerInv /\ JobSeenInv /\ BusyInv

-----------------------------------------------------------------------------
(* What the statements on runs with a job leave alone.                     *)

JoblessStay ==
    \A r \in Runs :
        /\ job[r].state = "none" => job'[r].state = "none" /\ run'[r] = run[r]
        /\ job[r].state # "none" => job'[r].state # "none"

(* Rewriting the rows of a run that has a job. *)
LEMMA JobRowRewritten ==
  ASSUME StoreTypeOK, NEW r \in Runs, job[r].state # "none",
         NEW k \in JobRow, k.state # "none", NEW s \in RunStatus,
         job' = [job EXCEPT ![r] = k], run' = [run EXCEPT ![r] = s],
         output' \in [Runs -> Nat], claims' \in [Runs -> Nat]
  PROVE  StoreTypeOK' /\ JoblessStay
  BY DEF StoreTypeOK, JoblessStay

(* An open job ends, and its run with it unless another request ended it. *)
LEMMA TransitionTyped ==
  ASSUME StoreTypeOK, NEW r \in Runs, NEW final \in Finished,
         job[r].state \in Open, Transition(r, final),
         output' \in [Runs -> Nat], claims' \in [Runs -> Nat]
  PROVE  StoreTypeOK' /\ JoblessStay
  <1> DEFINE k == EndedJob(job[r], final)
  <1> DEFINE s == EndedRun(run[r], final)
  <1>1. job[r] \in JobRow /\ run[r] \in RunStatus
    BY DEF StoreTypeOK
  <1>2. k \in JobRow /\ k.state = final
    BY <1>1, EndedJobRow
  <1>3. s \in RunStatus
    BY <1>1 DEF EndedRun, RunStatus
  <1>4. job' = [job EXCEPT ![r] = k] /\ run' = [run EXCEPT ![r] = s]
    BY DEF Transition
  <1>5. job[r].state # "none" /\ final # "none"
    BY DEF Open, Finished
  <1> HIDE DEF k, s
  <1>6. QED
    BY <1>2, <1>3, <1>4, <1>5, JobRowRewritten

(* A worker's claim. *)
LEMMA ClaimTyped ==
  ASSUME StoreTypeOK, NEW r \in Runs, Claim(r, 0)
  PROVE  StoreTypeOK' /\ JoblessStay
  <1>1. job[r] \in JobRow /\ claims[r] + 1 \in Nat
    BY DEF StoreTypeOK
  <1>2. PICK o \in Nat : o = claims[r] + 1
    BY <1>1
  <1> DEFINE k == Claimed(job[r], o, 0)
  <1>3. k \in JobRow /\ k.state = "running"
    <2>1. 0 \in Nat
      OBVIOUS
    <2>2. QED
      BY <1>1, <2>1, ClaimedRow
  <1>4. /\ job[r].state # "none"
        /\ job' = [job EXCEPT ![r] = k]
        /\ run' = [run EXCEPT ![r] = "running"]
        /\ claims' = [claims EXCEPT ![r] = o]
        /\ output' = output
    BY <1>2 DEF Claim, Claimable
  <1>5. output' \in [Runs -> Nat] /\ claims' \in [Runs -> Nat]
    BY <1>4 DEF StoreTypeOK
  <1>6. "running" \in RunStatus
    BY DEF RunStatus, Active
  <1> HIDE DEF k
  <1>7. QED
    BY <1>3, <1>4, <1>5, <1>6, JobRowRewritten

(* Transactions that write nothing. *)
LEMMA NothingWritten ==
  ASSUME StoreTypeOK, UNCHANGED storeVars
  PROVE  StoreTypeOK' /\ JoblessStay
  BY DEF StoreTypeOK, JoblessStay, storeVars

(* The worker's last transaction finds that cancellation was requested. *)
LEMMA ObserveCancellationTyped ==
  ASSUME StoreTypeOK, NEW r \in Runs, NEW owner \in Nat, ObserveCancellation(r, owner, 0)
  PROVE  StoreTypeOK' /\ JoblessStay
  <1>1. /\ job[r].state \in Open
        /\ Transition(r, "cancelled")
        /\ UNCHANGED <<output, claims>>
    BY DEF ObserveCancellation, HoldsLease, Open
  <1>2. output' \in [Runs -> Nat] /\ claims' \in [Runs -> Nat]
    BY <1>1 DEF StoreTypeOK
  <1>3. QED
    BY <1>1, <1>2, TransitionTyped DEF Finished

(* A worker's complete. *)
LEMMA CompleteTyped ==
  ASSUME StoreTypeOK, NEW r \in Runs, Complete(r, claims[r], 0)
  PROVE  StoreTypeOK' /\ JoblessStay
  <1>1. claims[r] \in Nat
    BY DEF StoreTypeOK
  <1>2. CASE ObserveCancellation(r, claims[r], 0)
    BY <1>1, <1>2, ObserveCancellationTyped
  <1>3. CASE StoreOutput(r, claims[r], 0)
    <2>1. /\ job[r].state \in Open
          /\ Transition(r, "completed")
          /\ output' = [output EXCEPT ![r] = claims[r]]
          /\ claims' = claims
      BY <1>3 DEF StoreOutput, HoldsLease, Open
    <2>2. output' \in [Runs -> Nat] /\ claims' \in [Runs -> Nat]
      BY <1>1, <2>1 DEF StoreTypeOK
    <2>3. QED
      BY <2>1, <2>2, TransitionTyped DEF Finished
  <1>4. CASE UNCHANGED storeVars
    BY <1>4, NothingWritten
  <1>5. QED
    BY <1>2, <1>3, <1>4 DEF Complete

(* A worker's fail. *)
LEMMA FailTyped ==
  ASSUME StoreTypeOK, NEW r \in Runs, NEW retryable \in BOOLEAN, Fail(r, claims[r], 0, retryable)
  PROVE  StoreTypeOK' /\ JoblessStay
  <1>1. claims[r] \in Nat /\ job[r] \in JobRow /\ run[r] \in RunStatus
    BY DEF StoreTypeOK
  <1>2. CASE ObserveCancellation(r, claims[r], 0)
    BY <1>1, <1>2, ObserveCancellationTyped
  <1>3. CASE /\ HoldsLease(r, claims[r], 0)
             /\ UNCHANGED <<output, claims>>
             /\ \/ Requeue(r, 0 + RetryDelay)
                \/ Transition(r, "failed")
    <2>1. job[r].state \in Open /\ job[r].state # "none"
      BY <1>3 DEF HoldsLease, Open
    <2>2. output' \in [Runs -> Nat] /\ claims' \in [Runs -> Nat]
      BY <1>3 DEF StoreTypeOK
    <2>3. CASE Transition(r, "failed")
      BY <2>1, <2>2, <2>3, TransitionTyped DEF Finished
    <2>4. CASE Requeue(r, 0 + RetryDelay)
      <3> DEFINE k == Requeued(job[r], 0 + RetryDelay)
      <3> DEFINE s == IF run[r] = "running" THEN "queued" ELSE run[r]
      <3>1. k \in JobRow /\ k.state # "none"
        BY <1>1, RunStoreAssumption, RequeuedRow
      <3>2. s \in RunStatus
        BY <1>1 DEF RunStatus, Active
      <3>3. job' = [job EXCEPT ![r] = k] /\ run' = [run EXCEPT ![r] = s]
        BY <2>4 DEF Requeue
      <3> HIDE DEF k, s
      <3>4. QED
        BY <2>1, <2>2, <3>1, <3>2, <3>3, JobRowRewritten
    <2>5. QED
      BY <1>3, <2>3, <2>4
  <1>4. CASE UNCHANGED storeVars
    BY <1>4, NothingWritten
  <1>5. QED
    BY <1>2, <1>3, <1>4 DEF Fail

(* A cancel that finds a job. *)
LEMMA CancelJobTyped ==
  ASSUME StoreTypeOK, NEW r \in Runs, CancelJob(r)
  PROVE  StoreTypeOK' /\ JoblessStay
  <1>1. output' \in [Runs -> Nat] /\ claims' \in [Runs -> Nat]
    BY DEF CancelJob, StoreTypeOK
  <1>2. CASE job[r].state = "queued" /\ Transition(r, "cancelled")
    BY <1>1, <1>2, TransitionTyped DEF Open, Finished
  <1>3. CASE /\ job[r].state = "running"
             /\ run' = [run EXCEPT ![r] = IF @ = "running" THEN "cancel_requested" ELSE @]
             /\ UNCHANGED job
    BY <1>1, <1>3 DEF StoreTypeOK, JoblessStay, RunStatus, Active
  <1>4. QED
    BY <1>2, <1>3 DEF CancelJob

-----------------------------------------------------------------------------
(* The inductive invariant.                                                *)

(* Nothing is under way at the start. *)
LEMMA InitInv == Init => IInv
  <1> SUFFICES ASSUME Init PROVE IInv
    OBVIOUS
  <1>1. StoreTypeOK
    BY StoreInitInv DEF Init, StoreInv
  <1>2. TypeOK
    BY <1>1 DEF Init, TypeOK, IdleRequest, Steps, RunStatus
  <1>3. OwnerInv /\ JobSeenInv /\ BusyInv
    BY DEF Init, StoreInit, OwnerInv, JobSeenInv, BusyInv, IdleRequest, Active
  <1>4. QED
    BY <1>2, <1>3 DEF IInv

(* A step of a worker or a cancel of a run that has a job. *)
LEMMA JoblessStayInv ==
  ASSUME IInv, StoreTypeOK', JoblessStay, UNCHANGED <<request, others>>
  PROVE  IInv'
  <1>1. TypeOK'
    BY DEF IInv, TypeOK, others
  <1>2. OwnerInv'
    BY DEF IInv, OwnerInv, JoblessStay, Committed, At, RunOf, Terminal, others
  <1>3. JobSeenInv' /\ BusyInv'
    <2>1. ASSUME NEW d \in Dispatchers, request[d].at \in {"countJob", "retryJob"}
          PROVE  job'[RunOf(d)].state # "none"
      BY <2>1 DEF IInv, JobSeenInv, BusyInv, JoblessStay
    <2>2. QED
      BY <2>1 DEF JobSeenInv, BusyInv, RunOf, IInv
  <1>4. QED
    BY <1>1, <1>2, <1>3 DEF IInv

(* One request moves on: the others keep what they are committed to.       *)
LEMMA RequestMoves ==
  ASSUME TypeOK, NEW d \in Dispatchers, NEW q \in Request,
         request' = [request EXCEPT ![d] = q]
  PROVE  /\ request' \in [Dispatchers -> Request]
         /\ request'[d] = q
         /\ \A e \in Dispatchers \ {d} : request'[e] = request[e]
  BY DEF TypeOK, Request

(* A step of one request.  It loses no job, and what it was committed to   *)
(* it keeps, unless the run has its job or is over.                        *)
LEMMA RequestStepInv ==
  ASSUME IInv, StoreTypeOK', UNCHANGED others,
         NEW d \in Dispatchers, NEW q \in Request,
         request' = [request EXCEPT ![d] = q],
         q.at # "idle" => q.run \in Runs,
         q.at \in {"countJob", "retryJob"} => job'[q.run].state # "none",
         \A r \in Runs : job[r].state # "none" => job'[r].state # "none",
         \A r \in Runs :
            (run'[r] \in Active /\ job'[r].state = "none")
                => \/ run[r] \in Active
                   \/ q.run = r /\ q.at \in {"count", "reject", "register"},
         Committed(d) => \/ q.run = RunOf(d) /\ q.at \in {"count", "reject", "register"}
                         \/ job'[RunOf(d)].state # "none"
                         \/ run'[RunOf(d)] \notin Active
  PROVE  IInv'
  <1>1. /\ request' \in [Dispatchers -> Request]
        /\ request'[d] = q
        /\ \A e \in Dispatchers \ {d} : request'[e] = request[e]
    BY RequestMoves DEF IInv
  <1>2. TypeOK'
    BY <1>1 DEF IInv, TypeOK, others, Request
  <1>3. BusyInv'
    BY <1>1 DEF IInv, BusyInv, RunOf
  <1>4. ASSUME NEW e \in Dispatchers, request'[e].at \in {"countJob", "retryJob"}
        PROVE  job'[request'[e].run].state # "none"
    <2>1. CASE e = d
      BY <1>1, <1>4, <2>1
    <2>2. CASE e # d
      BY <1>1, <1>4, <2>2 DEF IInv, BusyInv, JobSeenInv, RunOf
    <2>3. QED
      BY <2>1, <2>2
  <1>5. ASSUME NEW r \in Runs, run'[r] \in Active, job'[r].state = "none"
        PROVE  r \in stranded' \/ \E e \in Dispatchers : (RunOf(e) = r /\ Committed(e))'
    <2>1. CASE q.run = r /\ q.at \in {"count", "reject", "register"}
      BY <1>1, <2>1 DEF Committed, RunOf
    <2>2. CASE ~(q.run = r /\ q.at \in {"count", "reject", "register"})
      <3>1. run[r] \in Active /\ job[r].state = "none"
        BY <1>5, <2>2
      <3>2. r \in stranded \/ \E e \in Dispatchers : RunOf(e) = r /\ Committed(e)
        BY <3>1 DEF IInv, OwnerInv
      <3>3. ASSUME NEW e \in Dispatchers, RunOf(e) = r /\ Committed(e)
            PROVE  (RunOf(e) = r /\ Committed(e))'
        <4>1. e # d
          BY <1>5, <2>2, <3>3
        <4>2. QED
          BY <1>1, <3>3, <4>1 DEF Committed, RunOf, At, Terminal
      <3>4. QED
        BY <3>2, <3>3 DEF others
    <2>3. QED
      BY <2>1, <2>2
  <1>6. QED
    BY <1>2, <1>3, <1>4, <1>5 DEF IInv, OwnerInv, JobSeenInv, RunOf

(* The step a request goes to, with the run it is about, or its return. *)
LEMMA RequestGoes ==
  ASSUME IInv, NEW d \in Dispatchers, ~At(d, "idle")
  PROVE  /\ RunOf(d) \in Runs
         /\ IdleRequest \in Request
         /\ \A step \in Steps : /\ [request[d] EXCEPT !.at = step] \in Request
                                /\ [request[d] EXCEPT !.at = step].at = step
                                /\ [request[d] EXCEPT !.at = step].run = RunOf(d)
  <1>1. request[d] \in Request /\ RunOf(d) \in Runs
    BY DEF IInv, TypeOK, BusyInv, At, Request
  <1>2. QED
    BY <1>1 DEF Request, IdleRequest, Steps, RunStatus, RunOf

(* A step of a request that writes no run and no job: it moves on, or      *)
(* returns when it is not committed or its run has a job.                  *)
LEMMA ReadOnlyInv ==
  ASSUME IInv, NEW d \in Dispatchers, ~At(d, "idle"), UNCHANGED <<storeVars, others>>,
         \/ \E step \in {"count", "reject", "register", "countJob", "retryJob", "retryRun"} :
               /\ Goes(d, step)
               /\ step \in {"countJob", "retryJob"} => job[RunOf(d)].state # "none"
               /\ step \in {"countJob", "retryJob", "retryRun"} => ~Committed(d)
         \/ Returns(d) /\ (Committed(d) => job[RunOf(d)].state # "none")
  PROVE  IInv'
  <1>1. /\ StoreTypeOK'
        /\ job' = job /\ run' = run
        /\ UNCHANGED others
    BY DEF IInv, TypeOK, StoreTypeOK, storeVars
  <1>2. CASE \E step \in {"count", "reject", "register", "countJob", "retryJob", "retryRun"} :
               /\ Goes(d, step)
               /\ step \in {"countJob", "retryJob"} => job[RunOf(d)].state # "none"
               /\ step \in {"countJob", "retryJob", "retryRun"} => ~Committed(d)
    <2>1. PICK step \in {"count", "reject", "register", "countJob", "retryJob", "retryRun"} :
               /\ Goes(d, step)
               /\ step \in {"countJob", "retryJob"} => job[RunOf(d)].state # "none"
               /\ step \in {"countJob", "retryJob", "retryRun"} => ~Committed(d)
      BY <1>2
    <2> DEFINE q == [request[d] EXCEPT !.at = step]
    <2>2. step \in Steps
      BY DEF Steps
    <2>3. q \in Request /\ q.at = step /\ q.run = RunOf(d) /\ RunOf(d) \in Runs
      BY <2>2, RequestGoes
    <2>4. request' = [request EXCEPT ![d] = q]
      BY <2>1 DEF Goes
    <2> HIDE DEF q
    <2>5. QED
      BY <1>1, <2>1, <2>3, <2>4, RequestStepInv
  <1>3. CASE Returns(d) /\ (Committed(d) => job[RunOf(d)].state # "none")
    <2>1. IdleRequest \in Request /\ IdleRequest.at = "idle"
      BY RequestGoes DEF IdleRequest
    <2>2. request' = [request EXCEPT ![d] = IdleRequest]
      BY <1>3 DEF Returns
    <2>3. QED
      BY <1>1, <1>3, <2>1, <2>2, RequestStepInv
  <1>4. QED
    BY <1>2, <1>3

(* create: a run that is open, new or not, has this request committed. *)
LEMMA CreateInv ==
  ASSUME IInv, NEW d \in Dispatchers, NEW r \in Runs, Create(d, r)
  PROVE  IInv'
  <1> DEFINE q == [at |-> "lookup", run |-> r, seen |-> run'[r]]
  <1>1. /\ run' \in [Runs -> RunStatus]
        /\ \A p \in Runs : p # r => run'[p] = run[p]
        /\ run'[r] = IF run[r] = "none" THEN "queued" ELSE run[r]
        /\ UNCHANGED <<job, output, claims>>
    BY DEF Create, CreateRun, IInv, TypeOK, StoreTypeOK, storeVars, RunStatus, Active
  <1>2. q \in Request
    BY <1>1 DEF Steps, Request
  <1>3. request' = [request EXCEPT ![d] = q]
    BY DEF Create
  <1> HIDE DEF q
  <1>4. /\ request' \in [Dispatchers -> Request]
        /\ request'[d] = q
        /\ \A e \in Dispatchers \ {d} : request'[e] = request[e]
    BY <1>2, <1>3, RequestMoves DEF IInv
  <1>5. q.at = "lookup" /\ q.run = r /\ q.seen = run'[r]
    BY DEF q
  <1>6. TypeOK'
    BY <1>1, <1>4 DEF IInv, TypeOK, StoreTypeOK, Create, Request
  <1>7. BusyInv' /\ JobSeenInv'
    BY <1>1, <1>4, <1>5 DEF IInv, BusyInv, JobSeenInv, RunOf
  <1>8. ASSUME NEW p \in Runs, run'[p] \in Active, job'[p].state = "none"
        PROVE  p \in stranded' \/ \E e \in Dispatchers : (RunOf(e) = p /\ Committed(e))'
    <2>1. CASE p = r
      <3>1. (RunOf(d) = p /\ Committed(d))'
        BY <1>4, <1>5, <1>8, <2>1 DEF RunOf, Committed, At, Terminal, Active
      <3>2. QED
        BY <3>1
    <2>2. CASE p # r
      <3>1. p \in stranded \/ \E e \in Dispatchers : RunOf(e) = p /\ Committed(e)
        BY <1>1, <1>8, <2>2 DEF IInv, OwnerInv
      <3>2. ASSUME NEW e \in Dispatchers, RunOf(e) = p /\ Committed(e)
            PROVE  (RunOf(e) = p /\ Committed(e))'
        <4>1. e # d
          BY <3>2 DEF Create, Committed, At
        <4>2. QED
          BY <1>4, <3>2, <4>1 DEF RunOf, Committed, At, Terminal
      <3>3. CASE p \in stranded
        BY <2>2, <3>3 DEF Create
      <3>4. QED
        BY <3>1, <3>2, <3>3
    <2>3. QED
      BY <2>1, <2>2
  <1>9. QED
    BY <1>6, <1>7, <1>8 DEF IInv, OwnerInv

(* Looking for the job. *)
LEMMA LookupInv ==
  ASSUME IInv, NEW d \in Dispatchers, Lookup(d)
  PROVE  IInv'
  <1>1. ~At(d, "idle") /\ UNCHANGED <<storeVars, others>>
    BY DEF Lookup, At
  <1>2. CASE Goes(d, "retryRun") /\ Terminal(d)
    BY <1>1, <1>2, ReadOnlyInv DEF Lookup, At, Committed
  <1>3. CASE Goes(d, "count")
    BY <1>1, <1>3, ReadOnlyInv
  <1>4. CASE Goes(d, "countJob") /\ Terminal(d) /\ job[RunOf(d)].state # "none"
    BY <1>1, <1>4, ReadOnlyInv DEF Lookup, At, Committed
  <1>5. CASE Returns(d) /\ job[RunOf(d)].state # "none"
    BY <1>1, <1>5, ReadOnlyInv
  <1>6. QED
    BY <1>2, <1>3, <1>4, <1>5 DEF Lookup

(* Both counts. *)
LEMMA CountInv ==
  ASSUME IInv, NEW d \in Dispatchers, CountForJob(d) \/ Count(d)
  PROVE  IInv'
  <1>1. ~At(d, "idle") /\ UNCHANGED <<storeVars, others>>
    BY DEF CountForJob, Count, At
  <1>2. CASE CountForJob(d)
    <2>1. job[RunOf(d)].state # "none" /\ ~Committed(d)
      BY <1>2 DEF CountForJob, At, Committed, IInv, JobSeenInv
    <2>2. Goes(d, "retryJob") \/ Returns(d)
      BY <1>2 DEF CountForJob
    <2>3. QED
      BY <1>1, <2>1, <2>2, ReadOnlyInv
  <1>3. CASE Count(d)
    <2>1. Goes(d, "reject") \/ Goes(d, "register")
      BY <1>3 DEF Count
    <2>2. QED
      BY <1>1, <2>1, ReadOnlyInv
  <1>4. QED
    BY <1>2, <1>3

(* A retry keeps the job there is. *)
LEMMA RetryJobInv ==
  ASSUME IInv, NEW d \in Dispatchers, RetryJob(d)
  PROVE  IInv'
  <1>1. ~At(d, "idle") /\ ~Committed(d) /\ Returns(d) /\ UNCHANGED others
    BY DEF RetryJob, At, Committed
  <1>2. CASE UNCHANGED storeVars
    BY <1>1, <1>2, ReadOnlyInv
  <1>3. CASE RetryTerminal(RunOf(d), 0)
    <2>1. /\ RunOf(d) \in Runs
          /\ IdleRequest \in Request
          /\ IdleRequest.at = "idle"
      BY <1>1, RequestGoes DEF IdleRequest
    <2>2. PICK k \in JobRow : k = QueuedJob(0) /\ k.state = "queued"
      BY QueuedJobRow
    <2>3. /\ job' = [job EXCEPT ![RunOf(d)] = k]
          /\ run' = [run EXCEPT ![RunOf(d)] = "queued"]
          /\ UNCHANGED <<output, claims>>
          /\ job[RunOf(d)].state # "none"
      BY <1>3, <2>2 DEF RetryTerminal, Retriable
    <2>4. StoreTypeOK' /\ JoblessStay
      <3>1. StoreTypeOK /\ output' \in [Runs -> Nat] /\ claims' \in [Runs -> Nat]
        BY <2>3 DEF IInv, TypeOK, StoreTypeOK
      <3>2. "queued" \in RunStatus
        BY DEF RunStatus, Active
      <3>3. QED
        BY <2>1, <2>2, <2>3, <3>1, <3>2, JobRowRewritten
    <2>5. request' = [request EXCEPT ![d] = IdleRequest]
      BY <1>1 DEF Returns
    <2>6. \A r \in Runs :
             /\ job[r].state # "none" => job'[r].state # "none"
             /\ (run'[r] \in Active /\ job'[r].state = "none") => run[r] \in Active
      BY <2>4 DEF JoblessStay
    <2>7. QED
      BY <1>1, <2>1, <2>4, <2>5, <2>6, RequestStepInv
  <1>4. QED
    BY <1>2, <1>3 DEF RetryJob

(* The request that reopens the run row is the one committed to it. *)
LEMMA RetryRunRowInv ==
  ASSUME IInv, NEW d \in Dispatchers, RetryRunRow(d)
  PROVE  IInv'
  <1>1. ~At(d, "idle") /\ ~Committed(d) /\ UNCHANGED others
    BY DEF RetryRunRow, At, Committed
  <1>2. CASE UNCHANGED storeVars /\ Returns(d)
    BY <1>1, <1>2, ReadOnlyInv
  <1>3. CASE RetryRun(RunOf(d)) /\ Goes(d, "count")
    <2> DEFINE q == [request[d] EXCEPT !.at = "count"]
    <2>1. q \in Request /\ q.at = "count" /\ q.run = RunOf(d) /\ RunOf(d) \in Runs
      BY <1>1, RequestGoes DEF Steps
    <2>2. request' = [request EXCEPT ![d] = q]
      BY <1>3 DEF Goes
    <2> HIDE DEF q
    <2>3. StoreTypeOK'
      BY <1>3, <2>1 DEF IInv, TypeOK, StoreTypeOK, RetryRun, RunStatus, Active
    <2>4. /\ job' = job
          /\ \A r \in Runs : r # RunOf(d) => run'[r] = run[r]
      BY <1>3 DEF RetryRun, IInv, TypeOK, StoreTypeOK
    <2>5. QED
      BY <1>1, <2>1, <2>2, <2>3, <2>4, RequestStepInv
  <1>4. QED
    BY <1>2, <1>3 DEF RetryRunRow

(* A rejected request ends its run. *)
LEMMA RejectInv ==
  ASSUME IInv, NEW d \in Dispatchers, Reject(d)
  PROVE  IInv'
  <1>1. ~At(d, "idle") /\ Returns(d) /\ FailRun(RunOf(d)) /\ UNCHANGED others
    BY DEF Reject, At
  <1>2. /\ RunOf(d) \in Runs
        /\ IdleRequest \in Request
        /\ IdleRequest.at = "idle"
    BY <1>1, RequestGoes DEF IdleRequest
  <1>3. request' = [request EXCEPT ![d] = IdleRequest]
    BY <1>1 DEF Returns
  <1>4. /\ StoreTypeOK'
        /\ job' = job
        /\ run'[RunOf(d)] \notin Active
        /\ \A r \in Runs : run'[r] \in Active => run[r] \in Active
    BY <1>1, <1>2 DEF IInv, TypeOK, StoreTypeOK, FailRun, EndedRun, RunStatus, Active,
               Finished
  <1>5. QED
    BY <1>1, <1>2, <1>3, <1>4, RequestStepInv

(* The job is inserted, or the request goes on to fail the run. *)
LEMMA RegisterInv ==
  ASSUME IInv, NEW d \in Dispatchers, Register(d)
  PROVE  IInv'
  <1>1. ~At(d, "idle") /\ UNCHANGED others
    BY DEF Register, At
  <1>2. CASE UNCHANGED storeVars /\ Goes(d, "reject")
    BY <1>1, <1>2, ReadOnlyInv
  <1>3. CASE EnqueueJob(RunOf(d), 0) /\ Returns(d)
    <2>1. /\ RunOf(d) \in Runs
          /\ IdleRequest \in Request
          /\ IdleRequest.at = "idle"
      BY <1>1, RequestGoes DEF IdleRequest
    <2>2. request' = [request EXCEPT ![d] = IdleRequest]
      BY <1>3 DEF Returns
    <2>3. PICK k \in JobRow : k = QueuedJob(0) /\ k.state = "queued"
      BY QueuedJobRow
    <2>4. /\ job' = [job EXCEPT ![RunOf(d)] =
                        IF job[RunOf(d)].state = "none" THEN k ELSE job[RunOf(d)]]
          /\ UNCHANGED <<run, output, claims>>
      BY <1>3, <2>3 DEF EnqueueJob
    <2>5. /\ StoreTypeOK'
          /\ run' = run
          /\ job'[RunOf(d)].state # "none"
          /\ \A r \in Runs : job[r].state # "none" => job'[r].state # "none"
      BY <2>1, <2>3, <2>4 DEF IInv, TypeOK, StoreTypeOK
    <2>6. QED
      BY <1>1, <2>1, <2>2, <2>5, RequestStepInv
  <1>4. QED
    BY <1>2, <1>3 DEF Register

(* A call throws: the run it leaves open is stranded. *)
LEMMA ThrowsInv ==
  ASSUME IInv, NEW d \in Dispatchers, Throws(d)
  PROVE  IInv'
  <1>1. /\ ~At(d, "idle") /\ UNCHANGED <<storeVars, cancelling, overlapped>>
        /\ request' = [request EXCEPT ![d] = IdleRequest]
        /\ stranded' = stranded \cup {r \in {RunOf(d)} : run[r] \in Active /\ job[r].state = "none"}
    BY DEF Throws, At, Returns
  <1>2. RunOf(d) \in Runs /\ IdleRequest \in Request /\ IdleRequest.at = "idle"
    BY <1>1, RequestGoes DEF IdleRequest
  <1>3. /\ request' \in [Dispatchers -> Request]
        /\ request'[d] = IdleRequest
        /\ \A e \in Dispatchers \ {d} : request'[e] = request[e]
    BY <1>1, <1>2, RequestMoves DEF IInv
  <1>4. StoreTypeOK' /\ job' = job /\ run' = run
    BY <1>1 DEF IInv, TypeOK, StoreTypeOK, storeVars
  <1>5. TypeOK'
    BY <1>1, <1>2, <1>3, <1>4 DEF IInv, TypeOK, Request
  <1>6. JobSeenInv' /\ BusyInv'
    BY <1>2, <1>3, <1>4 DEF IInv, JobSeenInv, BusyInv, RunOf
  <1>7. ASSUME NEW r \in Runs, run'[r] \in Active, job'[r].state = "none"
        PROVE  r \in stranded' \/ \E e \in Dispatchers : (RunOf(e) = r /\ Committed(e))'
    <2>1. CASE RunOf(d) = r \/ r \in stranded
      BY <1>1, <1>4, <1>7, <2>1
    <2>2. CASE RunOf(d) # r /\ r \notin stranded
      <3>1. PICK e \in Dispatchers : RunOf(e) = r /\ Committed(e)
        BY <1>4, <1>7, <2>2 DEF IInv, OwnerInv
      <3>2. QED
        BY <1>3, <2>2, <3>1 DEF Committed, RunOf, At, Terminal
    <2>3. QED
      BY <2>1, <2>2
  <1>8. QED
    BY <1>5, <1>6, <1>7 DEF IInv, OwnerInv

(* Cancelling, with a job or without. *)
LEMMA CancelInv ==
  ASSUME IInv, NEW r \in Runs, Cancel(r) \/ CancelRun(r)
  PROVE  IInv'
  <1>1. CASE CancelJob(r) /\ UNCHANGED <<request, others>>
    BY <1>1, CancelJobTyped, JoblessStayInv DEF IInv, TypeOK
  <1>2. CASE /\ cancelling' = [cancelling EXCEPT ![r] = TRUE]
             /\ UNCHANGED <<storeVars, request, overlapped, stranded>>
    BY <1>2 DEF IInv, TypeOK, StoreTypeOK, OwnerInv, JobSeenInv, BusyInv, Committed, RunOf, At,
                Terminal, storeVars
  <1>3. CASE CancelRun(r)
    <2>1. /\ UNCHANGED <<job, output, claims, request, overlapped, stranded>>
          /\ cancelling' \in [Runs -> BOOLEAN]
          /\ run' \in [Runs -> RunStatus]
          /\ \A p \in Runs : run'[p] \in Active => run[p] \in Active
      BY <1>3 DEF CancelRun, RequestCancellation, IInv, TypeOK, StoreTypeOK, RunStatus, Active, Open
    <2>2. TypeOK'
      BY <2>1 DEF IInv, TypeOK, StoreTypeOK
    <2>3. OwnerInv' /\ JobSeenInv' /\ BusyInv'
      BY <2>1 DEF IInv, OwnerInv, JobSeenInv, BusyInv, Committed, RunOf, At, Terminal
    <2>4. QED
      BY <2>2, <2>3 DEF IInv
  <1>4. QED
    BY <1>1, <1>2, <1>3 DEF Cancel

(* The workers see only runs that have a job. *)
LEMMA WorkInv ==
  ASSUME IInv, NEW r \in Runs, Work(r)
  PROVE  IInv'
  <1>1. StoreTypeOK /\ UNCHANGED <<request, others>>
    BY DEF Work, IInv, TypeOK
  <1>2. CASE Claim(r, 0)
    BY <1>1, <1>2, ClaimTyped, JoblessStayInv
  <1>3. CASE Complete(r, claims[r], 0)
    BY <1>1, <1>3, CompleteTyped, JoblessStayInv
  <1>4. CASE \E retryable \in BOOLEAN : Fail(r, claims[r], 0, retryable)
    BY <1>1, <1>4, FailTyped, JoblessStayInv
  <1>5. QED
    BY <1>2, <1>3, <1>4 DEF Work

(* A restart forgets the requests, and fails the runs only they would end. *)
LEMMA ServerRestartInv ==
  ASSUME IInv, ServerRestart
  PROVE  IInv'
  <1>1. /\ job' = job
        /\ run' \in [Runs -> RunStatus]
        /\ \A r \in Runs : job[r].state = "none" => run'[r] \notin Active
    BY DEF ServerRestart, EndedRun, IInv, TypeOK, StoreTypeOK, RunStatus, Active, Finished
  <1>2. TypeOK'
    BY <1>1 DEF ServerRestart, IInv, TypeOK, StoreTypeOK, IdleRequest, Steps, RunStatus
  <1>3. OwnerInv' /\ JobSeenInv' /\ BusyInv'
    BY <1>1 DEF ServerRestart, OwnerInv, JobSeenInv, BusyInv, IdleRequest
  <1>4. QED
    BY <1>2, <1>3 DEF IInv

(* Every step keeps the invariant. *)
LEMMA NextInv == IInv /\ [Next]_vars => IInv'
  <1> SUFFICES ASSUME IInv, [Next]_vars PROVE IInv'
    OBVIOUS
  <1>1. ASSUME NEW d \in Dispatchers, NEW r \in Runs, Create(d, r) PROVE IInv'
    BY <1>1, CreateInv
  <1>2. ASSUME NEW d \in Dispatchers, Lookup(d) PROVE IInv'
    BY <1>2, LookupInv
  <1>3. ASSUME NEW d \in Dispatchers, CountForJob(d) \/ Count(d) PROVE IInv'
    BY <1>3, CountInv
  <1>4. ASSUME NEW d \in Dispatchers, RetryJob(d) PROVE IInv'
    BY <1>4, RetryJobInv
  <1>5. ASSUME NEW d \in Dispatchers, RetryRunRow(d) PROVE IInv'
    BY <1>5, RetryRunRowInv
  <1>6. ASSUME NEW d \in Dispatchers, Reject(d) PROVE IInv'
    BY <1>6, RejectInv
  <1>7. ASSUME NEW d \in Dispatchers, Register(d) PROVE IInv'
    BY <1>7, RegisterInv
  <1>8. ASSUME NEW r \in Runs, Cancel(r) \/ CancelRun(r) PROVE IInv'
    BY <1>8, CancelInv
  <1>9. ASSUME NEW r \in Runs, Work(r) PROVE IInv'
    BY <1>9, WorkInv
  <1>10. CASE ServerRestart
    BY <1>10, ServerRestartInv
  <1>11. CASE UNCHANGED vars
    BY <1>11 DEF vars, storeVars, IInv, TypeOK, StoreTypeOK, OwnerInv, JobSeenInv, BusyInv,
                 Committed, RunOf, At, Terminal
  <1>12. ASSUME NEW d \in Dispatchers, Throws(d) PROVE IInv'
    BY <1>12, ThrowsInv
  <1>13. QED
    BY <1>1, <1>2, <1>3, <1>4, <1>5, <1>6, <1>7, <1>8, <1>9, <1>10, <1>11, <1>12 DEF Next

-----------------------------------------------------------------------------
(* The theorems.                                                           *)

(* Every row and every request keeps its type, however they interleave. *)
THEOREM DispatchTypeCorrect == Spec => []TypeOK
  <1>1. Init => IInv
    BY InitInv
  <1>2. IInv /\ [Next]_vars => IInv'
    BY NextInv
  <1>3. IInv => TypeOK
    BY DEF IInv
  <1>4. QED
    BY <1>1, <1>2, <1>3, PTL DEF Spec

(* Whatever the requests, the cancels, the workers and the restarts do to  *)
(* each other, an open run without a job is always some request's to       *)
(* register or to fail, unless the call of a request for it threw and      *)
(* nobody has asked for it since.                                          *)
THEOREM NoRunAbandoned == Spec => []OpenRunHasOwner
  <1>1. Init => IInv
    BY InitInv
  <1>2. IInv /\ [Next]_vars => IInv'
    BY NextInv
  <1>3. IInv => OpenRunHasOwner
    BY DEF IInv, OwnerInv, OpenRunHasOwner
  <1>4. QED
    BY <1>1, <1>2, <1>3, PTL DEF Spec

-----------------------------------------------------------------------------
(* The limit.  A request that has passed its count will add one open job:  *)
(* the open jobs and those requests together stay near the limit, because  *)
(* each of them was counted when the open jobs were below it.              *)

Pending == {d \in Dispatchers : request[d].at \in {"retryJob", "register"}}

ActiveRuns == {r \in Runs : run[r] \in Active}

OneRequestEach ==
    \A d, e \in Dispatchers : ~At(d, "idle") /\ ~At(e, "idle") /\ RunOf(d) = RunOf(e) => d = e

(* The run of a request that found no job has none yet, and is open once   *)
(* the request is committed to it.                                         *)
Unregistered(d) ==
    /\ request[d].at \in {"retryRun", "count", "reject", "register"} => job[RunOf(d)].state = "none"
    /\ \/ request[d].at \in {"count", "reject", "register"}
       \/ At(d, "lookup") /\ ~Terminal(d) /\ job[RunOf(d)].state = "none"
       => run[RunOf(d)] \in Active

OpenJobIsActive == \A r \in Runs : job[r].state \in Open => run[r] \in Active

CountInvariant ==
    /\ IsFiniteSet(ActiveRuns)
    /\ Cardinality(OpenJobs) + Cardinality(Pending) <= Limit + Cardinality(Dispatchers) - 1

LimitInv ==
    ~overlapped =>
        /\ OneRequestEach
        /\ \A d \in Dispatchers : Unregistered(d)
        /\ OpenJobIsActive
        /\ CountInvariant

(* What the workers, the cancels and the deadlines may do to a run: they   *)
(* open nothing, and leave the runs without a job as open as they are.     *)
Quiet ==
    \A r \in Runs :
        /\ job'[r].state \in Open => job[r].state \in Open
        /\ run'[r] \in Active => run[r] \in Active
        /\ job[r].state = "none" <=> job'[r].state = "none"
        /\ job[r].state = "none" /\ run[r] \in Active => run'[r] \in Active
        /\ (job[r].state \in Open => run[r] \in Active)
             => (job'[r].state \in Open => run'[r] \in Active)

(* The rows of one run with a job are written. *)
LEMMA QuietRow ==
  ASSUME StoreTypeOK, NEW r \in Runs, NEW k \in JobRow, NEW s \in RunStatus,
         job' = [job EXCEPT ![r] = k], run' = [run EXCEPT ![r] = s],
         job[r].state \in Open, k.state # "none",
         s \in Active => run[r] \in Active,
         k.state \notin Open \/ (run[r] \in Active => s \in Active)
  PROVE  Quiet
  <1>1. /\ job'[r] = k /\ run'[r] = s
        /\ \A p \in Runs \ {r} : job'[p] = job[p] /\ run'[p] = run[p]
    BY DEF StoreTypeOK
  <1>2. job[r].state # "none"
    BY DEF Open
  <1>3. QED
    BY <1>1, <1>2 DEF Quiet

LEMMA QuietTransition ==
  ASSUME StoreTypeOK, NEW r \in Runs, NEW final \in Finished,
         job[r].state \in Open, Transition(r, final)
  PROVE  Quiet
  <1> DEFINE k == EndedJob(job[r], final)
             s == EndedRun(run[r], final)
  <1>1. job[r] \in JobRow /\ run[r] \in RunStatus
    BY DEF StoreTypeOK
  <1>2. k \in JobRow /\ k.state = final
    BY <1>1, EndedJobRow
  <1>3. s \in RunStatus /\ s \notin Active
    BY <1>1 DEF EndedRun, RunStatus, Active, Finished
  <1>4. job' = [job EXCEPT ![r] = k] /\ run' = [run EXCEPT ![r] = s]
    BY DEF Transition
  <1>5. final \notin Open /\ final # "none"
    BY DEF Open, Finished
  <1> HIDE DEF k, s
  <1>6. QED
    BY <1>2, <1>3, <1>4, <1>5, QuietRow

LEMMA QuietClaim ==
  ASSUME StoreTypeOK, NEW r \in Runs, Claim(r, 0)
  PROVE  Quiet
  <1>1. job[r] \in JobRow /\ claims[r] + 1 \in Nat
    BY DEF StoreTypeOK
  <1>2. PICK o \in Nat : o = claims[r] + 1
    BY <1>1
  <1> DEFINE k == Claimed(job[r], o, 0)
  <1>3. k \in JobRow /\ k.state = "running"
    <2>1. 0 \in Nat
      OBVIOUS
    <2>2. QED
      BY <1>1, <2>1, ClaimedRow
  <1>4. /\ job[r].state = "queued" /\ run[r] = "queued"
        /\ job' = [job EXCEPT ![r] = k]
        /\ run' = [run EXCEPT ![r] = "running"]
    BY <1>2 DEF Claim, Claimable
  <1>5. /\ "running" \in RunStatus /\ "running" \in Active /\ "queued" \in Active
        /\ job[r].state \in Open
    BY <1>4 DEF RunStatus, Active, Open
  <1> HIDE DEF k
  <1>6. QED
    BY <1>3, <1>4, <1>5, QuietRow

LEMMA QuietRequeue ==
  ASSUME StoreTypeOK, NEW r \in Runs, job[r].state \in Open, Requeue(r, 0 + RetryDelay)
  PROVE  Quiet
  <1> DEFINE k == Requeued(job[r], 0 + RetryDelay)
             s == IF run[r] = "running" THEN "queued" ELSE run[r]
  <1>1. job[r] \in JobRow /\ run[r] \in RunStatus
    BY DEF StoreTypeOK
  <1>2. k \in JobRow /\ k.state = "queued"
    BY <1>1, RunStoreAssumption, RequeuedRow
  <1>3. s \in RunStatus /\ (s \in Active <=> run[r] \in Active)
    BY <1>1 DEF RunStatus, Active
  <1>4. job' = [job EXCEPT ![r] = k] /\ run' = [run EXCEPT ![r] = s]
    BY DEF Requeue
  <1> HIDE DEF k, s
  <1>5. QED
    BY <1>2, <1>3, <1>4, QuietRow

LEMMA QuietStay == UNCHANGED <<job, run>> => Quiet
  BY DEF Quiet

LEMMA QuietWork ==
  ASSUME StoreTypeOK, NEW r \in Runs, Work(r)
  PROVE  Quiet
  <1>1. CASE Claim(r, 0)
    BY <1>1, QuietClaim
  <1>2. ASSUME NEW o, ObserveCancellation(r, o, 0) PROVE Quiet
    BY <1>2, QuietTransition DEF ObserveCancellation, HoldsLease, Open, Finished
  <1>3. CASE Complete(r, claims[r], 0)
    <2>1. CASE StoreOutput(r, claims[r], 0)
      BY <2>1, QuietTransition DEF StoreOutput, HoldsLease, Open, Finished
    <2>2. CASE UNCHANGED storeVars
      BY <2>2, QuietStay DEF storeVars
    <2>3. QED
      BY <1>2, <1>3, <2>1, <2>2 DEF Complete
  <1>4. ASSUME NEW retryable \in BOOLEAN, Fail(r, claims[r], 0, retryable) PROVE Quiet
    <2>1. CASE HoldsLease(r, claims[r], 0) /\ Requeue(r, 0 + RetryDelay)
      BY <2>1, QuietRequeue DEF HoldsLease, Open
    <2>2. CASE HoldsLease(r, claims[r], 0) /\ Transition(r, "failed")
      BY <2>2, QuietTransition DEF HoldsLease, Open, Finished
    <2>3. CASE UNCHANGED storeVars
      BY <2>3, QuietStay DEF storeVars
    <2>4. QED
      BY <1>2, <1>4, <2>1, <2>2, <2>3 DEF Fail
  <1>5. QED
    BY <1>1, <1>3, <1>4 DEF Work

LEMMA QuietCancel ==
  ASSUME StoreTypeOK, NEW r \in Runs, Cancel(r) \/ CancelRun(r)
  PROVE  Quiet
  <1>1. CASE job[r].state = "queued" /\ Transition(r, "cancelled")
    BY <1>1, QuietTransition DEF Open, Finished
  <1>2. ASSUME NEW s \in RunStatus, run' = [run EXCEPT ![r] = s], job' = job,
               s \in Active <=> run[r] \in Active
        PROVE  Quiet
    BY <1>2 DEF Quiet, StoreTypeOK
  <1>3. CASE job' = job /\ run' = [run EXCEPT ![r] = IF @ = "running" THEN "cancel_requested" ELSE @]
    <2> DEFINE s == IF run[r] = "running" THEN "cancel_requested" ELSE run[r]
    <2>1. s \in RunStatus /\ (s \in Active <=> run[r] \in Active)
      BY DEF StoreTypeOK, RunStatus, Active
    <2>2. run' = [run EXCEPT ![r] = s]
      BY <1>3
    <2> HIDE DEF s
    <2>3. QED
      BY <1>2, <1>3, <2>1, <2>2
  <1>4. CASE CancelRun(r)
    <2> DEFINE s == IF run[r] \in Open THEN "cancel_requested" ELSE run[r]
    <2>1. s \in RunStatus /\ (s \in Active <=> run[r] \in Active)
      BY DEF StoreTypeOK, RunStatus, Active, Open
    <2>2. run' = [run EXCEPT ![r] = s] /\ job' = job
      BY <1>4 DEF CancelRun, RequestCancellation
    <2> HIDE DEF s
    <2>3. QED
      BY <1>2, <2>1, <2>2
  <1>5. CASE UNCHANGED storeVars
    BY <1>5, QuietStay DEF storeVars
  <1>6. QED
    BY <1>1, <1>3, <1>4, <1>5 DEF Cancel, CancelJob

-----------------------------------------------------------------------------
(* Open jobs and pending requests, counted.                                *)

LEMMA Sizes ==
  ASSUME OpenJobIsActive, IsFiniteSet(ActiveRuns)
  PROVE  /\ IsFiniteSet(OpenJobs) /\ Cardinality(OpenJobs) \in Nat
         /\ IsFiniteSet(Pending) /\ Cardinality(Pending) \in Nat
         /\ Cardinality(Dispatchers) \in Nat /\ Limit \in Nat
  <1>1. OpenJobs \subseteq ActiveRuns
    BY DEF OpenJobIsActive, OpenJobs, ActiveRuns
  <1>2. IsFiniteSet(Dispatchers) /\ Pending \subseteq Dispatchers /\ Limit \in Nat
    BY ExternalDispatchAssumption DEF Pending
  <1>3. IsFiniteSet(OpenJobs) /\ IsFiniteSet(Pending)
    BY <1>1, <1>2, FS_Subset
  <1>4. QED
    BY <1>2, <1>3, FS_CardinalityType

LEMMA CountShrinks ==
  ASSUME OpenJobIsActive, CountInvariant, IsFiniteSet(ActiveRuns'),
         OpenJobs' \subseteq OpenJobs, Pending' \subseteq Pending
  PROVE  CountInvariant'
  <1>1. /\ IsFiniteSet(OpenJobs) /\ Cardinality(OpenJobs) \in Nat
        /\ IsFiniteSet(Pending) /\ Cardinality(Pending) \in Nat
        /\ Cardinality(Dispatchers) \in Nat /\ Limit \in Nat
    BY Sizes DEF CountInvariant
  <1>2. /\ IsFiniteSet(OpenJobs') /\ Cardinality(OpenJobs') <= Cardinality(OpenJobs)
        /\ IsFiniteSet(Pending') /\ Cardinality(Pending') <= Cardinality(Pending)
    BY <1>1, FS_Subset
  <1>3. Cardinality(OpenJobs') \in Nat /\ Cardinality(Pending') \in Nat
    BY <1>2, FS_CardinalityType
  <1>4. QED
    BY <1>1, <1>2, <1>3 DEF CountInvariant

(* A pending request opens the job it was counted for. *)
LEMMA CountMoves ==
  ASSUME OpenJobIsActive, CountInvariant, IsFiniteSet(ActiveRuns'),
         NEW r, NEW d \in Pending,
         OpenJobs' \subseteq OpenJobs \cup {r}, Pending' = Pending \ {d}
  PROVE  CountInvariant'
  <1>1. /\ IsFiniteSet(OpenJobs) /\ Cardinality(OpenJobs) \in Nat
        /\ IsFiniteSet(Pending) /\ Cardinality(Pending) \in Nat
        /\ Cardinality(Dispatchers) \in Nat /\ Limit \in Nat
    BY Sizes DEF CountInvariant
  <1>2. /\ IsFiniteSet(OpenJobs \cup {r})
        /\ Cardinality(OpenJobs \cup {r}) \in {Cardinality(OpenJobs), Cardinality(OpenJobs) + 1}
    BY <1>1, FS_AddElement
  <1>3. /\ IsFiniteSet(OpenJobs')
        /\ Cardinality(OpenJobs') <= Cardinality(OpenJobs \cup {r})
    BY <1>2, FS_Subset
  <1>4. /\ IsFiniteSet(Pending')
        /\ Cardinality(Pending') = Cardinality(Pending) - 1
    BY <1>1, FS_RemoveElement
  <1>5. Cardinality(OpenJobs') \in Nat /\ Cardinality(Pending') \in Nat
    BY <1>3, <1>4, FS_CardinalityType
  <1>6. QED
    BY <1>1, <1>2, <1>3, <1>4, <1>5 DEF CountInvariant

(* A request passes its count. *)
LEMMA CountPasses ==
  ASSUME OpenJobIsActive, CountInvariant, IsFiniteSet(ActiveRuns'),
         OpenJobs' = OpenJobs, Cardinality(OpenJobs) <= Limit - 1
  PROVE  CountInvariant'
  <1>1. /\ IsFiniteSet(OpenJobs) /\ Cardinality(OpenJobs) \in Nat
        /\ Cardinality(Dispatchers) \in Nat /\ Limit \in Nat
    BY Sizes DEF CountInvariant
  <1>2. Pending' \subseteq Dispatchers /\ IsFiniteSet(Dispatchers)
    BY ExternalDispatchAssumption DEF Pending
  <1>3. IsFiniteSet(Pending') /\ Cardinality(Pending') <= Cardinality(Dispatchers)
    BY <1>2, FS_Subset
  <1>4. Cardinality(Pending') \in Nat
    BY <1>3, FS_CardinalityType
  <1>5. QED
    BY <1>1, <1>3, <1>4 DEF CountInvariant

-----------------------------------------------------------------------------
(* A step that is nobody's request.                                        *)
LEMMA QuietLimit ==
  ASSUME IInv, LimitInv, Quiet, UNCHANGED <<request, overlapped>>
  PROVE  LimitInv'
  <1> SUFFICES ASSUME ~overlapped
               PROVE  /\ OneRequestEach'
                      /\ \A d \in Dispatchers : Unregistered(d)'
                      /\ OpenJobIsActive'
                      /\ CountInvariant'
    BY DEF LimitInv
  <1>1. /\ OneRequestEach /\ OpenJobIsActive /\ CountInvariant
        /\ \A d \in Dispatchers : Unregistered(d)
    BY DEF LimitInv
  <1>2. OneRequestEach'
    BY <1>1 DEF OneRequestEach, At, RunOf
  <1>3. ASSUME NEW d \in Dispatchers PROVE Unregistered(d)'
    <2>1. CASE At(d, "idle")
      BY <2>1 DEF At, Unregistered
    <2>2. CASE ~At(d, "idle")
      <3>1. RunOf(d) \in Runs /\ RunOf(d)' = RunOf(d)
        BY <2>2 DEF IInv, BusyInv, At, RunOf
      <3>2. /\ job[RunOf(d)].state = "none" <=> job'[RunOf(d)].state = "none"
            /\ job[RunOf(d)].state = "none" /\ run[RunOf(d)] \in Active => run'[RunOf(d)] \in Active
        BY <3>1 DEF Quiet
      <3>3. QED
        BY <1>1, <3>1, <3>2 DEF Unregistered, At, Terminal, RunOf
    <2>3. QED
      BY <2>1, <2>2
  <1>4. OpenJobIsActive'
    BY <1>1 DEF Quiet, OpenJobIsActive
  <1>5. CountInvariant'
    <2>1. ActiveRuns' \subseteq ActiveRuns /\ OpenJobs' \subseteq OpenJobs
      BY DEF Quiet, ActiveRuns, OpenJobs
    <2>2. IsFiniteSet(ActiveRuns')
      BY <1>1, <2>1, FS_Subset DEF CountInvariant
    <2>3. Pending' = Pending
      BY DEF Pending
    <2>4. QED
      BY <1>1, <2>1, <2>2, <2>3, CountShrinks
  <1>6. QED
    BY <1>2, <1>3, <1>4, <1>5

-----------------------------------------------------------------------------
(* A step of a request.                                                    *)

LEMMA PendingAfter ==
  ASSUME IInv, NEW d \in Dispatchers, NEW q \in Request,
         request' = [request EXCEPT ![d] = q]
  PROVE  Pending' = IF q.at \in {"retryJob", "register"} THEN Pending \cup {d} ELSE Pending \ {d}
  <1>1. /\ request'[d] = q
        /\ \A e \in Dispatchers \ {d} : request'[e] = request[e]
    BY RequestMoves DEF IInv
  <1>2. QED
    BY <1>1 DEF Pending

(* The rows of one run are written. *)
LEMMA ActiveStaysFinite ==
  ASSUME IsFiniteSet(ActiveRuns), NEW r,
         \A p \in Runs : p # r => run'[p] = run[p]
  PROVE  IsFiniteSet(ActiveRuns')
  <1>1. IsFiniteSet(ActiveRuns \cup {r})
    BY FS_AddElement
  <1>2. ActiveRuns' \subseteq ActiveRuns \cup {r}
    BY DEF ActiveRuns
  <1>3. QED
    BY <1>1, <1>2, FS_Subset

(* The request and its run change, and with them the two counts. *)
LEMMA RequestLimit ==
  ASSUME IInv, LimitInv, ~overlapped,
         NEW d \in Dispatchers, NEW q \in Request, ~At(d, "idle"),
         request' = [request EXCEPT ![d] = q],
         q.at \in {"idle", "countJob", "retryJob"}
           \/ /\ q.run = RunOf(d) /\ q.at # "lookup"
              /\ job'[q.run].state = "none"
              /\ q.at # "retryRun" => run'[q.run] \in Active,
         q.at # "idle" => q.run = RunOf(d),
         \A r \in Runs : r # RunOf(d) => job'[r] = job[r] /\ run'[r] = run[r],
         OpenJobIsActive',
         IsFiniteSet(ActiveRuns') => CountInvariant'
  PROVE  LimitInv'
  <1>1. /\ OneRequestEach /\ CountInvariant
        /\ \A e \in Dispatchers : Unregistered(e)
    BY DEF LimitInv
  <1>2. /\ request'[d] = q
        /\ \A e \in Dispatchers \ {d} : request'[e] = request[e]
    BY RequestMoves DEF IInv
  <1>3. OneRequestEach'
    BY <1>1, <1>2 DEF OneRequestEach, At, RunOf
  <1>4. ASSUME NEW e \in Dispatchers PROVE Unregistered(e)'
    <2>1. CASE e = d
      BY <1>2, <2>1 DEF Unregistered, At, RunOf, Terminal
    <2>2. CASE e # d /\ request[e].at = "idle"
      BY <1>2, <2>2 DEF Unregistered, At
    <2>3. CASE e # d /\ request[e].at # "idle"
      <3>1. RunOf(e) \in Runs /\ RunOf(e) # RunOf(d)
        BY <1>1, <2>3 DEF IInv, BusyInv, OneRequestEach, At
      <3>2. /\ request'[e] = request[e]
            /\ job'[RunOf(e)] = job[RunOf(e)] /\ run'[RunOf(e)] = run[RunOf(e)]
        BY <1>2, <2>3, <3>1
      <3>3. QED
        BY <1>1, <3>2 DEF Unregistered, At, RunOf, Terminal
    <2>4. QED
      BY <2>1, <2>2, <2>3
  <1>5. CountInvariant'
    BY <1>1, ActiveStaysFinite DEF CountInvariant
  <1>6. QED
    BY <1>3, <1>4, <1>5 DEF LimitInv

(* create: the run is another one, unless two requests for it overlap. *)
LEMMA CreateLimit ==
  ASSUME IInv, LimitInv, NEW d \in Dispatchers, NEW r \in Runs, Create(d, r)
  PROVE  LimitInv'
  <1> SUFFICES ASSUME ~overlapped'
               PROVE  /\ OneRequestEach'
                      /\ \A e \in Dispatchers : Unregistered(e)'
                      /\ OpenJobIsActive'
                      /\ CountInvariant'
    BY DEF LimitInv
  <1> DEFINE q == [at |-> "lookup", run |-> r, seen |-> run'[r]]
  <1>1. ~overlapped /\ \A e \in Dispatchers : RunOf(e) # r
    BY DEF Create
  <1>2. /\ OneRequestEach /\ OpenJobIsActive /\ CountInvariant
        /\ \A e \in Dispatchers : Unregistered(e)
    BY <1>1 DEF LimitInv
  <1>3. /\ run' \in [Runs -> RunStatus]
        /\ \A p \in Runs : p # r => run'[p] = run[p]
        /\ run'[r] = IF run[r] = "none" THEN "queued" ELSE run[r]
        /\ run[r] # "completed"
        /\ job' = job
    BY DEF Create, CreateRun, IInv, TypeOK, StoreTypeOK, storeVars, RunStatus, Active
  <1>4. q \in Request
    BY <1>3 DEF Steps, Request
  <1>5. request' = [request EXCEPT ![d] = q]
    BY DEF Create
  <1>6. q.at = "lookup" /\ q.run = r /\ q.seen = run'[r]
    OBVIOUS
  <1> HIDE DEF q
  <1>7. /\ request'[d] = q
        /\ \A e \in Dispatchers \ {d} : request'[e] = request[e]
    BY <1>4, <1>5, RequestMoves DEF IInv
  <1>8. OneRequestEach'
    BY <1>1, <1>2, <1>6, <1>7 DEF OneRequestEach, At, RunOf
  <1>9. ASSUME NEW e \in Dispatchers PROVE Unregistered(e)'
    <2>1. CASE e = d
      <3>1. run'[r] \in Active \/ run'[r] \in {"failed", "cancelled"}
        BY <1>3 DEF Active, RunStatus, Finished, IInv, TypeOK, StoreTypeOK
      <3>2. QED
        BY <1>6, <1>7, <2>1, <3>1 DEF Unregistered, At, RunOf, Terminal
    <2>2. CASE e # d /\ request[e].at = "idle"
      BY <1>7, <2>2 DEF Unregistered, At
    <2>3. CASE e # d /\ request[e].at # "idle"
      <3>1. RunOf(e) \in Runs /\ RunOf(e) # r
        BY <1>1, <2>3 DEF IInv, BusyInv
      <3>2. /\ request'[e] = request[e]
            /\ job'[RunOf(e)] = job[RunOf(e)] /\ run'[RunOf(e)] = run[RunOf(e)]
        BY <1>3, <1>7, <2>3, <3>1
      <3>3. QED
        BY <1>2, <3>2 DEF Unregistered, At, RunOf, Terminal
    <2>4. QED
      BY <2>1, <2>2, <2>3
  <1>10. OpenJobIsActive'
    BY <1>2, <1>3 DEF OpenJobIsActive, Active, Open
  <1>11. CountInvariant'
    <2>1. IsFiniteSet(ActiveRuns')
      BY <1>2, <1>3, ActiveStaysFinite DEF CountInvariant
    <2>2. Pending' \subseteq Pending
      BY <1>4, <1>5, <1>6, PendingAfter
    <2>3. OpenJobs' = OpenJobs
      BY <1>3 DEF OpenJobs
    <2>4. QED
      BY <1>2, <2>1, <2>2, <2>3, CountShrinks
  <1>12. QED
    BY <1>8, <1>9, <1>10, <1>11

(* A step of a request that writes no run and no job. *)
LEMMA ReadOnlyLimit ==
  ASSUME IInv, LimitInv, NEW d \in Dispatchers, ~At(d, "idle"),
         UNCHANGED <<storeVars, overlapped>>,
         \/ Returns(d)
         \/ \E step \in {"countJob", "retryJob", "retryRun", "count", "reject", "register"} :
               /\ Goes(d, step)
               /\ step \in {"retryRun", "count", "reject", "register"} =>
                     job[RunOf(d)].state = "none"
               /\ ~overlapped /\ step \in {"count", "reject", "register"} =>
                     run[RunOf(d)] \in Active
               /\ ~overlapped /\ step \in {"retryJob", "register"} =>
                     Cardinality(OpenJobs) <= Limit - 1
  PROVE  LimitInv'
  <1> SUFFICES ASSUME ~overlapped PROVE LimitInv'
    BY DEF LimitInv
  <1>1. job' = job /\ run' = run
    BY DEF storeVars
  <1>2. OpenJobIsActive /\ OpenJobIsActive' /\ CountInvariant /\ OpenJobs' = OpenJobs
    BY <1>1 DEF LimitInv, OpenJobIsActive, OpenJobs
  <1>3. CASE Returns(d)
    <2>1. /\ IdleRequest \in Request /\ IdleRequest.at = "idle"
          /\ request' = [request EXCEPT ![d] = IdleRequest]
      BY <1>3, RequestGoes DEF IdleRequest, Returns
    <2>2. Pending' \subseteq Pending
      BY <2>1, PendingAfter
    <2>3. IsFiniteSet(ActiveRuns') => CountInvariant'
      BY <1>2, <2>2, CountShrinks
    <2>4. QED
      BY <1>1, <1>2, <2>1, <2>3, RequestLimit
  <1>4. ASSUME NEW step \in {"countJob", "retryJob", "retryRun", "count", "reject", "register"},
               Goes(d, step),
               step \in {"retryRun", "count", "reject", "register"} =>
                  job[RunOf(d)].state = "none",
               step \in {"count", "reject", "register"} => run[RunOf(d)] \in Active,
               step \in {"retryJob", "register"} => Cardinality(OpenJobs) <= Limit - 1
        PROVE  LimitInv'
    <2> DEFINE q == [request[d] EXCEPT !.at = step]
    <2>1. step \in Steps
      BY DEF Steps
    <2>2. q \in Request /\ q.at = step /\ q.run = RunOf(d)
      BY <2>1, RequestGoes
    <2>3. request' = [request EXCEPT ![d] = q]
      BY <1>4 DEF Goes
    <2> HIDE DEF q
    <2>4. IsFiniteSet(ActiveRuns') => CountInvariant'
      <3>1. CASE step \in {"retryJob", "register"}
        BY <1>2, <1>4, <3>1, CountPasses
      <3>2. CASE step \notin {"retryJob", "register"}
        <4>1. Pending' \subseteq Pending
          BY <2>2, <2>3, <3>2, PendingAfter
        <4>2. QED
          BY <1>2, <4>1, CountShrinks
      <3>3. QED
        BY <3>1, <3>2
    <2>5. QED
      BY <1>1, <1>2, <1>4, <2>2, <2>3, <2>4, RequestLimit
  <1>5. QED
    BY <1>3, <1>4

(* Looking for the job. *)
LEMMA LookupLimit ==
  ASSUME IInv, LimitInv, NEW d \in Dispatchers, Lookup(d)
  PROVE  LimitInv'
  <1>1. ~At(d, "idle") /\ UNCHANGED <<storeVars, overlapped>>
    BY DEF Lookup, At, others
  <1>2. CASE Goes(d, "retryRun") /\ job[RunOf(d)].state = "none"
    BY <1>1, <1>2, ReadOnlyLimit
  <1>3. CASE Goes(d, "count") /\ job[RunOf(d)].state = "none" /\ ~Terminal(d)
    <2>1. ~overlapped => run[RunOf(d)] \in Active
      BY <1>3 DEF Lookup, LimitInv, Unregistered
    <2>2. QED
      BY <1>1, <1>3, <2>1, ReadOnlyLimit
  <1>4. CASE Goes(d, "countJob") \/ Returns(d)
    BY <1>1, <1>4, ReadOnlyLimit
  <1>5. QED
    BY <1>2, <1>3, <1>4 DEF Lookup

(* The count of a run that is not open: the open jobs are below the limit. *)
LEMMA CountForJobLimit ==
  ASSUME IInv, LimitInv, NEW d \in Dispatchers, CountForJob(d)
  PROVE  LimitInv'
  <1>1. ~At(d, "idle") /\ UNCHANGED <<storeVars, overlapped>>
    BY DEF CountForJob, At, others
  <1>2. CASE Returns(d)
    BY <1>1, <1>2, ReadOnlyLimit
  <1>3. CASE Goes(d, "retryJob") /\ ~JobLimitExceeded
    <2>1. ASSUME ~overlapped PROVE Cardinality(OpenJobs) <= Limit - 1
      <3>1. OpenJobs \subseteq ActiveRuns /\ IsFiniteSet(ActiveRuns)
        BY <2>1 DEF LimitInv, OpenJobIsActive, CountInvariant, OpenJobs, ActiveRuns
      <3>2. Cardinality(OpenJobs) <= Cardinality(ActiveRuns)
        BY <3>1, FS_Subset
      <3>3. Cardinality(OpenJobs) \in Nat /\ Cardinality(ActiveRuns) \in Nat /\ Limit \in Nat
        BY <3>1, FS_Subset, FS_CardinalityType, ExternalDispatchAssumption
      <3>4. Cardinality(ActiveRuns) < Limit
        BY <1>3, <3>3 DEF JobLimitExceeded, ActiveCount, ActiveRuns
      <3>5. QED
        BY <3>2, <3>3, <3>4
    <2>2. QED
      BY <1>1, <1>3, <2>1, ReadOnlyLimit
  <1>4. QED
    BY <1>2, <1>3 DEF CountForJob

(* The count of a run that is open and has no job: it counts itself. *)
LEMMA CountLimit ==
  ASSUME IInv, LimitInv, NEW d \in Dispatchers, Count(d)
  PROVE  LimitInv'
  <1>1. At(d, "count") /\ ~At(d, "idle") /\ UNCHANGED <<storeVars, overlapped>>
    BY DEF Count, At, others
  <1>2. CASE overlapped
    BY <1>1, <1>2 DEF LimitInv
  <1>3. CASE ~overlapped
    <2>1. Unregistered(d)
      BY <1>3 DEF LimitInv
    <2>2. job[RunOf(d)].state = "none" /\ run[RunOf(d)] \in Active
      BY <1>1, <2>1 DEF Unregistered, At
    <2>3. CASE Goes(d, "reject")
      BY <1>1, <2>2, <2>3, ReadOnlyLimit
    <2>4. CASE Goes(d, "register") /\ ~(ActiveCount > Limit)
      <3> DEFINE rest == ActiveRuns \ {RunOf(d)}
      <3>1. RunOf(d) \in Runs
        BY <1>1, RequestGoes
      <3>2. RunOf(d) \in ActiveRuns /\ IsFiniteSet(ActiveRuns)
        BY <1>3, <2>2, <3>1 DEF ActiveRuns, LimitInv, CountInvariant
      <3>3. OpenJobs \subseteq rest
        BY <1>3, <2>2 DEF LimitInv, OpenJobIsActive, OpenJobs, ActiveRuns, Open
      <3>4. IsFiniteSet(rest) /\ Cardinality(rest) = Cardinality(ActiveRuns) - 1
        BY <3>2, FS_RemoveElement
      <3> HIDE DEF rest
      <3>5. IsFiniteSet(OpenJobs) /\ Cardinality(OpenJobs) <= Cardinality(rest)
        BY <3>3, <3>4, FS_Subset
      <3>6. Cardinality(OpenJobs) \in Nat /\ Cardinality(ActiveRuns) \in Nat /\ Limit \in Nat
        BY <3>2, <3>5, FS_CardinalityType, ExternalDispatchAssumption
      <3>7. Cardinality(ActiveRuns) <= Limit
        BY <2>4, <3>6 DEF ActiveCount, ActiveRuns
      <3>8. Cardinality(OpenJobs) <= Limit - 1
        BY <3>4, <3>5, <3>6, <3>7
      <3>9. QED
        BY <1>1, <2>2, <2>4, <3>8, ReadOnlyLimit
    <2>5. QED
      BY <2>3, <2>4 DEF Count
  <1>4. QED
    BY <1>2, <1>3

(* A counted request opens its job, here by reopening the one there is. *)
LEMMA RetryJobLimit ==
  ASSUME IInv, LimitInv, NEW d \in Dispatchers, RetryJob(d)
  PROVE  LimitInv'
  <1>1. At(d, "retryJob") /\ ~At(d, "idle") /\ Returns(d) /\ UNCHANGED overlapped
    BY DEF RetryJob, At, others
  <1>2. CASE UNCHANGED storeVars
    BY <1>1, <1>2, ReadOnlyLimit
  <1>3. CASE RetryTerminal(RunOf(d), 0) /\ overlapped
    BY <1>1, <1>3 DEF LimitInv
  <1>4. CASE RetryTerminal(RunOf(d), 0) /\ ~overlapped
    <2>1. RunOf(d) \in Runs /\ IdleRequest \in Request /\ IdleRequest.at = "idle"
      BY <1>1, RequestGoes DEF IdleRequest
    <2>2. request' = [request EXCEPT ![d] = IdleRequest]
      BY <1>1 DEF Returns
    <2>3. /\ run'[RunOf(d)] = "queued"
          /\ \A r \in Runs : r # RunOf(d) => job'[r] = job[r] /\ run'[r] = run[r]
      BY <1>4, <2>1 DEF RetryTerminal, IInv, TypeOK, StoreTypeOK
    <2>4. OpenJobIsActive /\ CountInvariant
      BY <1>4 DEF LimitInv
    <2>5. OpenJobIsActive'
      BY <2>3, <2>4 DEF OpenJobIsActive, Active
    <2>6. d \in Pending /\ Pending' = Pending \ {d}
      BY <1>1, <2>1, <2>2, PendingAfter DEF Pending, At
    <2>7. OpenJobs' \subseteq OpenJobs \cup {RunOf(d)}
      BY <2>3 DEF OpenJobs
    <2>8. IsFiniteSet(ActiveRuns') => CountInvariant'
      BY <2>4, <2>6, <2>7, CountMoves
    <2>9. QED
      BY <1>1, <1>4, <2>1, <2>2, <2>3, <2>5, <2>8, RequestLimit
  <1>5. QED
    BY <1>2, <1>3, <1>4 DEF RetryJob

(* A run without a job is reopened before it is counted. *)
LEMMA RetryRunRowLimit ==
  ASSUME IInv, LimitInv, NEW d \in Dispatchers, RetryRunRow(d)
  PROVE  LimitInv'
  <1>1. At(d, "retryRun") /\ ~At(d, "idle") /\ UNCHANGED overlapped
    BY DEF RetryRunRow, At, others
  <1>2. CASE UNCHANGED storeVars /\ Returns(d)
    BY <1>1, <1>2, ReadOnlyLimit
  <1>3. CASE RetryRun(RunOf(d)) /\ Goes(d, "count") /\ overlapped
    BY <1>1, <1>3 DEF LimitInv
  <1>4. CASE RetryRun(RunOf(d)) /\ Goes(d, "count") /\ ~overlapped
    <2> DEFINE q == [request[d] EXCEPT !.at = "count"]
    <2>1. q \in Request /\ q.at = "count" /\ q.run = RunOf(d) /\ RunOf(d) \in Runs
      BY <1>1, RequestGoes DEF Steps
    <2>2. request' = [request EXCEPT ![d] = q]
      BY <1>4 DEF Goes
    <2> HIDE DEF q
    <2>3. /\ run'[RunOf(d)] = "queued" /\ job' = job
          /\ \A r \in Runs : r # RunOf(d) => run'[r] = run[r]
      BY <1>4, <2>1 DEF RetryRun, IInv, TypeOK, StoreTypeOK
    <2>4. /\ OpenJobIsActive /\ CountInvariant
          /\ job[RunOf(d)].state = "none"
      BY <1>1, <1>4 DEF LimitInv, Unregistered, At
    <2>5. OpenJobIsActive' /\ run'[RunOf(d)] \in Active
      BY <2>3, <2>4 DEF OpenJobIsActive, Active
    <2>6. Pending' \subseteq Pending /\ OpenJobs' = OpenJobs
      BY <2>1, <2>2, <2>3, PendingAfter DEF OpenJobs
    <2>7. IsFiniteSet(ActiveRuns') => CountInvariant'
      BY <2>4, <2>6, CountShrinks
    <2>8. job'[q.run].state = "none" /\ run'[q.run] \in Active
      BY <2>1, <2>3, <2>4, <2>5
    <2>9. QED
      BY <1>1, <1>4, <2>1, <2>2, <2>3, <2>5, <2>7, <2>8, RequestLimit
  <1>5. QED
    BY <1>2, <1>3, <1>4 DEF RetryRunRow

(* A rejected run has no job that would outlive it. *)
LEMMA RejectLimit ==
  ASSUME IInv, LimitInv, NEW d \in Dispatchers, Reject(d)
  PROVE  LimitInv'
  <1>1. At(d, "reject") /\ ~At(d, "idle") /\ Returns(d) /\ FailRun(RunOf(d)) /\ UNCHANGED overlapped
    BY DEF Reject, At, others
  <1>2. CASE overlapped
    BY <1>1, <1>2 DEF LimitInv
  <1>3. CASE ~overlapped
    <2>1. RunOf(d) \in Runs /\ IdleRequest \in Request /\ IdleRequest.at = "idle"
      BY <1>1, RequestGoes DEF IdleRequest
    <2>2. request' = [request EXCEPT ![d] = IdleRequest]
      BY <1>1 DEF Returns
    <2>3. /\ job' = job
          /\ \A r \in Runs : r # RunOf(d) => run'[r] = run[r]
      BY <1>1, <2>1 DEF FailRun, IInv, TypeOK, StoreTypeOK
    <2>4. /\ OpenJobIsActive /\ CountInvariant
          /\ job[RunOf(d)].state = "none"
      BY <1>1, <1>3 DEF LimitInv, Unregistered, At
    <2>5. OpenJobIsActive'
      BY <2>3, <2>4 DEF OpenJobIsActive, Open
    <2>6. Pending' \subseteq Pending /\ OpenJobs' = OpenJobs
      BY <2>1, <2>2, <2>3, PendingAfter DEF OpenJobs
    <2>7. IsFiniteSet(ActiveRuns') => CountInvariant'
      BY <2>4, <2>6, CountShrinks
    <2>8. QED
      BY <1>1, <1>3, <2>1, <2>2, <2>3, <2>5, <2>7, RequestLimit
  <1>4. QED
    BY <1>2, <1>3

(* A counted request opens its job, here by inserting it. *)
LEMMA RegisterLimit ==
  ASSUME IInv, LimitInv, NEW d \in Dispatchers, Register(d)
  PROVE  LimitInv'
  <1>1. At(d, "register") /\ ~At(d, "idle") /\ UNCHANGED overlapped
    BY DEF Register, At, others
  <1>2. CASE overlapped
    BY <1>1, <1>2 DEF LimitInv
  <1>3. CASE ~overlapped
    <2>1. /\ OpenJobIsActive /\ CountInvariant
          /\ job[RunOf(d)].state = "none" /\ run[RunOf(d)] \in Active
      BY <1>1, <1>3 DEF LimitInv, Unregistered, At
    <2>2. CASE UNCHANGED storeVars /\ Goes(d, "reject")
      BY <1>1, <2>1, <2>2, ReadOnlyLimit
    <2>3. CASE EnqueueJob(RunOf(d), 0) /\ Returns(d)
      <3>1. RunOf(d) \in Runs /\ IdleRequest \in Request /\ IdleRequest.at = "idle"
        BY <1>1, RequestGoes DEF IdleRequest
      <3>2. request' = [request EXCEPT ![d] = IdleRequest]
        BY <2>3 DEF Returns
      <3>3. /\ run' = run
            /\ \A r \in Runs : r # RunOf(d) => job'[r] = job[r]
        BY <2>3, <3>1 DEF EnqueueJob, IInv, TypeOK, StoreTypeOK
      <3>4. OpenJobIsActive'
        BY <2>1, <3>3 DEF OpenJobIsActive
      <3>5. d \in Pending /\ Pending' = Pending \ {d}
        BY <1>1, <3>1, <3>2, PendingAfter DEF Pending, At
      <3>6. OpenJobs' \subseteq OpenJobs \cup {RunOf(d)}
        BY <3>3 DEF OpenJobs
      <3>7. IsFiniteSet(ActiveRuns') => CountInvariant'
        BY <2>1, <3>5, <3>6, CountMoves
      <3>8. QED
        BY <1>1, <1>3, <3>1, <3>2, <3>3, <3>4, <3>7, RequestLimit
    <2>4. QED
      BY <2>2, <2>3 DEF Register
  <1>4. QED
    BY <1>2, <1>3

(* A restart opens nothing, and no request is left to. *)
LEMMA ServerRestartLimit ==
  ASSUME IInv, LimitInv, ServerRestart
  PROVE  LimitInv'
  <1>1. UNCHANGED <<job, overlapped>>
    BY DEF ServerRestart
  <1>2. CASE overlapped
    BY <1>1, <1>2 DEF LimitInv
  <1>3. CASE ~overlapped
    <2>1. OpenJobIsActive /\ CountInvariant
      BY <1>3 DEF LimitInv
    <2>2. \A d \in Dispatchers : request'[d].at = "idle"
      BY DEF ServerRestart, IdleRequest
    <2>3. \A r \in Runs : run'[r] \in Active => run[r] \in Active
      BY DEF ServerRestart, EndedRun, Active
    <2>4. \A r \in Runs : job[r].state # "none" => run'[r] = run[r]
      BY DEF ServerRestart
    <2>5. OneRequestEach' /\ \A d \in Dispatchers : Unregistered(d)'
      BY <2>2 DEF OneRequestEach, Unregistered, At
    <2>6. OpenJobIsActive'
      BY <1>1, <2>1, <2>4 DEF OpenJobIsActive, Open
    <2>7. OpenJobs' = OpenJobs /\ Pending' \subseteq Pending /\ ActiveRuns' \subseteq ActiveRuns
      BY <1>1, <2>2, <2>3 DEF OpenJobs, Pending, ActiveRuns
    <2>8. IsFiniteSet(ActiveRuns')
      BY <2>1, <2>7, FS_Subset DEF CountInvariant
    <2>9. CountInvariant'
      BY <2>1, <2>7, <2>8, CountShrinks
    <2>10. QED
      BY <2>5, <2>6, <2>9 DEF LimitInv
  <1>4. QED
    BY <1>2, <1>3

LEMMA InitLimit == Init => LimitInv
  <1> SUFFICES ASSUME Init PROVE LimitInv
    OBVIOUS
  <1>1. /\ \A d \in Dispatchers : request[d].at = "idle"
        /\ \A r \in Runs : run[r] = "none" /\ job[r].state = "none"
    BY DEF Init, StoreInit, IdleRequest, NoJob
  <1>2. OneRequestEach /\ OpenJobIsActive /\ \A d \in Dispatchers : Unregistered(d)
    BY <1>1 DEF OneRequestEach, OpenJobIsActive, Unregistered, At, Open
  <1>3. ActiveRuns = {} /\ OpenJobs = {} /\ Pending = {}
    BY <1>1 DEF ActiveRuns, OpenJobs, Pending, Active, Open
  <1>4. IsFiniteSet({}) /\ Cardinality({}) = 0
    BY FS_EmptySet
  <1>5. Limit \in Nat \ {0} /\ Cardinality(Dispatchers) \in Nat
    BY FS_CardinalityType, ExternalDispatchAssumption
  <1>6. CountInvariant
    BY <1>3, <1>4, <1>5 DEF CountInvariant
  <1>7. QED
    BY <1>2, <1>6 DEF LimitInv

LEMMA NextLimit == IInv /\ LimitInv /\ [Next]_vars => LimitInv'
  <1> SUFFICES ASSUME IInv, LimitInv, [Next]_vars PROVE LimitInv'
    OBVIOUS
  <1>0. StoreTypeOK
    BY DEF IInv, TypeOK
  <1>1. ASSUME NEW d \in Dispatchers, NEW r \in Runs, Create(d, r) PROVE LimitInv'
    BY <1>1, CreateLimit
  <1>2. ASSUME NEW d \in Dispatchers, Lookup(d) PROVE LimitInv'
    BY <1>2, LookupLimit
  <1>3. ASSUME NEW d \in Dispatchers, CountForJob(d) PROVE LimitInv'
    BY <1>3, CountForJobLimit
  <1>4. ASSUME NEW d \in Dispatchers, RetryJob(d) PROVE LimitInv'
    BY <1>4, RetryJobLimit
  <1>5. ASSUME NEW d \in Dispatchers, RetryRunRow(d) PROVE LimitInv'
    BY <1>5, RetryRunRowLimit
  <1>6. ASSUME NEW d \in Dispatchers, Count(d) PROVE LimitInv'
    BY <1>6, CountLimit
  <1>7. ASSUME NEW d \in Dispatchers, Reject(d) PROVE LimitInv'
    BY <1>7, RejectLimit
  <1>8. ASSUME NEW d \in Dispatchers, Register(d) PROVE LimitInv'
    BY <1>8, RegisterLimit
  <1>9. ASSUME NEW r \in Runs, Cancel(r) \/ CancelRun(r) PROVE LimitInv'
    <2>1. Quiet
      BY <1>0, <1>9, QuietCancel
    <2>2. UNCHANGED <<request, overlapped>>
      BY <1>9 DEF Cancel, CancelRun, others
    <2>3. QED
      BY <2>1, <2>2, QuietLimit
  <1>10. ASSUME NEW r \in Runs, Work(r) PROVE LimitInv'
    <2>1. Quiet
      BY <1>0, <1>10, QuietWork
    <2>2. UNCHANGED <<request, overlapped>>
      BY <1>10 DEF Work, others
    <2>3. QED
      BY <2>1, <2>2, QuietLimit
  <1>11. CASE ServerRestart
    BY <1>11, ServerRestartLimit
  <1>12. CASE UNCHANGED vars
    <2>1. Quiet /\ UNCHANGED <<request, overlapped>>
      BY <1>12, QuietStay DEF vars, storeVars
    <2>2. QED
      BY <2>1, QuietLimit
  <1>13. ASSUME NEW d \in Dispatchers, Throws(d) PROVE LimitInv'
    <2>1. ~At(d, "idle") /\ UNCHANGED <<storeVars, overlapped>> /\ Returns(d)
      BY <1>13 DEF Throws, At
    <2>2. QED
      BY <2>1, ReadOnlyLimit
  <1>14. QED
    BY <1>1, <1>2, <1>3, <1>4, <1>5, <1>6, <1>7, <1>8, <1>9, <1>10, <1>11, <1>12, <1>13 DEF Next

(* Requests for different runs exceed the limit of open jobs at most by    *)
(* the number of the others under way, for any number of requests and runs.*)
THEOREM NearTheLimit == Spec => []LimitWithinOverlap
  <1>1. Init => IInv /\ LimitInv
    BY InitInv, InitLimit
  <1>2. IInv /\ LimitInv /\ [Next]_vars => IInv' /\ LimitInv'
    BY NextInv, NextLimit
  <1>3. LimitInv => LimitWithinOverlap
    <2> SUFFICES ASSUME LimitInv, ~overlapped
                 PROVE  Cardinality(OpenJobs) <= Limit + Cardinality(Dispatchers) - 1
      BY DEF LimitWithinOverlap
    <2>1. OpenJobIsActive /\ CountInvariant
      BY DEF LimitInv
    <2>2. /\ Cardinality(OpenJobs) \in Nat /\ Cardinality(Pending) \in Nat
          /\ Cardinality(Dispatchers) \in Nat /\ Limit \in Nat
      BY <2>1, Sizes DEF CountInvariant
    <2>3. QED
      BY <2>1, <2>2 DEF CountInvariant
  <1>4. QED
    BY <1>1, <1>2, <1>3, PTL DEF Spec
=============================================================================
