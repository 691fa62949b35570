-------------------------- MODULE ExternalDispatch --------------------------
(***************************************************************************)
(* RunService.enqueueExternal when several requests are dispatched at the  *)
(* same time: each is a sequence of repository calls (create, look for the *)
(* job, count the active runs, reopen or insert), and between two of them  *)
(* every other request, a cancel or a worker may go first.  A call may     *)
(* also throw.                                                             *)
(*                                                                         *)
(* All runs here belong to one owner, and no lease or deadline passes: the *)
(* clock, the crashes and the heartbeats are those of DurableQueue.        *)
(***************************************************************************)
EXTENDS RunStore, FiniteSets

CONSTANTS
    Dispatchers,  \* enqueueExternal calls that can be under way at once
    NoRun,        \* not a run
    Limit,        \* the smaller of maxRunsPerSubject and maxQueuedRuns
    MaxClaims,    \* bound: claims granted per run
    MaxCancels,   \* bound: cancels that are between their two statements
    MaxStranded   \* bound: runs that are stranded at one time

ASSUME ExternalDispatchAssumption ==
    /\ IsFiniteSet(Dispatchers)
    /\ NoRun \notin Runs
    /\ Limit \in Nat \ {0}
    /\ MaxClaims \in Nat /\ MaxCancels \in Nat /\ MaxStranded \in Nat

VARIABLES
    request,     \* where each enqueueExternal stands, and what create returned
    cancelling,  \* cancel found no job and is about to update the run row
    overlapped,  \* history: two requests for one run were under way together
    stranded     \* history: the runs left open by a request that threw, until the next one

vars == <<storeVars, request, cancelling, overlapped, stranded>>
others == <<cancelling, overlapped, stranded>>

Steps == {"idle", "lookup", "countJob", "retryJob", "retryRun", "count", "reject", "register"}

IdleRequest == [at |-> "idle", run |-> NoRun, seen |-> "none"]

TypeOK ==
    /\ StoreTypeOK
    /\ request \in [Dispatchers -> [at : Steps, run : Runs \cup {NoRun}, seen : RunStatus]]
    /\ cancelling \in [Runs -> BOOLEAN]
    /\ overlapped \in BOOLEAN
    /\ stranded \subseteq Runs

Init ==
    /\ StoreInit
    /\ request = [d \in Dispatchers |-> IdleRequest]
    /\ cancelling = [r \in Runs |-> FALSE]
    /\ overlapped = FALSE
    /\ stranded = {}

RunOf(d) == request[d].run
At(d, step) == request[d].at = step
Goes(d, step) == request' = [request EXCEPT ![d].at = step]
Returns(d) == request' = [request EXCEPT ![d] = IdleRequest]

(* activeCount *)
ActiveCount == Cardinality({r \in Runs : run[r] \in Active})

-----------------------------------------------------------------------------
(* enqueueExternalAccepted, call by call.                                  *)

(* create: INSERT ... ON CONFLICT DO NOTHING, and the row that is there. *)
Create(d, r) ==
    /\ At(d, "idle")
    /\ run[r] # "completed"
    /\ IF run[r] = "none" THEN CreateRun(r) ELSE UNCHANGED storeVars
    /\ request' = [request EXCEPT ![d] = [at |-> "lookup", run |-> r, seen |-> run'[r]]]
    /\ overlapped' = (overlapped \/ \E e \in Dispatchers : RunOf(e) = r)
    /\ stranded' = stranded \ {r}
    /\ UNCHANGED cancelling

Terminal(d) == request[d].seen \in {"failed", "cancelled"}

(* jobs.get; a job that is not in the state of its run is left alone. *)
Lookup(d) ==
    /\ At(d, "lookup")
    /\ \/ /\ job[RunOf(d)].state = "none"
          /\ Goes(d, IF Terminal(d) THEN "retryRun" ELSE "count")
       \/ /\ job[RunOf(d)].state # "none"
          /\ IF Terminal(d) /\ job[RunOf(d)].state = request[d].seen
             THEN Goes(d, "countJob") ELSE Returns(d)
    /\ UNCHANGED <<storeVars, others>>

JobLimitExceeded_StrictlyMore == ActiveCount > Limit

JobLimitExceeded == ActiveCount >= Limit

(* The terminal run does not count itself. *)
CountForJob(d) ==
    /\ At(d, "countJob")
    /\ IF JobLimitExceeded THEN Returns(d) ELSE Goes(d, "retryJob")
    /\ UNCHANGED <<storeVars, others>>

RetryJob(d) ==
    /\ At(d, "retryJob")
    /\ RetryTerminal(RunOf(d), 0) \/ (~Retriable(RunOf(d)) /\ UNCHANGED storeVars)
    /\ Returns(d)
    /\ UNCHANGED others

(* RunRepository.retryTerminal: compare with the status create returned. *)
RetryRunRow(d) ==
    /\ At(d, "retryRun")
    /\ \/ run[RunOf(d)] = request[d].seen /\ RetryRun(RunOf(d)) /\ Goes(d, "count")
       \/ run[RunOf(d)] # request[d].seen /\ UNCHANGED storeVars /\ Returns(d)
    /\ UNCHANGED others

(* The run counts itself. *)
Count(d) ==
    /\ At(d, "count")
    /\ Goes(d, IF ActiveCount > Limit THEN "reject" ELSE "register")
    /\ UNCHANGED <<storeVars, others>>

Reject_RunLeft(d) ==
    /\ At(d, "reject")
    /\ Returns(d)
    /\ UNCHANGED <<storeVars, others>>

Reject(d) ==
    /\ At(d, "reject")
    /\ FailRun(RunOf(d))
    /\ Returns(d)
    /\ UNCHANGED others

(* putInput and enqueue, or either of them throws. *)
Register(d) ==
    /\ At(d, "register")
    /\ \/ EnqueueJob(RunOf(d), 0) /\ Returns(d)
       \/ UNCHANGED storeVars /\ Goes(d, "reject")
    /\ UNCHANGED others

(* A call throws where nobody catches it: the row of the run stays as it   *)
(* is, and no job follows.  Where there is a job nothing is left undone.   *)
Throws(d) ==
    /\ request[d].at \in {"lookup", "retryRun", "count", "reject"}
    /\ Returns(d)
    /\ stranded' = stranded \cup {r \in {RunOf(d)} : run[r] \in Active /\ job[r].state = "none"}
    /\ Cardinality(stranded') <= MaxStranded
    /\ UNCHANGED <<storeVars, cancelling, overlapped>>

-----------------------------------------------------------------------------
(* cancel, the workers, and a restart of the server.                       *)

Cancel(r) ==
    \/ /\ job[r].state # "none"
       /\ CancelJob(r)
       /\ UNCHANGED <<request, others>>
    \/ /\ job[r].state = "none"
       /\ run[r] # "none"
       /\ Cardinality({s \in Runs : cancelling[s]}) < MaxCancels
       /\ cancelling' = [cancelling EXCEPT ![r] = TRUE]
       /\ UNCHANGED <<storeVars, request, overlapped, stranded>>

CancelRun(r) ==
    /\ cancelling[r]
    /\ RequestCancellation(r)
    /\ cancelling' = [cancelling EXCEPT ![r] = FALSE]
    /\ UNCHANGED <<request, overlapped, stranded>>

Work(r) ==
    /\ \/ claims[r] < MaxClaims /\ Claim(r, 0)
       \/ /\ job[r].state = "running"
          /\ \/ Complete(r, claims[r], 0)
             \/ \E retryable \in BOOLEAN : Fail(r, claims[r], 0, retryable)
    /\ UNCHANGED <<request, others>>

(* initialize: recoverStaleRuns fails the open runs without a job. *)
ServerRestart ==
    /\ run' = [r \in Runs |-> IF job[r].state = "none" THEN EndedRun(run[r], "failed") ELSE run[r]]
    /\ request' = [d \in Dispatchers |-> IdleRequest]
    /\ cancelling' = [r \in Runs |-> FALSE]
    /\ stranded' = {}
    /\ UNCHANGED <<job, output, claims, overlapped>>

Next ==
    \/ \E d \in Dispatchers :
          \/ \E r \in Runs : Create(d, r)
          \/ Lookup(d)
          \/ CountForJob(d)
          \/ RetryJob(d)
          \/ RetryRunRow(d)
          \/ Count(d)
          \/ Reject(d)
          \/ Register(d)
          \/ Throws(d)
    \/ \E r \in Runs : Cancel(r) \/ CancelRun(r) \/ Work(r)
    \/ ServerRestart

Spec == Init /\ [][Next]_vars

-----------------------------------------------------------------------------
(* Properties *)

OpenJobs == {r \in Runs : job[r].state \in Open}

(* An open run is somebody's: it has a job, or a request that will either  *)
(* insert the job or fail the run.  Nothing else would ever end it: a run  *)
(* without a job has no deadline and no lease.  Left out are the runs that *)
(* a failed call has stranded, until somebody asks for them again: only a  *)
(* restart of the server ends those.                                       *)
OpenRunHasOwner ==
    \A r \in Runs :
        (run[r] \in Active /\ job[r].state = "none")
            => r \in stranded \/ \E d \in Dispatchers : RunOf(d) = r

(* Counting before reopening and counting after inserting keep the jobs    *)
(* near the limit: requests for different runs exceed it at most by the    *)
(* number of the others under way at the same time.                        *)
LimitWithinOverlap ==
    ~overlapped => Cardinality(OpenJobs) <= Limit + Cardinality(Dispatchers) - 1
=============================================================================
