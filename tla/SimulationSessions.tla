------------------------- MODULE SimulationSessions -------------------------
(***************************************************************************)
(* AiTradingSimulationService: start, the initialization of a session, its *)
(* timers, cancel, the one finalization of a session, and close.  A step   *)
(* is what runs between two awaits, with the statement or the call it      *)
(* waits for.  The runs are those of one owner, as the server has it.      *)
(*                                                                         *)
(* A statement that fails has written nothing.                             *)
(*                                                                         *)
(* Definitions with a word after "_" are wrong on purpose, as in RunStore. *)
(***************************************************************************)
EXTENDS RunSource

VARIABLES
    start,     \* where startReserved stands
    active,    \* whether the session is in this.active
    phase,     \* session.phase
    init,      \* where initialize stands
    feed,      \* the retained subscriptions that have not been released
    release,   \* those that session.release releases
    timers,    \* whether endTimer and progressTimer are armed
    progress,  \* session.progressTask
    final,     \* where session.finalizationTask stands
    intent,    \* the end that finalization is to store
    cancel,    \* where a call of cancel stands, and the status it read
    closing,   \* where close stands
    unwritten  \* the end of the run could not be stored

sessionVars == <<active, phase, feed, release, timers, final, intent>>
simVars     == <<sourceVars, start, sessionVars, init, progress, cancel, closing, unwritten>>

Open == {"queued", "running"}
Live == {"selecting", "running"}

NoCancel == [at |-> "none", seen |-> "none"]

SimulationTypeOK ==
    /\ status \in [Runs -> {"none"} \cup Active \cup Over]
    /\ announced \in [Runs -> {"none"} \cup Over]
    /\ start \in [Runs -> {"none", "create", "mark", "event", "failing"}]
    /\ active \in [Runs -> BOOLEAN]
    /\ phase \in [Runs -> {"none", "finalizing"} \cup Live \cup Over]
    /\ init \in [Runs -> {"none", "scan", "retain", "select", "retainSelected", "prepare", "ready"}]
    /\ feed \in [Runs -> SUBSET {"candidates", "selected"}]
    /\ release \in [Runs -> SUBSET {"candidates", "selected"}]
    /\ timers \in [Runs -> BOOLEAN]
    /\ progress \in [Runs -> {"none", "ask", "persist", "finish"}]
    /\ final \in [Runs -> {"none", "ask", "persist", "write", "recheck", "salvage", "close", "done"}]
    /\ intent \in [Runs -> {"none"} \cup Over]
    /\ cancel \in [Runs -> [at : {"none", "request", "act", "wait"}, seen : {"none"} \cup Active \cup Over]]
    /\ closing \in {"open", "starts", "sessions", "progress", "closed"}
    /\ unwritten \in [Runs -> BOOLEAN]

SimulationInit ==
    /\ SourceInit
    /\ start = [r \in Runs |-> "none"]
    /\ active = [r \in Runs |-> FALSE]
    /\ phase = [r \in Runs |-> "none"]
    /\ init = [r \in Runs |-> "none"]
    /\ feed = [r \in Runs |-> {}]
    /\ release = [r \in Runs |-> {}]
    /\ timers = [r \in Runs |-> FALSE]
    /\ progress = [r \in Runs |-> "none"]
    /\ final = [r \in Runs |-> "none"]
    /\ intent = [r \in Runs |-> "none"]
    /\ cancel = [r \in Runs |-> NoCancel]
    /\ closing = "open"
    /\ unwritten = [r \in Runs |-> FALSE]

-----------------------------------------------------------------------------
(* complete, cancel and fail of the repository write an active run only.    *)
Ended(s, end) == IF s \in Active THEN end ELSE s

(* publishTerminal: the hub takes the first terminal event of a run. *)
Announced(r, end) ==
    announced' = [announced EXCEPT ![r] = IF @ = "none" THEN end ELSE @]

NoFinalization == UNCHANGED sessionVars

BeginFinalization_Unreleased(r, end) ==
    /\ phase' = [phase EXCEPT ![r] = "finalizing"]
    /\ final' = [final EXCEPT ![r] = IF end = "completed" THEN "ask" ELSE "persist"]
    /\ intent' = [intent EXCEPT ![r] = end]
    /\ release' = [release EXCEPT ![r] = {}]
    /\ timers' = [timers EXCEPT ![r] = FALSE]
    /\ UNCHANGED <<active, feed>>

(* finish and fail, where the phase admits begin_finalization, up to their  *)
(* first await: cleanupSimulationRuntime clears the timers and releases the *)
(* subscriptions.                                                           *)
BeginFinalization(r, end) ==
    /\ phase' = [phase EXCEPT ![r] = "finalizing"]
    /\ final' = [final EXCEPT ![r] = IF end = "completed" THEN "ask" ELSE "persist"]
    /\ intent' = [intent EXCEPT ![r] = end]
    /\ feed' = [feed EXCEPT ![r] = @ \ release[r]]
    /\ release' = [release EXCEPT ![r] = {}]
    /\ timers' = [timers EXCEPT ![r] = FALSE]
    /\ UNCHANGED active

(* finish and fail: the session is finalized once. *)
Finish(r, end) ==
    IF final[r] = "none" /\ phase[r] \in Live THEN BeginFinalization(r, end)
    ELSE NoFinalization

-----------------------------------------------------------------------------
(* start *)

(* The owner has no session and no start in flight; runs.create is called. *)
StartRun(r) ==
    /\ closing = "open"
    /\ status[r] = "none"
    /\ \A s \in Runs : start[s] = "none" /\ ~active[s]
    /\ start' = [start EXCEPT ![r] = "create"]
    /\ UNCHANGED <<sourceVars, sessionVars, init, progress, cancel, closing, unwritten>>

CreateRun(r) ==
    /\ start[r] = "create"
    /\ \/ /\ status' = [status EXCEPT ![r] = "queued"]
          /\ start' = [start EXCEPT ![r] = "mark"]
       \/ /\ start' = [start EXCEPT ![r] = "none"]
          /\ UNCHANGED status
    /\ UNCHANGED <<announced, sessionVars, init, progress, cancel, closing, unwritten>>

MarkRunning(r) ==
    /\ start[r] = "mark"
    /\ \/ /\ status[r] = "queued"
          /\ status' = [status EXCEPT ![r] = "running"]
          /\ start' = [start EXCEPT ![r] = "event"]
       \/ /\ start' = [start EXCEPT ![r] = "failing"]
          /\ UNCHANGED status
    /\ UNCHANGED <<announced, sessionVars, init, progress, cancel, closing, unwritten>>

(* addEvent, and then the session is created and initialize runs. *)
SessionCreated(r) ==
    /\ start[r] = "event"
    /\ \/ /\ start' = [start EXCEPT ![r] = "none"]
          /\ active' = [active EXCEPT ![r] = TRUE]
          /\ phase' = [phase EXCEPT ![r] = "selecting"]
          /\ init' = [init EXCEPT ![r] = "scan"]
       \/ /\ start' = [start EXCEPT ![r] = "failing"]
          /\ UNCHANGED <<active, phase, init>>
    /\ UNCHANGED <<sourceVars, feed, release, timers, final, intent, progress, cancel, closing, unwritten>>

StartFails_NotFailed(r) ==
    /\ start[r] = "failing"
    /\ start' = [start EXCEPT ![r] = "none"]
    /\ UNCHANGED <<sourceVars, sessionVars, init, progress, cancel, closing, unwritten>>

(* The catch of startReserved *)
StartFails(r) ==
    /\ start[r] = "failing"
    /\ start' = [start EXCEPT ![r] = "none"]
    /\ \/ /\ status' = [status EXCEPT ![r] = Ended(@, "failed")]
          /\ Announced(r, "failed")
          /\ UNCHANGED unwritten
       \/ /\ unwritten' = [unwritten EXCEPT ![r] = TRUE]
          /\ UNCHANGED sourceVars
    /\ UNCHANGED <<sessionVars, init, progress, cancel, closing>>

-----------------------------------------------------------------------------
(* initialize *)

InitGoes(r, from, to) ==
    /\ init[r] = from
    /\ init' = [init EXCEPT ![r] = IF phase[r] = "selecting" THEN to ELSE "none"]
    /\ UNCHANGED <<sourceVars, start, active, final, intent, progress, cancel, closing, unwritten>>

Scanned(r) ==
    /\ InitGoes(r, "scan", "retain")
    /\ UNCHANGED <<phase, feed, release, timers>>

(* A session that ended while live.retain was awaited releases at once. *)
CandidatesRetained(r) ==
    /\ InitGoes(r, "retain", "select")
    /\ IF phase[r] = "selecting"
       THEN /\ feed' = [feed EXCEPT ![r] = {"candidates"}]
            /\ release' = [release EXCEPT ![r] = {"candidates"}]
       ELSE UNCHANGED <<feed, release>>
    /\ UNCHANGED <<phase, timers>>

Selected(r) ==
    /\ InitGoes(r, "select", "retainSelected")
    /\ UNCHANGED <<phase, feed, release, timers>>

(* The selected symbols are retained before the candidates are released. *)
SelectedRetained(r) ==
    /\ InitGoes(r, "retainSelected", "prepare")
    /\ IF phase[r] = "selecting"
       THEN /\ feed' = [feed EXCEPT ![r] = {"selected"}]
            /\ release' = [release EXCEPT ![r] = {"candidates", "selected"}]
       ELSE UNCHANGED <<feed, release>>
    /\ UNCHANGED <<phase, timers>>

(* The first decision is recorded and the session runs. *)
Prepared(r) ==
    /\ InitGoes(r, "prepare", "ready")
    /\ phase' = [phase EXCEPT ![r] = IF @ = "selecting" THEN "running" ELSE @]
    /\ UNCHANGED <<feed, release, timers>>

(* What initialize writes last is stored, and the timers are armed. *)
TimersArmed(r) ==
    /\ init[r] = "ready"
    /\ init' = [init EXCEPT ![r] = "none"]
    /\ timers' = [timers EXCEPT ![r] = phase[r] = "running"]
    /\ UNCHANGED <<sourceVars, start, active, phase, feed, release, final, intent, progress, cancel,
                   closing, unwritten>>

(* initialize throws: a call it makes fails. *)
InitFails(r) ==
    /\ init[r] # "none"
    /\ init' = [init EXCEPT ![r] = "none"]
    /\ Finish(r, "failed")
    /\ UNCHANGED <<sourceVars, start, progress, cancel, closing, unwritten>>

InitStep(r) ==
    \/ Scanned(r) \/ CandidatesRetained(r) \/ Selected(r) \/ SelectedRetained(r)
    \/ Prepared(r) \/ TimersArmed(r) \/ InitFails(r)

-----------------------------------------------------------------------------
(* The timers *)

EndTimer(r) ==
    /\ timers[r]
    /\ Finish(r, "completed")
    /\ UNCHANGED <<sourceVars, start, init, progress, cancel, closing, unwritten>>

(* queueProgress *)
ProgressTimer(r) ==
    /\ timers[r] /\ phase[r] = "running" /\ closing = "open"
    /\ progress[r] = "none"
    /\ progress' = [progress EXCEPT ![r] = "ask"]
    /\ UNCHANGED <<sourceVars, start, sessionVars, init, cancel, closing, unwritten>>

(* isCancellationRequested of progress, and what it leads to: the end that  *)
(* was requested, the end of the period, or a report.                       *)
ProgressAsked(r) ==
    /\ progress[r] = "ask"
    /\ \/ /\ phase[r] = "running"
          /\ Finish(r, IF status[r] = "cancel_requested" THEN "cancelled" ELSE "completed")
          /\ progress' = [progress EXCEPT ![r] = "finish"]
       \/ /\ phase[r] = "running" /\ status[r] # "cancel_requested"
          /\ progress' = [progress EXCEPT ![r] = "persist"]
          /\ NoFinalization
       \/ /\ progress' = [progress EXCEPT ![r] = "none"]
          /\ NoFinalization
    /\ UNCHANGED <<sourceVars, start, init, cancel, closing, unwritten>>

ProgressEnds(r) ==
    /\ \/ progress[r] = "persist"
       \/ progress[r] = "finish" /\ final[r] = "done"
    /\ progress' = [progress EXCEPT ![r] = "none"]
    /\ UNCHANGED <<sourceVars, start, sessionVars, init, cancel, closing, unwritten>>

-----------------------------------------------------------------------------
(* finalize and finalizeFailure *)

FinalGoes(r, from) ==
    /\ final[r] = from
    /\ UNCHANGED <<start, feed, release, timers, init, progress, cancel, closing>>

(* isCancellationRequested before a completion *)
CancellationAsked(r) ==
    /\ FinalGoes(r, "ask")
    /\ \/ /\ final' = [final EXCEPT ![r] = "persist"]
          /\ intent' = [intent EXCEPT ![r] = IF status[r] = "cancel_requested" THEN "cancelled" ELSE @]
       \/ /\ final' = [final EXCEPT ![r] = "salvage"]
          /\ UNCHANGED intent
    /\ UNCHANGED <<sourceVars, active, phase, unwritten>>

(* The phase of the end, and the artifacts, whose errors are swallowed *)
ArtifactsPersisted(r) ==
    /\ FinalGoes(r, "persist")
    /\ phase' = [phase EXCEPT ![r] = intent[r]]
    /\ final' = [final EXCEPT ![r] = "write"]
    /\ UNCHANGED <<sourceVars, active, intent, unwritten>>

EndWritten_AnnouncedAlways(r) ==
    /\ FinalGoes(r, "write")
    /\ status' = [status EXCEPT ![r] =
                    IF intent[r] = "completed" /\ @ \notin Open THEN @ ELSE Ended(@, intent[r])]
    /\ Announced(r, intent[r])
    /\ final' = [final EXCEPT ![r] = "close"]
    /\ UNCHANGED <<active, phase, intent, unwritten>>

(* complete, cancel or fail of the repository, and publishTerminal.  A      *)
(* completion that finds the run no longer open looks at it again; an error *)
(* leads to the catch of finalize, and out of finalizeFailure.              *)
EndWritten(r) ==
    /\ FinalGoes(r, "write")
    /\ \/ /\ intent[r] = "completed" => status[r] \in Open
          /\ status' = [status EXCEPT ![r] = Ended(@, intent[r])]
          /\ Announced(r, intent[r])
          /\ final' = [final EXCEPT ![r] = "close"]
          /\ UNCHANGED unwritten
       \/ /\ intent[r] = "completed" /\ status[r] \notin Open
          /\ final' = [final EXCEPT ![r] = "recheck"]
          /\ UNCHANGED <<sourceVars, unwritten>>
       \/ /\ final' = [final EXCEPT ![r] = IF intent[r] = "failed" THEN "close" ELSE "salvage"]
          /\ unwritten' = [unwritten EXCEPT ![r] = intent[r] = "failed"]
          /\ UNCHANGED sourceVars
    /\ UNCHANGED <<active, phase, intent>>

(* The completion was not applied: a cancellation came first, or the run    *)
(* has ended.                                                               *)
EndRechecked(r) ==
    /\ FinalGoes(r, "recheck")
    /\ \/ /\ status[r] = "cancel_requested"
          /\ intent' = [intent EXCEPT ![r] = "cancelled"]
          /\ phase' = [phase EXCEPT ![r] = "cancelled"]
          /\ final' = [final EXCEPT ![r] = "write"]
          /\ UNCHANGED announced
       \/ /\ status[r] \in Over
          /\ Announced(r, status[r])
          /\ final' = [final EXCEPT ![r] = "close"]
          /\ UNCHANGED <<intent, phase>>
       \/ /\ final' = [final EXCEPT ![r] = "salvage"]
          /\ UNCHANGED <<announced, intent, phase>>
    /\ UNCHANGED <<status, active, unwritten>>

(* The catch of finalize *)
Salvaged(r) ==
    /\ FinalGoes(r, "salvage")
    /\ final' = [final EXCEPT ![r] = "close"]
    /\ \/ /\ status' = [status EXCEPT ![r] = Ended(@, "failed")]
          /\ Announced(r, "failed")
          /\ UNCHANGED unwritten
       \/ /\ unwritten' = [unwritten EXCEPT ![r] = TRUE]
          /\ UNCHANGED sourceVars
    /\ UNCHANGED <<active, phase, intent>>

SessionRemoved_AwaitsProgress(r) ==
    /\ FinalGoes(r, "close") /\ progress[r] = "none"
    /\ active' = [active EXCEPT ![r] = FALSE]
    /\ final' = [final EXCEPT ![r] = "done"]
    /\ UNCHANGED <<sourceVars, phase, intent, unwritten>>

(* The checkpoint is closed and the session leaves this.active. *)
SessionRemoved(r) ==
    /\ FinalGoes(r, "close")
    /\ active' = [active EXCEPT ![r] = FALSE]
    /\ final' = [final EXCEPT ![r] = "done"]
    /\ UNCHANGED <<sourceVars, phase, intent, unwritten>>

FinalStep(r) ==
    \/ CancellationAsked(r) \/ ArtifactsPersisted(r) \/ EndWritten(r) \/ EndRechecked(r)
    \/ Salvaged(r) \/ SessionRemoved(r)

-----------------------------------------------------------------------------
(* cancel *)

CancelCalled(r) ==
    /\ cancel[r].at = "none" /\ status[r] # "none"
    /\ cancel' = [cancel EXCEPT ![r] =
                    [at |-> IF status[r] \in Open THEN "request" ELSE "act", seen |-> status[r]]]
    /\ UNCHANGED <<sourceVars, start, sessionVars, init, progress, closing, unwritten>>

CancelRequested(r) ==
    /\ cancel[r].at = "request"
    /\ \/ /\ status' = [status EXCEPT ![r] = IF @ \in Open THEN "cancel_requested" ELSE @]
          /\ cancel' = [cancel EXCEPT ![r].at = "act"]
       \/ /\ cancel' = [cancel EXCEPT ![r] = NoCancel]
          /\ UNCHANGED status
    /\ UNCHANGED <<announced, start, sessionVars, init, progress, closing, unwritten>>

(* The session is finished, or the run of no session is ended; the call     *)
(* that finds neither is over.                                              *)
CancelActs(r) ==
    /\ cancel[r].at = "act"
    /\ \/ /\ active[r]
          /\ Finish(r, "cancelled")
          /\ cancel' = [cancel EXCEPT ![r].at = "wait"]
          /\ UNCHANGED status
       \/ /\ ~active[r]
          /\ status' = [status EXCEPT ![r] = IF cancel[r].seen \in Active
                                             THEN Ended(@, "cancelled") ELSE @]
          /\ cancel' = [cancel EXCEPT ![r] = NoCancel]
          /\ NoFinalization
    /\ UNCHANGED <<announced, start, init, progress, closing, unwritten>>

CancelReturns(r) ==
    /\ cancel[r].at = "wait" /\ final[r] = "done"
    /\ cancel' = [cancel EXCEPT ![r] = NoCancel]
    /\ UNCHANGED <<sourceVars, start, sessionVars, init, progress, closing, unwritten>>

-----------------------------------------------------------------------------
(* close *)

CloseCalled ==
    /\ closing = "open"
    /\ closing' = "starts"
    /\ UNCHANGED <<sourceVars, start, sessionVars, init, progress, cancel, unwritten>>

StartsSettled_NotAwaited ==
    /\ closing = "starts"
    /\ closing' = "sessions"
    /\ IF \E r \in Runs : active[r]
       THEN \E r \in Runs : active[r] /\ Finish(r, "cancelled")
       ELSE NoFinalization
    /\ UNCHANGED <<sourceVars, start, init, progress, cancel, unwritten>>

(* closeActiveSessions finishes the sessions once no start is in flight;    *)
(* one owner has one.                                                       *)
StartsSettled ==
    /\ closing = "starts"
    /\ \A r \in Runs : start[r] = "none"
    /\ closing' = "sessions"
    /\ IF \E r \in Runs : active[r]
       THEN \E r \in Runs : active[r] /\ Finish(r, "cancelled")
       ELSE NoFinalization
    /\ UNCHANGED <<sourceVars, start, init, progress, cancel, unwritten>>

SessionsFinished ==
    /\ closing = "sessions"
    /\ \A r \in Runs : final[r] \in {"none", "done"}
    /\ closing' = "progress"
    /\ UNCHANGED <<sourceVars, start, sessionVars, init, progress, cancel, unwritten>>

ProgressSettled ==
    /\ closing = "progress"
    /\ \A r \in Runs : progress[r] = "none"
    /\ closing' = "closed"
    /\ UNCHANGED <<sourceVars, start, sessionVars, init, progress, cancel, unwritten>>

(* The process dies at any point; the next one fails the runs it finds open. *)
ServerRestart ==
    /\ SourceRestart
    /\ start' = [r \in Runs |-> "none"]
    /\ active' = [r \in Runs |-> FALSE]
    /\ phase' = [r \in Runs |-> "none"]
    /\ init' = [r \in Runs |-> "none"]
    /\ feed' = [r \in Runs |-> {}]
    /\ release' = [r \in Runs |-> {}]
    /\ timers' = [r \in Runs |-> FALSE]
    /\ progress' = [r \in Runs |-> "none"]
    /\ final' = [r \in Runs |-> "none"]
    /\ intent' = [r \in Runs |-> "none"]
    /\ cancel' = [r \in Runs |-> NoCancel]
    /\ closing' = "open"
    /\ unwritten' = [r \in Runs |-> FALSE]

-----------------------------------------------------------------------------
StartStep(r)    == CreateRun(r) \/ MarkRunning(r) \/ SessionCreated(r) \/ StartFails(r)
TimerStep(r)    == ProgressTimer(r) \/ ProgressAsked(r) \/ ProgressEnds(r)
CancelStep(r)   == CancelRequested(r) \/ CancelActs(r) \/ CancelReturns(r)
CloseStep       == StartsSettled \/ SessionsFinished \/ ProgressSettled

SimulationNext ==
    \/ \E r \in Runs :
         \/ StartRun(r) \/ StartStep(r) \/ InitStep(r) \/ EndTimer(r) \/ TimerStep(r)
         \/ FinalStep(r) \/ CancelCalled(r) \/ CancelStep(r)
    \/ CloseCalled \/ CloseStep
    \/ ServerRestart

(* The database and the market answer, the timers fire. *)
SimulationFairness ==
    /\ \A r \in Runs :
         /\ WF_simVars(StartStep(r)) /\ WF_simVars(InitStep(r)) /\ WF_simVars(EndTimer(r))
         /\ WF_simVars(ProgressAsked(r)) /\ WF_simVars(ProgressEnds(r))
         /\ WF_simVars(FinalStep(r)) /\ WF_simVars(CancelStep(r))
    /\ WF_simVars(CloseStep)

SimulationSpec == SimulationInit /\ [][SimulationNext]_simVars /\ SimulationFairness

-----------------------------------------------------------------------------
(* Properties *)

(* A run that is open has somebody who will end it: its start, its session  *)
(* or a cancel call.  The exception is a run whose end could not be stored: *)
(* the catch blocks do not try again and the run stays open until the next  *)
(* start of the server.                                                     *)
OpenRunHasDriver ==
    \A r \in Runs : status[r] \in Active =>
        start[r] # "none" \/ active[r] \/ cancel[r].at = "act" \/ unwritten[r]

(* Subscriptions to the live feed belong to a session that is live and      *)
(* would release them, whatever await of initialize its end overtakes.      *)
FeedIsOwned ==
    \A r \in Runs : feed[r] # {} => phase[r] \in Live /\ feed[r] \subseteq release[r]

(* The terminal event follows the stored end and does not contradict it,    *)
(* with cancel, completion and failure competing for the end.               *)
ImplementsSource == SourceSpec

(* close leaves no session and no start behind, whichever were in flight    *)
(* when it was called.                                                      *)
ClosedLeavesNothing ==
    closing = "closed" => \A r \in Runs : start[r] = "none" /\ ~active[r]

(* close completes, although it waits for starts, sessions and progress     *)
(* tasks, and a progress task waits for the end of its session.             *)
CloseCompletes == closing = "starts" ~> closing \in {"open", "closed"}
=============================================================================
