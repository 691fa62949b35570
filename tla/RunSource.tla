----------------------------- MODULE RunSource -----------------------------
(***************************************************************************)
(* What the simulation service promises about a run to those who follow   *)
(* its events: the status column moves forward, and a terminal event comes *)
(* after the end was stored and names that end, or a failure of the start. *)
(* SimulationSessions implements it and RunEvents relies on it.            *)
(***************************************************************************)
CONSTANT Runs

VARIABLES
    status,   \* portfolio_backtest_runs.status, "none" before the INSERT
    announced \* the status of the terminal event that was published, or "none"

sourceVars == <<status, announced>>

Active == {"queued", "running", "cancel_requested"}
Over   == {"completed", "cancelled", "failed"}

SourceInit ==
    /\ status = [r \in Runs |-> "none"]
    /\ announced = [r \in Runs |-> "none"]

MayBecome(s) ==
    CASE s = "none"             -> {"queued"}
      [] s = "queued"           -> {"running", "cancel_requested"} \cup Over
      [] s = "running"          -> {"cancel_requested"} \cup Over
      [] s = "cancel_requested" -> {"cancelled", "failed"}
      [] OTHER                  -> {}

Move(r) ==
    /\ \E s \in MayBecome(status[r]) : status' = [status EXCEPT ![r] = s]
    /\ UNCHANGED announced

Announce(r, s) ==
    /\ status[r] \in Over /\ announced[r] = "none"
    /\ s \in {status[r], "failed"}
    /\ announced' = [announced EXCEPT ![r] = s]
    /\ UNCHANGED status

(* The end is stored and announced at once, as far as anyone can see. *)
End(r) ==
    \E s \in MayBecome(status[r]) \cap Over :
        /\ status' = [status EXCEPT ![r] = s]
        /\ announced' = [announced EXCEPT ![r] = IF @ = "none" THEN s ELSE @]

(* The server starts again: recoverStaleRuns fails what was open, and the   *)
(* events, kept in memory only, are gone.                                   *)
SourceRestart ==
    /\ status' = [r \in Runs |-> IF status[r] \in Active THEN "failed" ELSE status[r]]
    /\ announced' = [r \in Runs |-> "none"]

SourceNext == SourceRestart \/ \E r \in Runs : Move(r) \/ End(r) \/ \E s \in Over : Announce(r, s)

SourceSpec == SourceInit /\ [][SourceNext]_sourceVars
=============================================================================
