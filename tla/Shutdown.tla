------------------------------- MODULE Shutdown -------------------------------
(***************************************************************************)
(* GracefulLifecycle with the gate in front of the routes, the tracker of  *)
(* SSE streams and the services that onShutdownStart closes.  A request    *)
(* that passed the gate may still be on its way to a stream when shutdown  *)
(* begins, its client may leave while it is handled, and a service may     *)
(* take longer than there is time, or hang.                                *)
(*                                                                         *)
(* Definitions with a word after "_" are wrong on purpose, as in RunStore. *)
(***************************************************************************)
EXTENDS Naturals, FiniteSets

CONSTANTS
    Requests,
    MaxStreams,  \* maximumConnections of the tracker
    Services     \* the shutdownSteps of onShutdownStart

VARIABLES
    stage,     \* where performShutdown stands
    request,   \* where each request stands; "cut" is handled without a connection
    service,
    forced,    \* the drain budget was exceeded
    database   \* whether historyStore is open

shutdownVars == <<stage, request, service, forced, database>>

ShutdownTypeOK ==
    /\ stage \in {"up", "drain", "finalize", "drained", "stopped", "exited"}
    /\ request \in [Requests -> {"none", "handled", "stream", "cut", "done"}]
    /\ service \in [Services -> {"open", "closing", "settled"}]
    /\ forced \in BOOLEAN
    /\ database \in {"open", "closed"}

ShutdownInit ==
    /\ stage = "up"
    /\ request = [r \in Requests |-> "none"]
    /\ service = [s \in Services |-> "open"]
    /\ forced = FALSE
    /\ database = "open"

-----------------------------------------------------------------------------
(* Requests, until the process exits *)

RequestGoes(r, to) ==
    /\ stage # "exited"
    /\ request' = [request EXCEPT ![r] = to]
    /\ UNCHANGED <<stage, service, forced, database>>

(* The gate lets requests through until shutdown begins. *)
Arrives(r) == stage = "up" /\ request[r] = "none" /\ RequestGoes(r, "handled")

Track_StillClosing(r) == request[r] = "handled" /\ RequestGoes(r, "stream")

Streams == {r \in Requests : request[r] = "stream"}

(* track refuses a stream once the tracker is closing, or is full; the      *)
(* request is answered with an error then.                                  *)
Track(r) ==
    /\ request[r] = "handled"
    /\ RequestGoes(r, IF stage = "up" /\ Cardinality(Streams) < MaxStreams THEN "stream" ELSE "done")

RequestEnds(r) == request[r] \in {"handled", "stream", "cut"} /\ RequestGoes(r, "done")

(* The client leaves: the connection ends, and the handler goes on.  A      *)
(* stream that loses its connection ends.                                   *)
ClientGone(r) == request[r] = "handled" /\ RequestGoes(r, "cut")

-----------------------------------------------------------------------------
(* performShutdown *)

(* beginShutdown of the gate, closeAll of the tracker, onShutdownStart *)
ShutdownBegins ==
    /\ stage = "up"
    /\ stage' = "drain"
    /\ request' = [r \in Requests |-> IF request[r] = "stream" THEN "done" ELSE request[r]]
    /\ service' = [s \in Services |-> "closing"]
    /\ UNCHANGED <<forced, database>>

ServiceSettles(s) ==
    /\ service[s] = "closing" /\ stage # "exited"
    /\ service' = [service EXCEPT ![s] = "settled"]
    /\ UNCHANGED <<stage, request, forced, database>>

StartSettled == \A s \in Services : service[s] = "settled"

(* server.close waits for the connections, not for the handlers.            *)
Drained ==
    /\ stage = "drain"
    /\ StartSettled /\ \A r \in Requests : request[r] \notin {"handled", "stream"}
    /\ stage' = "finalize"
    /\ UNCHANGED <<request, service, forced, database>>

(* The timer of the drain: the connections are destroyed, and the handlers  *)
(* behind them go on.                                                       *)
DrainDeadline ==
    /\ stage = "drain"
    /\ stage' = "finalize"
    /\ forced' = TRUE
    /\ request' = [r \in Requests |-> CASE request[r] = "handled" -> "cut"
                                        [] request[r] = "stream"  -> "done"
                                        [] OTHER                  -> request[r]]
    /\ UNCHANGED <<service, database>>

Finalize_Always ==
    /\ stage = "finalize"
    /\ stage' = "drained"
    /\ UNCHANGED <<request, service, forced, database>>

(* onDrained is left out when the services have not settled. *)
Finalize ==
    /\ stage = "finalize"
    /\ stage' = IF StartSettled THEN "drained" ELSE "stopped"
    /\ UNCHANGED <<request, service, forced, database>>

(* onDrained: the history store is closed, or that fails. *)
StoreClosed ==
    /\ stage = "drained"
    /\ stage' = "stopped"
    /\ database' \in {"open", "closed"}
    /\ UNCHANGED <<request, service, forced>>

(* After onStopped, or when the time for it is over *)
Exit ==
    /\ stage \in {"drained", "stopped"}
    /\ stage' = "exited"
    /\ UNCHANGED <<request, service, forced, database>>

ShutdownNext ==
    \/ \E r \in Requests : Arrives(r) \/ Track(r) \/ RequestEnds(r) \/ ClientGone(r)
    \/ ShutdownBegins \/ Drained \/ DrainDeadline \/ Finalize \/ StoreClosed \/ Exit
    \/ \E s \in Services : ServiceSettles(s)

ShutdownSpec == ShutdownInit /\ [][ShutdownNext]_shutdownVars

-----------------------------------------------------------------------------
(* The database is closed under nobody whom somebody waits for: not before  *)
(* every service has settled and, unless the drain ran out of time, under   *)
(* no request whose client is there.  The handler of a client that has left *)
(* may still be at work.  No stream begins after the streams were closed.   *)
StopsInOrder ==
    /\ database = "closed" =>
         /\ \A s \in Services : service[s] = "settled"
         /\ ~forced => \A r \in Requests : request[r] \in {"none", "cut", "done"}
    /\ stage # "up" => Streams = {}
=============================================================================
