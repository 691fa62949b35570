---------------------------- MODULE MCServerParts ----------------------------
(***************************************************************************)
(* Parts of the server that share no state, checked side by side: a        *)
(* behaviour is that of one part, which it chooses at the start, and the   *)
(* others stay as they are.  The simulation service and the event hub      *)
(* share the run: the one implements RunSource, the other relies on it.    *)
(* The portfolio page is PortfolioLive under network losses only.          *)
(***************************************************************************)
EXTENDS SimulationSessions, RunEvents, RefreshTokens, Presets, BarWrites, MarketEvents, Shutdown, LiveFeed

VARIABLES
    part,                                     \* the part that moves
    content, toss, stream, link, failures, resets, browser, read, spent

pageVars == <<content, toss, stream, link, failures, resets, browser, read, spent>>

Page == INSTANCE PortfolioLive WITH
    hub <- stream, conn <- link,
    Conns <- {1, 2}, NoSource <- 0, MaxListeners <- 1, BackpressureLimit <- 2,
    MaxContent <- 2, MaxHeartbeats <- 1, MaxFailures <- 1, MaxResets <- 0,
    MaxHides <- 0, MaxLosses <- 1, MaxReads <- 0

sessionsOnly == <<start, sessionVars, init, progress, cancel, closing, unwritten>>
eventsOnly   == <<hub, conn, wire, page, session, datas, hides, joined>>

PartsInit ==
    /\ part \in {"sessions", "events", "tokens", "presets", "bars", "market", "shutdown", "feed", "page"}
    /\ SimulationInit /\ EventsInit /\ TokensInit /\ PresetsInit
    /\ BarsInit /\ MarketInit /\ ShutdownInit /\ FeedInit
    /\ Page!Init /\ browser.source = 1

Stay(p, vars) == part # p => UNCHANGED vars

PartsNext ==
    /\ UNCHANGED part
    /\ Stay("sessions", sessionsOnly) /\ Stay("events", eventsOnly)
    /\ Stay("tokens", tokenVars) /\ Stay("presets", presetVars)
    /\ Stay("bars", barVars) /\ Stay("market", marketVars)
    /\ Stay("shutdown", shutdownVars) /\ Stay("feed", feedVars)
    /\ Stay("page", pageVars)
    /\ part \notin {"sessions", "events"} => UNCHANGED sourceVars
    /\ \/ part = "sessions" /\ SimulationNext
       \/ part = "events" /\ EventsNext
       \/ part = "tokens" /\ TokensNext
       \/ part = "presets" /\ PresetsNext
       \/ part = "bars" /\ BarsNext
       \/ part = "market" /\ MarketNext
       \/ part = "shutdown" /\ ShutdownNext
       \/ part = "feed" /\ FeedNext
       \/ part = "page" /\ Page!Next

partsVars == <<part, sourceVars, sessionsOnly, eventsOnly, tokenVars, presetVars, barVars,
               marketVars, shutdownVars, feedVars, pageVars>>

(* PortfolioLive's Fairness, where the page moves *)
PageSteps(A) == part = "page" /\ A

PageFairness ==
    LET server == <<browser, read, spent>>
    IN /\ WF_pageVars(PageSteps(Page!CacheExpires /\ UNCHANGED server))
       /\ WF_pageVars(PageSteps(Page!RefreshTimer /\ UNCHANGED server))
       /\ WF_pageVars(PageSteps(Page!Fetch))
       /\ WF_pageVars(PageSteps(Page!Serve))
       /\ WF_pageVars(PageSteps(Page!ReadEnds))
       /\ WF_pageVars(PageSteps(Page!Deliver))
       /\ WF_pageVars(PageSteps(Page!ResponseEnded))
       /\ WF_pageVars(PageSteps(Page!FallbackTimer))
       /\ \A k \in {1, 2} :
            /\ WF_pageVars(PageSteps(Page!Subscribe(k) /\ UNCHANGED server))
            /\ WF_pageVars(PageSteps(Page!DrainEvent(k) /\ UNCHANGED server))
            /\ WF_pageVars(PageSteps(Page!CloseNoticed(k) /\ UNCHANGED server))

(* Where the sessions do not move none of their steps is enabled. *)
PartsSpec ==
    /\ PartsInit /\ [][PartsNext]_partsVars
    /\ SimulationFairness
    /\ PageFairness

(* A run that is open has somebody who will end it (OpenRunHasDriver), in   *)
(* the part that has the sessions of the runs.                              *)
SessionsDriveRuns == part = "sessions" => OpenRunHasDriver

(* A page that stays visible comes to show the portfolio the broker has     *)
(* (PortfolioLive's property), through refused, ended and broken streams,   *)
(* backpressure and failed reads.                                           *)
PageCatchesUp == Page!CatchesUp

(* Every part keeps the types of its state. *)
PartsTypeOK ==
    /\ SimulationTypeOK /\ EventsTypeOK /\ TokensTypeOK /\ PresetsTypeOK
    /\ BarsTypeOK /\ MarketTypeOK /\ ShutdownTypeOK /\ FeedTypeOK
=============================================================================
