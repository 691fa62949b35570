------------------------------ MODULE RunEvents ------------------------------
(***************************************************************************)
(* SimulationRunEventHub, the SSE route of a run, and the page that        *)
(* follows the run.  The runs themselves move as RunSource promises.  The  *)
(* page follows the run Watched; the other runs only push its events out   *)
(* of the hub.  A snapshot or an end carries the whole state of the run    *)
(* with its status; a patch (progress, changed) has a few fields and none. *)
(* Heartbeats repeat a revision and are left out.                          *)
(*                                                                         *)
(* Definitions with a word after "_" are wrong on purpose, as in RunStore. *)
(***************************************************************************)
EXTENDS RunSource, Integers, Sequences, SequencesExt, Selections

CONSTANTS
    Watched,         \* the run on the page
    ReplayLimit,     \* replayLimit of the hub
    PendingLimit,    \* backpressureEventLimit of the route
    HighWater,       \* frames the response takes before write returns false
    MaxData,         \* bound: patches
    MaxHides         \* bound: how often the page is hidden

ASSUME RunEventsAssumption ==
    /\ Watched \in Runs
    /\ ReplayLimit \in Nat /\ ReplayLimit >= 2
    /\ PendingLimit \in Nat \ {0} /\ HighWater \in Nat \ {0}
    /\ MaxData \in Nat /\ MaxHides \in Nat

VARIABLES
    hub,     \* the RunState of the run: its revision and its ring of events
    conn,    \* the connection of the page, as the route has it
    wire,    \* frames written and not yet received
    page,    \* what the effect of the page does, and what it has accepted
    session, \* of the run: not begun, alive, or gone with its process
    datas, hides,
    joined   \* history: what the page has accepted is of the hub's present RunState

eventVars == <<sourceVars, hub, conn, wire, page, session, datas, hides, joined>>

None    == -1
NoState == [rev |-> 0, terminal |-> FALSE, events |-> <<>>]
NoConn  == [at |-> "none", current |-> "none", requested |-> None, lastSent |-> 0,
            blocked |-> FALSE, pending |-> <<>>]

RunEvent == [rev : Nat, type : {"snapshot", "patch", "terminal"}, says : {"none"} \cup Active \cup Over]

EventsTypeOK ==
    /\ hub \in [rev : Nat, terminal : BOOLEAN, events : Seq(RunEvent)]
    /\ Len(hub.events) <= ReplayLimit
    /\ conn \in [at : {"none", "asked", "read", "open"}, current : {"none"} \cup Active \cup Over,
                 requested : Nat \cup {None}, lastSent : Nat, blocked : BOOLEAN,
                 pending : Seq(RunEvent)]
    /\ wire \in Seq(RunEvent)
    /\ page \in [mode : {"none", "stream", "poll", "hidden", "done"},
                 accepted : Nat \cup {None}, view : {"none"} \cup Active \cup Over]
    /\ session \in {"none", "live", "gone"}
    /\ datas \in 0..MaxData /\ hides \in 0..MaxHides
    /\ joined \in BOOLEAN

EventsInit ==
    /\ SourceInit
    /\ hub = NoState /\ conn = NoConn /\ wire = <<>>
    /\ page = [mode |-> "none", accepted |-> None, view |-> "none"]
    /\ session = "none" /\ datas = 0 /\ hides = 0 /\ joined = FALSE

-----------------------------------------------------------------------------
(* The hub *)

Publish_RingUnbounded(h, type, says) ==
    IF h.terminal THEN h
    ELSE [rev |-> h.rev + 1, terminal |-> type = "terminal",
          events |-> Append(h.events, [rev |-> h.rev + 1, type |-> type, says |-> says])]

Publish(h, type, says) ==
    IF h.terminal THEN h
    ELSE LET e == [rev |-> h.rev + 1, type |-> type, says |-> says]
             all == Append(h.events, e)
         IN [rev |-> e.rev, terminal |-> type = "terminal",
             events |-> IF Len(all) > ReplayLimit THEN Tail(all) ELSE all]

EventsAfter(h, rev) == EntriesAt(h.events, {i \in DOMAIN h.events : h.events[i].rev > rev})

PublishCurrent_CancelIsEnd(h, current) ==
    LET shown == Publish(h, "snapshot", current)
    IN IF current \notin {"queued", "running"} THEN Publish(shown, "terminal", current) ELSE shown

(* The snapshot that the route publishes, and the end if it has read one *)
PublishCurrent(h, current) ==
    LET shown == Publish(h, "snapshot", current)
    IN IF current \in Over THEN Publish(shown, "terminal", current) ELSE shown

-----------------------------------------------------------------------------
(* The route.  line = [conn, wire] *)

Send(line, e) ==
    LET c == line.conn
    IN IF c.at # "open" \/ e.rev <= c.lastSent THEN line
       ELSE IF c.blocked
            THEN IF Len(c.pending) >= PendingLimit - 1
                 THEN [line EXCEPT !.conn = [c EXCEPT !.at = "none"]]
                 ELSE [line EXCEPT !.conn.pending = Append(@, e)]
            ELSE [conn |-> [c EXCEPT !.lastSent = e.rev, !.blocked = Len(line.wire) + 1 >= HighWater],
                  wire |-> Append(line.wire, e)]

SendAll(line, events) == FoldLeft(Send, line, events)

(* What follows for the connection: a stream that the route ended is an     *)
(* error to the page, which polls from then on.                             *)
Lines(line) ==
    /\ conn' = IF line.conn.at = "none" THEN NoConn ELSE line.conn
    /\ wire' = IF line.conn.at = "none" THEN <<>> ELSE line.wire
    /\ page' = IF conn.at # "none" /\ line.conn.at = "none"
               THEN [page EXCEPT !.mode = "poll"] ELSE page

Broken == [conn |-> NoConn, wire |-> <<>>]

(* replay of a connection without Last-Event-ID *)
FirstReplay(h, current) ==
    IF current \in Over /\ h.terminal
    THEN [hub |-> h, from |-> 0, events |-> <<[Last(h.events) EXCEPT !.says = current]>>]
    ELSE LET published == PublishCurrent(h, current)
         IN [hub |-> published, from |-> 0, events |-> EventsAfter(published, h.rev)]

ResumedReplay_GapIgnored(h, current, requested) ==
    LET known == IF h.events = <<>> THEN PublishCurrent(h, current) ELSE h
        from  == IF requested > known.rev THEN 0 ELSE requested
    IN [hub |-> known, from |-> from, events |-> EventsAfter(known, from)]

(* replay after the revision the page has: what the ring still holds, or    *)
(* the current state when there is a gap                                    *)
ResumedReplay(h, current, requested) ==
    LET known  == IF h.events = <<>> THEN PublishCurrent(h, current) ELSE h
        from   == IF requested > known.rev THEN 0 ELSE requested
        held   == EventsAfter(known, from)
        shown  == Publish(known, "snapshot", current)
        gap    == held # <<>> /\ held[1].rev > from + 1
    IN CASE ~gap -> [hub |-> known, from |-> from, events |-> held]
         [] gap /\ current \in Over ->
              [hub |-> known, from |-> from, events |-> <<[Last(known.events) EXCEPT !.says = current]>>]
         [] OTHER -> [hub |-> shown, from |-> from, events |-> <<Last(shown.events)>>]

(* service.get, awaited before the route subscribes *)
ReadRun ==
    /\ conn.at = "asked"
    /\ conn' = [conn EXCEPT !.at = "read", !.current = status[Watched]]
    /\ UNCHANGED <<sourceVars, hub, wire, page, session, datas, hides, joined>>

Subscribe ==
    /\ conn.at = "read"
    /\ LET replay == IF conn.requested = None THEN FirstReplay(hub, conn.current)
                     ELSE ResumedReplay(hub, conn.current, conn.requested)
       IN /\ hub' = replay.hub
          /\ Lines(SendAll([conn |-> [conn EXCEPT !.at = "open", !.lastSent = replay.from],
                            wire |-> wire], replay.events))
    /\ UNCHANGED <<sourceVars, session, datas, hides, joined>>

DrainEvent ==
    /\ conn.at = "open" /\ conn.blocked /\ wire = <<>>
    /\ LET open == [conn EXCEPT !.blocked = FALSE, !.pending = <<>>]
           n == IF Len(conn.pending) < HighWater THEN Len(conn.pending) ELSE HighWater
           line == SendAll([conn |-> open, wire |-> <<>>], SubSeq(conn.pending, 1, n))
       IN Lines([line EXCEPT !.conn.pending = SubSeq(conn.pending, n + 1, Len(conn.pending))])
    /\ UNCHANGED <<sourceVars, hub, session, datas, hides, joined>>

-----------------------------------------------------------------------------
(* The run *)

Published(h) ==
    /\ hub' = h
    /\ Lines(SendAll([conn |-> conn, wire |-> wire], EventsAfter(h, hub.rev)))

RunMoves ==
    /\ Move(Watched)
    /\ UNCHANGED <<hub, conn, wire, page, session, datas, hides, joined>>

(* A session begins and publishes its snapshot, whatever has become of the  *)
(* row since it was marked running.                                         *)
SessionStarts ==
    /\ session = "none" /\ announced[Watched] = "none"
    /\ status[Watched] \notin {"none", "queued"}
    /\ session' = "live"
    /\ Published(Publish(hub, "snapshot", "running"))
    /\ UNCHANGED <<sourceVars, datas, hides, joined>>

(* publishProgress and publishChanged: nothing waits for the last of them,  *)
(* and they come while the process lives.                                   *)
DataPublished ==
    /\ session = "live" /\ datas < MaxData
    /\ datas' = datas + 1
    /\ Published(Publish(hub, "patch", "none"))
    /\ UNCHANGED <<sourceVars, session, hides, joined>>

EndPublished ==
    /\ announced[Watched] = "none"
    /\ End(Watched) \/ \E s \in Over : Announce(Watched, s)
    /\ Published(Publish(hub, "terminal", announced'[Watched]))
    /\ UNCHANGED <<session, datas, hides, joined>>

(* state() evicts a run without listeners when the hub is full. *)
Evicted ==
    /\ conn.at # "open" /\ hub # NoState
    /\ hub' = NoState
    /\ joined' = FALSE
    /\ UNCHANGED <<sourceVars, conn, wire, page, session, datas, hides>>

EventServerRestart ==
    /\ SourceRestart
    /\ hub' = NoState
    /\ Lines(Broken)
    /\ session' = IF status[Watched] = "none" THEN session ELSE "gone"
    /\ joined' = FALSE
    /\ UNCHANGED <<datas, hides>>

-----------------------------------------------------------------------------
(* The page *)

Connect(accepted) == conn' = [NoConn EXCEPT !.at = "asked", !.requested = accepted]

OpenPage ==
    /\ page.mode = "none" /\ status[Watched] \in Active
    /\ page' = [page EXCEPT !.mode = "stream", !.view = status[Watched]]
    /\ Connect(page.accepted)
    /\ UNCHANGED <<sourceVars, hub, wire, session, datas, hides, joined>>

(* acceptEvent: a patch leaves the status as the page has it. *)
Received ==
    /\ wire # <<>>
    /\ LET e == Head(wire)
           over == e.type = "terminal" \/ e.says \in Over
       IN IF e.rev <= page.accepted
          THEN /\ wire' = Tail(wire)
               /\ UNCHANGED <<conn, page, joined>>
          ELSE /\ page' = [mode |-> IF over THEN "done" ELSE page.mode, accepted |-> e.rev,
                           view |-> IF e.says = "none" THEN page.view ELSE e.says]
               /\ conn' = IF over THEN NoConn ELSE conn
               /\ wire' = IF over THEN <<>> ELSE Tail(wire)
               /\ joined' = (joined \/ e.says # "none")
    /\ UNCHANGED <<sourceVars, hub, session, datas, hides>>

(* The connection is refused or breaks; onerror polls from then on. *)
StreamFails ==
    /\ conn.at # "none"
    /\ Lines(Broken)
    /\ UNCHANGED <<sourceVars, hub, session, datas, hides, joined>>

Poll ==
    /\ page.mode = "poll"
    /\ page' = [page EXCEPT !.view = status[Watched],
                            !.mode = IF status[Watched] \in Over THEN "done" ELSE @]
    /\ UNCHANGED <<sourceVars, hub, conn, wire, session, datas, hides, joined>>

HidePage ==
    /\ page.mode \in {"stream", "poll"} /\ hides < MaxHides
    /\ hides' = hides + 1
    /\ page' = [page EXCEPT !.mode = "hidden"]
    /\ conn' = NoConn /\ wire' = <<>>
    /\ UNCHANGED <<sourceVars, hub, session, datas, joined>>

ShowPage ==
    /\ page.mode = "hidden"
    /\ page' = [page EXCEPT !.mode = "stream"]
    /\ Connect(page.accepted)
    /\ UNCHANGED <<sourceVars, hub, wire, session, datas, hides, joined>>

-----------------------------------------------------------------------------
EventsNext ==
    \/ ReadRun \/ Subscribe \/ DrainEvent
    \/ RunMoves \/ SessionStarts \/ DataPublished \/ EndPublished \/ Evicted \/ EventServerRestart
    \/ OpenPage \/ Received \/ StreamFails \/ Poll \/ HidePage \/ ShowPage

(* The server answers, frames arrive, the page polls, an end is announced. *)
EventsFairness ==
    /\ WF_eventVars(ReadRun) /\ WF_eventVars(Subscribe) /\ WF_eventVars(DrainEvent)
    /\ WF_eventVars(Received) /\ WF_eventVars(Poll) /\ WF_eventVars(EndPublished)

EventsSpec == EventsInit /\ [][EventsNext]_eventVars /\ EventsFairness

-----------------------------------------------------------------------------
(* Properties *)

(* What an open stream has still to bring *)
Coming == ToSet(wire) \cup ToSet(conn.pending)

(* Whether the page is at the hub's revisions, or will be put there by what *)
(* is on its way.  It is not when the hub was emptied since, by an eviction *)
(* or a restart, and no state has come of the hub that follows.             *)
OnTheHub == joined \/ \E e \in Coming : e.says # "none" /\ e.rev > page.accepted

(* A page on the hub misses nothing over its stream: whatever was published *)
(* since the event it accepted last is on its way, or a later state that    *)
(* makes up for it is, through replays, gaps of the ring and backpressure.  *)
OpenStreamIsCurrent ==
    (conn.at = "open" /\ OnTheHub) =>
        \A m \in 1..hub.rev : m > page.accepted =>
            \E e \in Coming : e.rev = m \/ (e.rev > m /\ e.says # "none")

(* The page stops following a run only when the run is over. *)
PageStopsOnlyAtEnd == page.mode = "done" => status[Watched] \in Over /\ page.view \in Over

(* A page that is visible comes to know that the run is over. *)
PageLearnsEnd ==
    (page.mode # "none" /\ status[Watched] \in Over) ~> page.mode \in {"done", "hidden"}
=============================================================================
