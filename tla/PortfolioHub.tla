---------------------------- MODULE PortfolioHub ----------------------------
(***************************************************************************)
(* The live portfolio of one account on the server: the TossClient read    *)
(* that is shared and cached, the PortfolioLiveHub stream that polls it    *)
(* and numbers what changed, and the /api/portfolio/events connections     *)
(* that forward it.  The browser is in PortfolioLive.                      *)
(*                                                                         *)
(* A portfolio is the number of changes made to it.  An event's frame is   *)
(* the pair of its revision and its portfolio, None for a heartbeat.       *)
(*                                                                         *)
(* What runs without waiting for the network is one step: emit, the        *)
(* finally of the refresh and the continuation of the routes that await    *)
(* it run in one turn of the event loop.                                   *)
(*                                                                         *)
(* Definitions with a word after "_" are wrong on purpose, as in RunStore. *)
(***************************************************************************)
EXTENDS Integers, Sequences, FiniteSets

CONSTANTS
    Conns,             \* the event connections that can exist at once
    MaxListeners,      \* maxListenersPerHub
    BackpressureLimit, \* backpressureEventLimit
    MaxContent,        \* bound: changes of the portfolio
    MaxHeartbeats,     \* bound: heartbeats waiting on one connection
    MaxFailures,       \* bound: reads of the broker that fail
    MaxResets          \* bound: server restarts and evictions of the idle stream

ASSUME PortfolioHubAssumption ==
    /\ MaxListeners \in Nat \ {0}
    /\ BackpressureLimit \in Nat \ {0, 1}
    /\ {MaxContent, MaxHeartbeats, MaxFailures, MaxResets} \subseteq Nat

VARIABLES
    content,  \* the portfolio at the broker
    toss,     \* TossClient: portfolioCache and portfolioInFlight
    hub,      \* PortfolioLiveHub's stream of the account
    conn,     \* each connection: the route's locals and the bytes under way
    failures, \* failed reads so far
    resets    \* restarts and evictions so far

hubVars == <<content, toss, hub, conn, failures, resets>>

None == -1

Frame == [revision : Nat, content : Nat \cup {None}]

(* A stream that is not in the hub's map is the one subscribe would create. *)
FreshHub == [revision |-> 0, latest |-> None, refreshing |-> FALSE,
             timer |-> FALSE, evicting |-> FALSE]

ColdToss == [value |-> None, fresh |-> FALSE, fetching |-> FALSE, since |-> 0]

(* at: "requested" until the handler runs, "joining" while it awaits ready, *)
(* "finished" when the response has ended and the browser may still read.   *)
(* lost: the browser has gone and the server has not noticed.               *)
NoConn == [at |-> "none", lost |-> FALSE, cursor |-> 0, sent |-> 0, blocked |-> FALSE,
           pending |-> <<>>, wire |-> <<>>]

ConnState == [at      : {"none", "requested", "joining", "open", "finished"},
              lost    : BOOLEAN,
              cursor  : Nat,  \* lastEventId, 0 when it is not given
              sent    : Nat,  \* lastSent
              blocked : BOOLEAN,
              pending : Seq(Frame),
              wire    : Seq(Frame)]

HubTypeOK ==
    /\ content \in 0..MaxContent
    /\ toss \in [value : -1..MaxContent, fresh : BOOLEAN, fetching : BOOLEAN, since : 0..MaxContent]
    /\ hub \in [revision : Nat, latest : -1..MaxContent, refreshing : BOOLEAN,
                timer : BOOLEAN, evicting : BOOLEAN]
    /\ conn \in [Conns -> ConnState]
    /\ \A k \in Conns : Len(conn[k].pending) < BackpressureLimit
    /\ failures \in 0..MaxFailures
    /\ resets \in 0..MaxResets

HubInit ==
    /\ content = 0
    /\ toss = ColdToss
    /\ hub = FreshHub
    /\ failures = 0
    /\ resets = 0

Listeners(cs) == {k \in DOMAIN cs : cs[k].at \in {"joining", "open"}}

-----------------------------------------------------------------------------
(* The route of one connection *)

(* The response ends; the slot is free once the browser has gone as well. *)
Ended(c) == IF c.lost THEN NoConn ELSE [NoConn EXCEPT !.at = "finished", !.wire = c.wire]

Written(c, frame, full) ==
    [c EXCEPT !.wire = IF c.lost THEN <<>> ELSE Append(@, frame), !.blocked = full]

(* full: write answers false, the response's buffer is at its high-water mark *)
Send(c, frame, full) ==
    CASE frame.revision <= c.sent -> c
      [] frame.revision > c.sent /\ ~c.blocked ->
            [Written(c, frame, full) EXCEPT !.sent = frame.revision]
      [] frame.revision > c.sent /\ c.blocked /\ Len(c.pending) < BackpressureLimit - 1 ->
            [c EXCEPT !.pending = Append(@, frame)]
      [] OTHER -> Ended(c)

(* The continuation of ready: snapshotAfter(lastEventId), with the cursor   *)
(* put back when it is beyond the stream.  What was queued meanwhile is the *)
(* event of the refresh that made ready resolve: it has the revision of the *)
(* snapshot, or of the cursor, and send drops it.                           *)
Opened(c, h, full) ==
    IF c.cursor = h.revision
    THEN [c EXCEPT !.at = "open"]
    ELSE Send([c EXCEPT !.at = "open", !.sent = IF c.cursor > h.revision THEN 0 ELSE @],
              [revision |-> h.revision, content |-> h.latest], full)

-----------------------------------------------------------------------------
(* The hub's stream *)

Deactivated(h) == [h EXCEPT !.timer = FALSE, !.evicting = TRUE]

Scheduled(h, cs) ==
    IF Listeners(cs) = {} \/ h.timer \/ h.refreshing THEN h ELSE [h EXCEPT !.timer = TRUE]

(* The releases of a step, and the deactivate of the last one *)
Released(h, before, after) ==
    IF Listeners(before) # {} /\ Listeners(after) = {} THEN Deactivated(h) ELSE h

Settled_RescheduleForgotten(h, cs) ==
    LET idle == [h EXCEPT !.refreshing = FALSE]
    IN IF Listeners(cs) = {} /\ ~h.evicting THEN Deactivated(idle) ELSE idle

(* The finally of a refresh *)
Settled(h, cs) ==
    LET idle == [h EXCEPT !.refreshing = FALSE]
    IN IF Listeners(cs) = {} /\ ~h.evicting THEN Deactivated(idle) ELSE Scheduled(idle, cs)

Applied(h, v) == IF h.latest = v THEN h ELSE [h EXCEPT !.revision = @ + 1, !.latest = v]

(* runRefresh has read v: emit, then the finally, then the routes that wait *)
Refreshed(h, cs, v, full) ==
    LET next    == Applied(h, v)
        frame   == [revision |-> next.revision, content |-> v]
        emitted == [k \in Conns |->
                      IF h.latest # v /\ cs[k].at = "open" THEN Send(cs[k], frame, full[k])
                                                           ELSE cs[k]]
        settled == Settled(Released(next, cs, emitted), emitted)
        opened  == [k \in Conns |->
                      IF emitted[k].at = "joining" THEN Opened(emitted[k], settled, full[k])
                                                   ELSE emitted[k]]
    IN /\ hub' = Released(settled, emitted, opened)
       /\ conn' = opened

(* runRefresh has failed: the routes that wait answer an error *)
RefreshFailed(h, cs) ==
    LET settled == Settled(h, cs)
        refused == [k \in Conns |-> IF cs[k].at = "joining" THEN Ended(cs[k]) ELSE cs[k]]
    IN /\ hub' = Released(settled, cs, refused)
       /\ conn' = refused

Fetching(t) == IF t.fetching THEN t ELSE [t EXCEPT !.fetching = TRUE, !.since = content]

(* refresh: join the refresh under way, or read the portfolio, from the *)
(* cache when it is fresh                                                *)
Refresh(h, cs) ==
    \E full \in [Conns -> BOOLEAN] :
        IF ~h.refreshing /\ toss.fresh
        THEN Refreshed([h EXCEPT !.refreshing = TRUE], cs, toss.value, full) /\ toss' = toss
        ELSE /\ hub' = [h EXCEPT !.refreshing = TRUE]
             /\ conn' = cs
             /\ toss' = Fetching(toss)

-----------------------------------------------------------------------------
(* What happens at the server *)

ContentChanges ==
    /\ content < MaxContent
    /\ content' = content + 1
    /\ UNCHANGED <<toss, hub, conn, failures, resets>>

CacheExpires ==
    /\ toss.fresh
    /\ toss' = [toss EXCEPT !.fresh = FALSE]
    /\ UNCHANGED <<content, hub, conn, failures, resets>>

(* subscribe, with its bound on listeners *)
Subscribe(k) ==
    /\ conn[k].at = "requested"
    /\ IF Cardinality(Listeners(conn)) >= MaxListeners
       THEN conn' = [conn EXCEPT ![k] = Ended(@)] /\ UNCHANGED <<toss, hub>>
       ELSE LET h  == [hub EXCEPT !.evicting = FALSE]
                cs == [conn EXCEPT ![k].at = "joining"]
            IN IF Listeners(conn) # {} /\ hub.latest # None
               THEN \E full \in BOOLEAN :
                      /\ hub' = Scheduled(h, cs)
                      /\ conn' = [cs EXCEPT ![k] = Opened(@, h, full)]
                      /\ toss' = toss
               ELSE Refresh(h, cs)
    /\ UNCHANGED <<content, failures, resets>>

RefreshTimer ==
    /\ hub.timer
    /\ Refresh([hub EXCEPT !.timer = FALSE], conn)
    /\ UNCHANGED <<content, failures, resets>>

EvictionTimer ==
    /\ hub.evicting
    /\ IF Listeners(conn) = {} /\ ~hub.refreshing
       THEN resets < MaxResets /\ hub' = FreshHub /\ resets' = resets + 1
       ELSE hub' = [hub EXCEPT !.evicting = FALSE] /\ resets' = resets
    /\ UNCHANGED <<content, toss, conn, failures>>

(* The broker answers with the portfolio as it was at some instant of the   *)
(* read, or fails.  The callers that await the read are the hub's refresh   *)
(* and the reads of the browser, which PortfolioLive completes.             *)
FetchEnds(v) ==
    /\ toss.fetching
    /\ v \in toss.since..content
    /\ toss' = [value |-> v, fresh |-> TRUE, fetching |-> FALSE, since |-> 0]
    /\ IF hub.refreshing THEN \E full \in [Conns -> BOOLEAN] : Refreshed(hub, conn, v, full)
                         ELSE UNCHANGED <<hub, conn>>
    /\ UNCHANGED <<content, failures, resets>>

FetchFails ==
    /\ toss.fetching
    /\ failures < MaxFailures
    /\ failures' = failures + 1
    /\ toss' = [toss EXCEPT !.fetching = FALSE, !.since = 0]
    /\ IF hub.refreshing THEN RefreshFailed(hub, conn) ELSE UNCHANGED <<hub, conn>>
    /\ UNCHANGED <<content, resets>>

(* drain: pending frames are sent until the buffer is full again *)
DrainEvent(k) ==
    LET c == conn[k]
    IN /\ c.at = "open" /\ c.blocked
       /\ \/ /\ c.pending = <<>>
             /\ conn' = [conn EXCEPT ![k].blocked = FALSE]
          \/ \E n \in 1..Len(c.pending), full \in BOOLEAN :
                /\ n < Len(c.pending) => full
                /\ conn' = [conn EXCEPT
                      ![k].blocked = full,
                      ![k].sent    = c.pending[n].revision,
                      ![k].pending = SubSeq(@, n + 1, Len(@)),
                      ![k].wire    = IF c.lost THEN <<>> ELSE @ \o SubSeq(c.pending, 1, n)]
       /\ UNCHANGED <<content, toss, hub, failures, resets>>

Heartbeat(k) ==
    /\ conn[k].at = "open" /\ ~conn[k].blocked /\ conn[k].sent >= 1
    /\ Cardinality({i \in DOMAIN conn[k].wire : conn[k].wire[i].content = None}) < MaxHeartbeats
    /\ \E full \in BOOLEAN :
        conn' = [conn EXCEPT ![k] = Written(@, [revision |-> @.sent, content |-> None], full)]
    /\ UNCHANGED <<content, toss, hub, failures, resets>>

(* The server sees that the browser has gone; a handler that still awaits   *)
(* ready sees it when it continues, which is this step right after Opened.  *)
CloseNoticed(k) ==
    /\ conn[k].lost /\ conn[k].at = "open"
    /\ conn' = [conn EXCEPT ![k] = Ended(@)]
    /\ hub' = Released(hub, conn, conn')
    /\ UNCHANGED <<content, toss, failures, resets>>

ServerRestart ==
    /\ resets < MaxResets
    /\ resets' = resets + 1
    /\ hub' = FreshHub
    /\ toss' = ColdToss
    /\ conn' = [k \in Conns |-> IF conn[k].at = "none" THEN NoConn ELSE Ended(conn[k])]
    /\ UNCHANGED <<content, failures>>
=============================================================================
