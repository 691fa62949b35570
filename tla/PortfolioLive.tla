---------------------------- MODULE PortfolioLive ----------------------------
(***************************************************************************)
(* The browser's side of the live portfolio, over PortfolioHub: the        *)
(* usePortfolioQuery effect with its EventSource, its fallback timer and   *)
(* the visibility of the page, and the PortfolioQueryController that keeps *)
(* what is shown.  The first load is over and the account stays selected.  *)
(***************************************************************************)
EXTENDS PortfolioHub

CONSTANTS
    NoSource,  \* the effect has no EventSource
    MaxHides,  \* bound: how often the page is hidden
    MaxLosses, \* bound: connections the network breaks
    MaxReads   \* bound: refreshes asked for by the user

ASSUME PortfolioLiveAssumption ==
    /\ NoSource \notin Conns
    /\ {MaxHides, MaxLosses, MaxReads} \subseteq Nat

VARIABLES
    browser, \* the effect's locals and the controller's state
    read,    \* the current request of the controller, foreground or background
    spent    \* how much of each bound is used

vars == <<hubVars, browser, read, spent>>

NoRead == [at |-> "none", kind |-> "background", value |-> None]

TypeOK ==
    /\ HubTypeOK
    /\ browser \in [visible : BOOLEAN,
                    known   : Nat,           \* streamRevisions of the account
                    shown   : 0..MaxContent, \* state.portfolio
                    source  : Conns \cup {NoSource},
                    retry   : BOOLEAN]       \* retryTimer
    /\ read \in [at    : {"none", "sent", "waiting", "answered"},
                 kind  : {"background", "manual"},
                 value : -1..MaxContent]     \* None: the request failed
    /\ spent \in [hides : 0..MaxHides, losses : 0..MaxLosses, reads : 0..MaxReads]

(* The page shows the portfolio of its first load and has opened a stream. *)
Init ==
    /\ HubInit
    /\ \E k \in Conns :
        /\ conn = [[c \in Conns |-> NoConn] EXCEPT ![k].at = "requested"]
        /\ browser = [visible |-> TRUE, known |-> 0, shown |-> 0, source |-> k, retry |-> FALSE]
    /\ read = NoRead
    /\ spent = [hides |-> 0, losses |-> 0, reads |-> 0]

(* closeSource: the server has yet to notice *)
Closed(cs) ==
    [k \in Conns |->
        IF k # browser.source THEN cs[k]
        ELSE IF cs[k].at = "finished" THEN NoConn
        ELSE [cs[k] EXCEPT !.lost = TRUE, !.wire = <<>>]]

(* openStream, from a browser state b *)
OpenStream(b) ==
    IF b.visible /\ b.source = NoSource
    THEN \E k \in Conns :
            /\ conn[k] = NoConn
            /\ conn' = [conn EXCEPT ![k].at = "requested", ![k].cursor = b.known,
                                    ![k].sent = b.known]
            /\ browser' = [b EXCEPT !.source = k]
    ELSE browser' = b /\ conn' = conn

-----------------------------------------------------------------------------
(* The stream *)

(* applyPortfolioEvent *)
Receive(b, frame) ==
    CASE frame.revision <= b.known -> b
      [] frame.revision > b.known /\ frame.content = None ->
            [b EXCEPT !.known = frame.revision]
      [] OTHER -> [b EXCEPT !.known = frame.revision, !.shown = frame.content]

Deliver ==
    \E k \in Conns \cap {browser.source} :
        /\ conn[k].wire # <<>>
        /\ browser' = Receive(browser, Head(conn[k].wire))
        /\ conn' = [conn EXCEPT ![k].wire = Tail(@)]
        /\ UNCHANGED <<content, toss, hub, failures, resets, read, spent>>

(* onerror *)
Disconnect ==
    /\ browser.source # NoSource
    /\ conn' = Closed(conn)
    /\ browser' = [browser EXCEPT !.source = NoSource, !.retry = TRUE]
    /\ UNCHANGED <<content, toss, hub, failures, resets, read>>

ResponseEnded ==
    /\ \E k \in Conns \cap {browser.source} : conn[k].at = "finished" /\ conn[k].wire = <<>>
    /\ Disconnect
    /\ UNCHANGED spent

ConnectionBroken ==
    /\ spent.losses < MaxLosses
    /\ spent' = [spent EXCEPT !.losses = @ + 1]
    /\ Disconnect

FallbackTimer_RefreshOnly ==
    /\ browser.retry
    /\ read' = IF read.at = "none" THEN [NoRead EXCEPT !.at = "sent"] ELSE read
    /\ browser' = [browser EXCEPT !.retry = FALSE]
    /\ UNCHANGED <<conn, content, toss, hub, failures, resets, spent>>

(* The fallback timer: refreshInBackground, which does nothing while a  *)
(* request is under way, and then openStream                             *)
FallbackTimer ==
    /\ browser.retry
    /\ IF read.at = "none"
       THEN /\ read' = [NoRead EXCEPT !.at = "sent"]
            /\ browser' = [browser EXCEPT !.retry = FALSE]
            /\ conn' = conn
       ELSE /\ OpenStream([browser EXCEPT !.retry = FALSE])
            /\ read' = read
    /\ UNCHANGED <<content, toss, hub, failures, resets, spent>>

Hide ==
    /\ browser.visible
    /\ spent.hides < MaxHides
    /\ spent' = [spent EXCEPT !.hides = @ + 1]
    /\ conn' = Closed(conn)
    /\ browser' = [browser EXCEPT !.visible = FALSE, !.source = NoSource, !.retry = FALSE]
    /\ UNCHANGED <<content, toss, hub, failures, resets, read>>

Show ==
    /\ ~browser.visible
    /\ OpenStream([browser EXCEPT !.visible = TRUE])
    /\ UNCHANGED <<content, toss, hub, failures, resets, read, spent>>

-----------------------------------------------------------------------------
(* The requests of the controller *)

(* refresh: an unfinished request is aborted, and the abort of a background *)
(* one lets the fallback go on to openStream                                *)
ManualRefresh ==
    /\ spent.reads < MaxReads
    /\ spent' = [spent EXCEPT !.reads = @ + 1]
    /\ read' = [NoRead EXCEPT !.at = "sent", !.kind = "manual"]
    /\ IF read.at # "none" /\ read.kind = "background"
       THEN OpenStream(browser)
       ELSE UNCHANGED <<browser, conn>>
    /\ UNCHANGED <<content, toss, hub, failures, resets>>

(* GET /api/portfolio: a forced read does not use the cache *)
Serve ==
    /\ read.at = "sent"
    /\ IF toss.fresh /\ read.kind = "background"
       THEN read' = [read EXCEPT !.at = "answered", !.value = toss.value] /\ toss' = toss
       ELSE read' = [read EXCEPT !.at = "waiting"] /\ toss' = Fetching(toss)
    /\ UNCHANGED <<content, hub, conn, failures, resets, browser, spent>>

ReadEnds_StreamAfterSuccess ==
    /\ read.at = "answered"
    /\ read' = NoRead
    /\ IF read.value # None /\ read.kind = "background"
       THEN OpenStream([browser EXCEPT !.shown = read.value])
       ELSE UNCHANGED <<browser, conn>>
    /\ UNCHANGED <<content, toss, hub, failures, resets, spent>>

(* The response of the current request arrives; its background form was *)
(* started by the fallback timer, whose finally opens the stream.       *)
ReadEnds ==
    /\ read.at = "answered"
    /\ read' = NoRead
    /\ LET b == IF read.value = None THEN browser ELSE [browser EXCEPT !.shown = read.value]
       IN IF read.kind = "background" THEN OpenStream(b) ELSE browser' = b /\ conn' = conn
    /\ UNCHANGED <<content, toss, hub, failures, resets, spent>>

Answered(v) ==
    read' = IF read.at = "waiting" THEN [read EXCEPT !.at = "answered", !.value = v] ELSE read

Fetch ==
    /\ \/ \E v \in 0..MaxContent : FetchEnds(v) /\ Answered(v)
       \/ FetchFails /\ Answered(None)
    /\ UNCHANGED <<browser, spent>>

Crash ==
    /\ ServerRestart
    /\ read' = IF read.at \in {"sent", "waiting"} THEN [read EXCEPT !.at = "answered"] ELSE read
    /\ UNCHANGED <<browser, spent>>

Route ==
    /\ \/ ContentChanges \/ CacheExpires \/ RefreshTimer \/ EvictionTimer
       \/ \E k \in Conns : Subscribe(k) \/ DrainEvent(k) \/ Heartbeat(k) \/ CloseNoticed(k)
    /\ UNCHANGED <<browser, read, spent>>

Next ==
    \/ Route \/ Fetch \/ Crash
    \/ Deliver \/ ResponseEnded \/ ConnectionBroken \/ FallbackTimer \/ Hide \/ Show
    \/ ManualRefresh \/ Serve \/ ReadEnds

(* Timers fire, the handlers and the promises they await go on, the network *)
(* delivers and the broker answers; nothing makes the user act, the content *)
(* change, the network break or a heartbeat be sent.                        *)
Fairness ==
    /\ WF_vars(CacheExpires /\ UNCHANGED <<browser, read, spent>>)
    /\ WF_vars(RefreshTimer /\ UNCHANGED <<browser, read, spent>>)
    /\ WF_vars(Fetch) /\ WF_vars(Serve) /\ WF_vars(ReadEnds)
    /\ WF_vars(Deliver) /\ WF_vars(ResponseEnded) /\ WF_vars(FallbackTimer)
    /\ \A k \in Conns :
        /\ WF_vars(Subscribe(k) /\ UNCHANGED <<browser, read, spent>>)
        /\ WF_vars(DrainEvent(k) /\ UNCHANGED <<browser, read, spent>>)
        /\ WF_vars(CloseNoticed(k) /\ UNCHANGED <<browser, read, spent>>)

Spec == Init /\ [][Next]_vars
FairSpec == Spec /\ Fairness

-----------------------------------------------------------------------------
(* Properties *)

(* The stream of the hub is never left without the timer or the refresh     *)
(* that moves it on: while a connection listens it polls and is not about   *)
(* to be evicted, and when none does it stops polling and will be evicted.  *)
HubIsDriven ==
    IF Listeners(conn) # {}
    THEN (hub.timer \/ hub.refreshing) /\ ~hub.evicting
    ELSE ~hub.timer /\ (hub.evicting \/ hub.refreshing \/ hub = FreshHub)

(* A visible page always has something that will bring it the next change:  *)
(* a stream, the fallback timer, or the fallback's request that opens one.  *)
PageIsSupplied ==
    browser.visible =>
        \/ browser.source # NoSource
        \/ browser.retry
        \/ read.at # "none" /\ read.kind = "background"

(* A page that stays visible comes to show the portfolio the broker has,    *)
(* through refused, ended and broken streams, backpressure and failed reads. *)
CatchesUp == []<>(browser.visible => browser.shown = content)

=============================================================================
