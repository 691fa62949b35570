------------------------------- MODULE LiveFeed -------------------------------
(***************************************************************************)
(* KisMarketWebSocketClient, which keeps one connection to the provider,   *)
(* and ScalpingLiveRuntime.retain, which keeps it wanted: each holder has  *)
(* a symbol, the last one to release a symbol unsubscribes it, and the     *)
(* last one of all disconnects.  openConnection stops to wait for the      *)
(* approval key only, so an attempt under way is its generation and        *)
(* whether it is a reconnect; a socket and the timers are named by the     *)
(* generation that made them.                                              *)
(*                                                                         *)
(* Definitions with a word after "_" are wrong on purpose, as in RunStore. *)
(***************************************************************************)
EXTENDS Integers, Sequences, SequencesExt, FiniteSets

CONSTANTS
    Holders,
    Symbols,
    MaxGenerations, \* bound: generations of the connection
    MaxControls     \* bound: messages in the control queue when retain is called

ASSUME LiveFeedAssumption == MaxGenerations \in Nat /\ MaxControls \in Nat

VARIABLES
    client,      \* the fields of the client
    openings,    \* the calls of openConnection that wait for the approval
    references,  \* the Map references: the count of each symbol in it
    holder,      \* where each call of retain stands
    provided,    \* what the provider sends over the current socket
    liveClosed,  \* closed of the runtime
    ridden,      \* history: connect joined an attempt that was given up
    muted        \* history: the symbols that the current socket lost a message of

feedVars == <<client, openings, references, holder, provided, liveClosed, ridden, muted>>

Free    == [at |-> "free", symbol |-> "none", on |-> 0, created |-> FALSE]
Control == [action : {"subscribe", "unsubscribe"}, symbol : Symbols]

FeedTypeOK ==
    LET Generation == 0..MaxGenerations
    IN /\ client \in [state : {"closed", "connecting", "connected"}, generation : Generation,
                      manuallyStopped : BOOLEAN, socket : Generation, connectionTimer : Generation,
                      reconnectTimer : Generation, retried : BOOLEAN, inFlight : Generation,
                      desired : SUBSET Symbols, controlQueue : Seq(Control)]
       /\ openings \subseteq [generation : Generation, again : BOOLEAN]
       /\ DOMAIN references \subseteq Symbols
       /\ \A s \in DOMAIN references : references[s] \in Int
       /\ holder \in [Holders -> [at : {"free", "waiting", "holding"}, symbol : Symbols \cup {"none"},
                                  on : Generation, created : BOOLEAN]]
       /\ provided \subseteq Symbols
       /\ liveClosed \in BOOLEAN /\ ridden \in BOOLEAN
       /\ muted \subseteq Symbols

FeedInit ==
    /\ client = [state |-> "closed", generation |-> 0, manuallyStopped |-> FALSE, socket |-> 0,
                 connectionTimer |-> 0, reconnectTimer |-> 0, retried |-> FALSE, inFlight |-> 0,
                 desired |-> {}, controlQueue |-> <<>>]
    /\ openings = {}
    /\ references = <<>>
    /\ holder = [h \in Holders |-> Free]
    /\ provided = {} /\ muted = {}
    /\ liveClosed = FALSE /\ ridden = FALSE

-----------------------------------------------------------------------------
(* The client *)

Subscribed(c, s) ==
    IF s \in c.desired THEN c
    ELSE [c EXCEPT !.desired = @ \cup {s},
                   !.controlQueue = IF c.state = "connected"
                                    THEN Append(@, [action |-> "subscribe", symbol |-> s]) ELSE @]

Unsubscribed(c, s) ==
    IF s \notin c.desired THEN c
    ELSE [c EXCEPT !.desired = @ \ {s},
                   !.controlQueue = IF c.state = "connected"
                                    THEN Append(@, [action |-> "unsubscribe", symbol |-> s]) ELSE @]

(* A message of the control queue as it is sent: a subscription that is no  *)
(* longer desired is left out.                                              *)
Sent(symbols, desired, m) ==
    IF m.action = "unsubscribe" THEN symbols \ {m.symbol}
    ELSE IF m.symbol \in desired THEN symbols \cup {m.symbol} ELSE symbols

(* disconnect: an attempt in flight stays the one in flight. *)
Disconnected(c) ==
    [c EXCEPT !.manuallyStopped = TRUE, !.generation = @ + 1, !.reconnectTimer = 0,
              !.connectionTimer = 0, !.controlQueue = <<>>, !.socket = 0, !.state = "closed"]

(* scheduleReconnect of the generation of c *)
Rescheduled(c) ==
    IF c.manuallyStopped \/ c.reconnectTimer # 0 THEN [c EXCEPT !.state = "closed"]
    ELSE [c EXCEPT !.reconnectTimer = c.generation, !.retried = TRUE, !.state = "closed"]

(* openConnection up to the approval *)
Opening(c) == [c EXCEPT !.generation = @ + 1, !.inFlight = c.generation + 1, !.state = "closed"]

Current(g) == ~client.manuallyStopped /\ client.generation = g

TimerCleared_Not(c) == c

(* clearReconnectTimer *)
TimerCleared(c) == [c EXCEPT !.reconnectTimer = 0]

(* connect by the holder h, with the subscriptions made *)
ConnectBy(h, s, c) ==
    LET go == [c EXCEPT !.manuallyStopped = FALSE]
        Waits(at, on) == holder' = [holder EXCEPT ![h] = [at |-> at, symbol |-> s, on |-> on,
                                                         created |-> s \notin DOMAIN references]]
    IN CASE c.state # "closed" ->
              /\ client' = go /\ Waits("holding", 0)
              /\ UNCHANGED <<openings, ridden>>
         [] c.state = "closed" /\ c.inFlight # 0 ->
              /\ client' = go /\ Waits("waiting", c.inFlight)
              /\ ridden' = (ridden \/ c.inFlight # c.generation)
              /\ UNCHANGED openings
         [] OTHER ->
              /\ client' = Opening(TimerCleared(go))
              /\ openings' = openings \cup {[generation |-> c.generation + 1, again |-> c.retried]}
              /\ Waits("waiting", c.generation + 1)
              /\ ridden' = FALSE

-----------------------------------------------------------------------------
(* openConnection goes on *)

(* The attempt t returns, or throws what its callers then catch: those give *)
(* back what they have retained, and nobody disconnects.  A reference stays *)
(* in the map, whatever its count, unless one of them had created it.       *)
OpeningReturns(t, c, throws) ==
    LET mine == {h \in Holders : holder[h].at = "waiting" /\ holder[h].on = t.generation}
        gone == {s \in Symbols : \E h \in mine : holder[h].symbol = s /\ holder[h].created}
        done == [c EXCEPT !.inFlight = IF @ = t.generation THEN 0 ELSE @]
        Mine(s) == Cardinality({h \in mine : holder[h].symbol = s})
    IN /\ openings' = openings \ {t}
       /\ holder' = [h \in Holders |->
                       IF h \notin mine THEN holder[h]
                       ELSE IF throws THEN Free ELSE [holder[h] EXCEPT !.at = "holding", !.on = 0]]
       /\ IF throws
          THEN /\ client' = [done EXCEPT !.desired = @ \ gone]
               /\ references' = [s \in DOMAIN references \ gone |-> references[s] - Mine(s)]
          ELSE client' = done /\ UNCHANGED references
       /\ UNCHANGED <<provided, liveClosed, ridden, muted>>

Approved(t) ==
    OpeningReturns(t, IF Current(t.generation)
                      THEN [client EXCEPT !.socket = t.generation, !.state = "connecting",
                                          !.connectionTimer = t.generation]
                      ELSE client, FALSE)

Refused(t) ==
    IF Current(t.generation) THEN OpeningReturns(t, Rescheduled(client), ~t.again)
    ELSE OpeningReturns(t, client, FALSE)

ReconnectTimer ==
    LET fired == [client EXCEPT !.reconnectTimer = 0]
    IN /\ client.reconnectTimer # 0 /\ client.generation < MaxGenerations
       /\ IF Current(client.reconnectTimer)
          THEN /\ client' = Opening(fired)
               /\ openings' = openings \cup {[generation |-> client.generation + 1, again |-> TRUE]}
               /\ ridden' = FALSE
          ELSE client' = fired /\ UNCHANGED <<openings, ridden>>
       /\ UNCHANGED <<references, holder, provided, liveClosed, muted>>

SocketOpens_NotAskedAgain ==
    /\ client.state = "connecting" /\ client.socket # 0 /\ Current(client.socket)
    /\ client' = [client EXCEPT !.state = "connected", !.connectionTimer = 0, !.retried = FALSE]
    /\ provided' = {} /\ muted' = {}
    /\ UNCHANGED <<openings, references, holder, liveClosed, ridden>>

(* The socket opens: everything desired is asked for again. *)
SocketOpens ==
    LET ask == SetToSeq({[action |-> "subscribe", symbol |-> s] : s \in client.desired})
    IN /\ client.state = "connecting" /\ client.socket # 0 /\ Current(client.socket)
       /\ client' = [client EXCEPT !.state = "connected", !.connectionTimer = 0, !.retried = FALSE,
                                   !.controlQueue = ask]
       /\ provided' = {} /\ muted' = {}
       /\ UNCHANGED <<openings, references, holder, liveClosed, ridden>>

(* The socket fails or closes, or does not open in time. *)
SocketEnds ==
    /\ client.socket # 0 /\ Current(client.socket)
    /\ client' = Rescheduled([client EXCEPT !.connectionTimer = 0, !.controlQueue = <<>>, !.socket = 0])
    /\ provided' = {} /\ muted' = {}
    /\ UNCHANGED <<openings, references, holder, liveClosed, ridden>>

(* drainControlQueue takes a message off the queue.  sendControl drops it   *)
(* when the socket is no longer open, or when send throws.                  *)
ControlSent ==
    LET m == Head(client.controlQueue)
    IN /\ client.state = "connected" /\ client.controlQueue # <<>>
       /\ client' = [client EXCEPT !.controlQueue = Tail(@)]
       /\ \/ /\ provided' = Sent(provided, client.desired, m)
             /\ UNCHANGED muted
          \/ /\ m.action = "unsubscribe" \/ m.symbol \in client.desired
             /\ muted' = muted \cup {m.symbol}
             /\ UNCHANGED provided
       /\ UNCHANGED <<openings, references, holder, liveClosed, ridden>>

-----------------------------------------------------------------------------
(* The runtime *)

Retain(h, s) ==
    /\ ~liveClosed /\ holder[h] = Free
    /\ client.generation < MaxGenerations /\ Len(client.controlQueue) < MaxControls
    /\ references' = [k \in DOMAIN references \cup {s} |->
                         IF k # s THEN references[k]
                         ELSE IF s \in DOMAIN references THEN references[s] + 1 ELSE 1]
    /\ ConnectBy(h, s, Subscribed(client, s))
    /\ UNCHANGED <<provided, liveClosed, muted>>

Deleted(s) == [k \in DOMAIN references \ {s} |-> references[k]]

(* disconnectWhenIdle *)
GiveUp(map, c) ==
    /\ references' = map
    /\ client' = IF DOMAIN map = {} THEN Disconnected(c) ELSE c
    /\ provided' = IF DOMAIN map = {} THEN {} ELSE provided
    /\ muted' = IF DOMAIN map = {} THEN {} ELSE muted
    /\ UNCHANGED <<openings, liveClosed, ridden>>

(* The function that retain returned *)
Release(h) ==
    LET s == holder[h].symbol
    IN /\ holder[h].at = "holding" /\ client.generation < MaxGenerations
       /\ holder' = [holder EXCEPT ![h] = Free]
       /\ IF s \notin DOMAIN references THEN GiveUp(references, client)
          ELSE IF references[s] <= 1 THEN GiveUp(Deleted(s), Unsubscribed(client, s))
          ELSE GiveUp([references EXCEPT ![s] = @ - 1], client)

(* The provider does not accept a subscription: its reference goes, whoever *)
(* holds it.                                                                *)
Rejected(s) ==
    /\ client.state = "connected" /\ client.generation < MaxGenerations
    /\ s \in provided \cap DOMAIN references /\ ~liveClosed
    /\ UNCHANGED holder
    /\ GiveUp(Deleted(s), Unsubscribed(client, s))

CloseRuntime ==
    /\ ~liveClosed /\ client.generation < MaxGenerations
    /\ liveClosed' = TRUE
    /\ client' = Disconnected(client)
    /\ references' = <<>>
    /\ provided' = {} /\ muted' = {}
    /\ UNCHANGED <<openings, holder, ridden>>

-----------------------------------------------------------------------------
FeedNext ==
    \/ \E h \in Holders : (\E s \in Symbols : Retain(h, s)) \/ Release(h)
    \/ \E t \in openings : Approved(t) \/ Refused(t)
    \/ ReconnectTimer \/ SocketOpens \/ SocketEnds \/ ControlSent
    \/ \E s \in Symbols : Rejected(s)
    \/ CloseRuntime

FeedSpec == FeedInit /\ [][FeedNext]_feedVars

-----------------------------------------------------------------------------
(* Properties *)

(* While a symbol is wanted something will bring its data: the connection,  *)
(* an attempt, or a timer, of the generation that counts.  The exception is *)
(* a connect that joined an attempt which disconnect had given up: the      *)
(* attempt ends without a connection and without an error.                  *)
LiveFeedIsDriven ==
    (client.desired # {} /\ ~liveClosed /\ ~ridden) =>
        LET g == client.generation
        IN /\ ~client.manuallyStopped
           /\ \/ client.state = "connected" /\ client.socket = g
              \/ client.state = "connecting" /\ client.socket = g /\ client.connectionTimer = g
              \/ client.reconnectTimer = g
              \/ \E t \in openings : t.generation = g

(* What the provider comes to send, when it sends the symbols p, once the   *)
(* control queue q has been sent while D are desired                        *)
Provides(D, p, q) == FoldLeft(LAMBDA symbols, m : Sent(symbols, D, m), p, q)

(* Over a connection the provider comes to send what is desired and nothing *)
(* else, once the control queue has been sent; but for a symbol of which a  *)
(* message was dropped, nothing repeats it before the next connection.      *)
ControlConverges ==
    client.state = "connected" =>
        client.desired \ muted = Provides(client.desired, provided, client.controlQueue) \ muted
=============================================================================
