----------------------------- MODULE MarketEvents -----------------------------
(***************************************************************************)
(* AsyncMarketEventQueue: quotes of one kind are coalesced behind a token, *)
(* trades keep the extremes, and barriers cut what may be coalesced into   *)
(* segments.  One consumer takes events with next.  Book tickers, mark     *)
(* prices and forming klines are coalesced the same way: Quotes are the    *)
(* kinds.  push and next run to their end between awaits.                  *)
(*                                                                         *)
(* Definitions with a word after "_" are wrong on purpose, as in RunStore. *)
(***************************************************************************)
EXTENDS Integers, Sequences, SequencesExt, FiniteSets, Selections

CONSTANTS
    Quotes,      \* the kinds of events that are coalesced
    QueueDepth,  \* MAX_MARKET_EVENT_QUEUE_DEPTH
    Levels,      \* event times of quotes, prices of trades
    FillKeys,    \* fillBarrierKeys: the pending decisions
    MaxPushes    \* bound

ASSUME MarketEventsAssumption ==
    /\ QueueDepth \in Nat \ {0} /\ MaxPushes \in Nat
    /\ Levels \subseteq Nat /\ 0 \notin FillKeys
    /\ Quotes \cap {"direct", "trade", "disconnect"} = {}

VARIABLES
    events,     \* the tokens, in the order of their queueSequence
    coalesced,  \* the map behind the tokens of quotes
    waiter,     \* whether next waits for an event
    segment,    \* coalescingSegment
    fillKey,    \* activeFillBarrierKey, 0 for none
    pushed,     \* history: every event, in the order of its push
    delivered,  \* history: what next returned
    lastFail    \* history: the number of pushes before the last fail

marketVars == <<events, coalesced, waiter, segment, fillKey, pushed, delivered, lastFail>>

(* An event is its place in pushed.  A token is [kind, id, seg]; that of a  *)
(* quote finds its event in coalesced.                                      *)
Direct(id)     == [kind |-> "direct", id |-> id, seg |-> 0]
Trade(id, s)   == [kind |-> "trade", id |-> id, seg |-> s]
QuoteToken(kind, s) == [kind |-> kind, id |-> 0, seg |-> s]

MarketTypeOK ==
    /\ events \in Seq([kind : {"direct", "trade"} \cup Quotes, id : 0..MaxPushes + 1, seg : Nat])
    /\ Len(events) <= QueueDepth
    /\ \A key \in DOMAIN coalesced : key \in Quotes \X Nat /\ coalesced[key] \in DOMAIN pushed
    /\ waiter \in BOOLEAN
    /\ segment \in Nat /\ fillKey \in FillKeys \cup {0}
    /\ ToSet(delivered) \subseteq DOMAIN pushed /\ lastFail \in 0..Len(pushed)

MarketInit ==
    /\ events = <<>> /\ coalesced = <<>> /\ waiter = FALSE
    /\ segment = 0 /\ fillKey = 0
    /\ pushed = <<>> /\ delivered = <<>> /\ lastFail = 0

-----------------------------------------------------------------------------
Without(f, key) == [k \in DOMAIN f \ {key} |-> f[k]]

(* fail, which the callers of push call when it returns false.  The         *)
(* disconnect it leaves is an event of its own.                             *)
Failed(history) ==
    /\ coalesced' = <<>>
    /\ pushed' = Append(history, [kind |-> "disconnect"])
    /\ lastFail' = Len(history) + 1
    /\ waiter' = FALSE
    /\ IF waiter
       THEN events' = <<>> /\ delivered' = Append(delivered, Len(history) + 1)
       ELSE events' = <<Direct(Len(history) + 1)>> /\ UNCHANGED delivered

(* enqueue *)
Enqueue(token, map, history) ==
    IF Len(events) >= QueueDepth THEN Failed(history)
    ELSE /\ pushed' = history
         /\ IF waiter
            THEN /\ waiter' = FALSE
                 /\ events' = events
                 /\ delivered' = Append(delivered,
                                        IF token.id # 0 THEN token.id ELSE map[<<token.kind, token.seg>>])
                 /\ coalesced' = Without(map, <<token.kind, token.seg>>)
            ELSE /\ events' = Append(events, token)
                 /\ coalesced' = map
                 /\ UNCHANGED <<delivered, waiter>>
         /\ UNCHANGED lastFail

PushDirect_SameSegment ==
    LET e == [kind |-> "direct"]
    IN /\ Len(pushed) < MaxPushes
       /\ Enqueue(Direct(Len(pushed) + 1), coalesced, Append(pushed, e))
       /\ UNCHANGED <<segment, fillKey>>

(* An event that is not coalesced, or the first mark price of a risk barrier *)
PushDirect ==
    LET e == [kind |-> "direct"]
    IN /\ Len(pushed) < MaxPushes
       /\ segment' = segment + 1
       /\ Enqueue(Direct(Len(pushed) + 1), coalesced, Append(pushed, e))
       /\ UNCHANGED fillKey

(* A quote older than the one it would replace is dropped; the token of the *)
(* one it replaces moves to the end.                                        *)
PushQuote(kind, at) ==
    LET key     == <<kind, segment>>
        id      == Len(pushed) + 1
        history == Append(pushed, [kind |-> kind, at |-> at])
        map     == [k \in DOMAIN coalesced \cup {key} |-> IF k = key THEN id ELSE coalesced[k]]
        token   == QuoteToken(kind, segment)
        others  == EntriesAt(events, {i \in DOMAIN events : events[i] # token})
    IN /\ id <= MaxPushes
       /\ CASE key \notin DOMAIN coalesced -> Enqueue(token, map, history)
            [] key \in DOMAIN coalesced /\ at < pushed[coalesced[key]].at ->
                 /\ pushed' = history
                 /\ UNCHANGED <<events, coalesced, delivered, waiter, lastFail>>
            [] OTHER ->
                 /\ pushed' = history
                 /\ coalesced' = map
                 /\ events' = Append(others, token)
                 /\ UNCHANGED <<delivered, waiter, lastFail>>
       /\ UNCHANGED <<segment, fillKey>>

Select_NoMinimum(ids, history) ==
    LET Price(i) == history[i].at
        Fills    == {i \in ids : history[i].fill # 0}
    IN {i \in ids :
          \/ \A j \in ids : i <= j
          \/ \A j \in ids : j <= i
          \/ i \in Fills /\ \A j \in Fills : i <= j
          \/ \A j \in ids : Price(i) > Price(j) \/ (Price(i) = Price(j) /\ i <= j)}

(* What a segment keeps of its trades: the first, the last, the first that  *)
(* may fill, and the first of the lowest and of the highest price           *)
Select(ids, history) ==
    LET Price(i) == history[i].at
        Fills    == {i \in ids : history[i].fill # 0}
    IN {i \in ids :
          \/ \A j \in ids : i <= j
          \/ \A j \in ids : j <= i
          \/ i \in Fills /\ \A j \in Fills : i <= j
          \/ \A j \in ids : Price(i) < Price(j) \/ (Price(i) = Price(j) /\ i <= j)
          \/ \A j \in ids : Price(i) > Price(j) \/ (Price(i) = Price(j) /\ i <= j)}

(* A trade; the first that may fill a pending decision is a barrier.        *)
PushTrade(price, fill) ==
    LET id       == Len(pushed) + 1
        history  == Append(pushed, [kind |-> "trade", at |-> price, fill |-> fill])
        barrier  == fill # 0 /\ fill # fillKey
        s        == IF barrier THEN segment + 1 ELSE segment
        Buffered(t) == t.kind = "trade" /\ t.seg = s
        before   == {t.id : t \in {u \in ToSet(events) : Buffered(u)}}
        kept     == Select(before \cup {id}, history)
        tokens   == EntriesAt(events, {i \in DOMAIN events :
                                        ~Buffered(events[i]) \/ events[i].id \in kept})
                        \o IF id \in kept THEN <<Trade(id, s)>> ELSE <<>>
    IN /\ id <= MaxPushes
       /\ segment' = s
       /\ fillKey' = IF barrier THEN fill ELSE fillKey
       /\ IF waiter THEN Enqueue(Trade(id, s), coalesced, history)
          ELSE IF Len(tokens) > QueueDepth THEN Failed(history)
          ELSE /\ pushed' = history
               /\ events' = tokens
               /\ UNCHANGED <<coalesced, delivered, waiter, lastFail>>

(* next: the first token, or a waiter *)
NextEvent ==
    /\ ~waiter
    /\ IF events = <<>>
       THEN waiter' = TRUE /\ UNCHANGED <<events, coalesced, delivered>>
       ELSE LET t == Head(events)
            IN /\ events' = Tail(events)
               /\ delivered' = Append(delivered, IF t.id # 0 THEN t.id ELSE coalesced[<<t.kind, t.seg>>])
               /\ coalesced' = Without(coalesced, <<t.kind, t.seg>>)
               /\ UNCHANGED waiter
    /\ UNCHANGED <<segment, fillKey, pushed, lastFail>>

(* The wait times out or is aborted. *)
WaitEnds ==
    /\ waiter
    /\ waiter' = FALSE
    /\ UNCHANGED <<events, coalesced, segment, fillKey, pushed, delivered, lastFail>>

MarketNext ==
    \/ PushDirect
    \/ \E kind \in Quotes, at \in Levels : PushQuote(kind, at)
    \/ \E price \in Levels, fill \in FillKeys \cup {0} : PushTrade(price, fill)
    \/ NextEvent \/ WaitEnds

MarketSpec == MarketInit /\ [][MarketNext]_marketVars

-----------------------------------------------------------------------------
(* Properties *)

(* What has been delivered, and what the queue would deliver now *)
Output == delivered \o [i \in DOMAIN events |->
                          IF events[i].id # 0 THEN events[i].id
                          ELSE coalesced[<<events[i].kind, events[i].seg>>]]

(* The first trade for a decision is the one whose key is not the last one. *)
IsBarrier(i) ==
    \/ pushed[i].kind \in {"direct", "disconnect"}
    \/ /\ pushed[i].kind = "trade" /\ pushed[i].fill # 0
       /\ ~\E j \in 1..i - 1 :
             /\ pushed[j].kind = "trade" /\ pushed[j].fill = pushed[i].fill
             /\ \A k \in j + 1..i - 1 :
                  pushed[k].kind = "trade" => pushed[k].fill \in {0, pushed[i].fill}

Together(i, j) == \A b \in DOMAIN pushed : IsBarrier(b) => (b <= i <=> b <= j)

(* However the pushes and the consumer interleave, between two barriers the *)
(* consumer gets the newest quote of each kind, and of the trades the first *)
(* and the last, the first that may fill, and both extremes; it gets every  *)
(* barrier, and nothing crosses one.  What was there when the queue failed  *)
(* is excepted.                                                             *)
NothingCrossesABarrier ==
    LET out == ToSet(Output)
        Kept(i, Test(_)) == \E j \in out : Together(i, j) /\ pushed[j].kind = pushed[i].kind /\ Test(j)
    IN /\ \A i, j \in DOMAIN Output :
            i < j => \A b \in DOMAIN pushed : IsBarrier(b) => ~(Output[j] < b /\ b <= Output[i])
       /\ \A i \in {k \in DOMAIN pushed : k > lastFail} :
            IF pushed[i].kind \in Quotes
            THEN Kept(i, LAMBDA j : pushed[j].at > pushed[i].at \/ (pushed[j].at = pushed[i].at /\ j >= i))
            ELSE IF pushed[i].kind = "trade"
            THEN /\ IsBarrier(i) => i \in out
                 /\ Kept(i, LAMBDA j : pushed[j].at <= pushed[i].at)
                 /\ Kept(i, LAMBDA j : pushed[j].at >= pushed[i].at)
                 /\ Kept(i, LAMBDA j : j <= i) /\ Kept(i, LAMBDA j : j >= i)
                 /\ pushed[i].fill # 0 => Kept(i, LAMBDA j : j <= i /\ pushed[j].fill # 0)
            ELSE i \in out
=============================================================================
