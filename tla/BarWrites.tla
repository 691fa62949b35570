------------------------------ MODULE BarWrites ------------------------------
(***************************************************************************)
(* BarWriteBuffer between the live runtime and ScalpingRepository.putBars: *)
(* records of one bar are coalesced, a full buffer gives up forming bars   *)
(* for final ones, and one drain writes batches until the buffer is empty. *)
(* A record is what the buffer and the database look at: whether the bar   *)
(* is final, its quality, its source and when it was updated.  They do not *)
(* order records alike.  The recovery stores bars of its own beside the    *)
(* buffer.  A write stores its batch in one transaction or fails.          *)
(*                                                                         *)
(* Definitions with a word after "_" are wrong on purpose, as in RunStore. *)
(***************************************************************************)
EXTENDS Integers, Sequences, SequencesExt, Selections

CONSTANTS
    Bars,            \* the bars, which barKey identifies
    MaximumEntries,  \* maximumEntries
    BatchSize,       \* batchSize
    MaxUpdates       \* bound: calls of enqueue and rows of the recovery

ASSUME BarWritesAssumption ==
    /\ MaximumEntries \in Nat \ {0}
    /\ BatchSize \in 1..MaximumEntries
    /\ MaxUpdates \in Nat

VARIABLES
    queued,    \* the Map queued, in insertion order
    writing,   \* the batch that this.write is storing
    draining,
    idleWait,  \* whether somebody waits for idle
    stored,    \* portfolio_intraday_bars
    updates,   \* calls of enqueue and rows of the recovery, and the clock
    best,      \* history: the record of each bar that preferred puts first of those taken
    displaced, \* history: the bars whose best gave its place to a final bar
    lost       \* history: the bars whose best was in a write that failed

barVars == <<queued, writing, draining, idleWait, stored, updates, best, displaced, lost>>

QualityRank == [recovered |-> 3, complete |-> 2, partial |-> 1, none |-> 0]
SourceRank  == [kis_ws |-> 4, kis_rest |-> 3, none |-> 0]

BarRecord == [final : BOOLEAN, quality : DOMAIN QualityRank, source : DOMAIN SourceRank, at : 0..MaxUpdates]
NoBar     == [final |-> FALSE, quality |-> "none", source |-> "none", at |-> 0]

(* recordFromAggregated: the records of the buffer come from the WebSocket. *)
Entry     == [bar : Bars, final : BOOLEAN, quality : {"partial", "complete"}, at : 1..MaxUpdates]
Record(e) == [final |-> e.final, quality |-> e.quality, source |-> "kis_ws", at |-> e.at]

Better(e, f) == (e.final /\ ~f.final) \/ (e.final = f.final /\ e.at > f.at)

BarsTypeOK ==
    /\ queued \in Seq(Entry) /\ Len(queued) <= MaximumEntries
    /\ writing \in Seq(Entry) /\ Len(writing) <= BatchSize
    /\ draining \in BOOLEAN /\ idleWait \in BOOLEAN
    /\ stored \in [Bars -> BarRecord]
    /\ updates \in 0..MaxUpdates
    /\ best \in [Bars -> BarRecord]
    /\ displaced \subseteq Bars /\ lost \subseteq Bars

BarsInit ==
    /\ queued = <<>> /\ writing = <<>>
    /\ draining = FALSE /\ idleWait = FALSE
    /\ stored = [b \in Bars |-> NoBar]
    /\ updates = 0
    /\ best = [b \in Bars |-> NoBar] /\ displaced = {} /\ lost = {}

-----------------------------------------------------------------------------
Preferred_Newest(existing, incoming) == incoming

Preferred(existing, incoming) ==
    IF existing.final # incoming.final
    THEN IF existing.final THEN existing ELSE incoming
    ELSE IF incoming.at >= existing.at THEN incoming ELSE existing

Forming(q) == {i \in DOMAIN q : ~q[i].final}

(* The bars of these entries whose best record is one of them *)
BestOf(known, entries) == {e.bar : e \in {f \in entries : Record(f) = known[f.bar]}}

(* One record of enqueue.  buffer = [queued, best, displaced, lost] *)
Enqueued(buffer, e) ==
    LET q    == buffer.queued
        took == IF Better(buffer.best[e.bar], e) THEN buffer
                ELSE [buffer EXCEPT !.best[e.bar] = Record(e),
                                    !.displaced = @ \ {e.bar}, !.lost = @ \ {e.bar}]
        same == {i \in DOMAIN q : q[i].bar = e.bar}
    IN IF same # {}
       THEN LET i == CHOOSE i \in same : TRUE
            IN [took EXCEPT !.queued[i] = Preferred(@, e)]
       ELSE IF Len(q) < MaximumEntries THEN [took EXCEPT !.queued = Append(@, e)]
       ELSE IF e.final /\ Forming(q) # {}
            THEN LET i == CHOOSE i \in Forming(q) : \A j \in Forming(q) : i <= j
                 IN [took EXCEPT !.queued = Append(RemoveAt(@, i), e),
                                 !.displaced = @ \cup BestOf(took.best, {q[i]})]
       ELSE buffer

(* The final bars first, then in order of arrival *)
Batch(q) ==
    LET order == EntriesAt(q, DOMAIN q \ Forming(q)) \o EntriesAt(q, Forming(q))
    IN SubSeq(order, 1, IF Len(q) < BatchSize THEN Len(q) ELSE BatchSize)

(* The loop of drain goes on with the buffer q, up to its next await. *)
Drain(q) ==
    /\ writing' = Batch(q)
    /\ queued' = EntriesAt(q, {i \in DOMAIN q : q[i] \notin ToSet(Batch(q))})
    /\ draining' = (q # <<>>)

(* persistUpdates: one to two records, no two of one bar *)
BarUpdate(bars) ==
    LET buffer == [queued |-> queued, best |-> best, displaced |-> displaced, lost |-> lost]
    IN /\ updates < MaxUpdates
       /\ updates' = updates + 1
       /\ \E final \in [DOMAIN bars -> BOOLEAN], quality \in [DOMAIN bars -> {"partial", "complete"}] :
            LET after == FoldLeft(Enqueued, buffer,
                                  [i \in DOMAIN bars |-> [bar |-> bars[i], final |-> final[i],
                                                          quality |-> quality[i], at |-> updates + 1]])
            IN /\ best' = after.best
               /\ displaced' = after.displaced /\ lost' = after.lost
               /\ IF draining
                  THEN queued' = after.queued /\ UNCHANGED <<writing, draining>>
                  ELSE Drain(after.queued)
       /\ UNCHANGED <<idleWait, stored>>

(* waitForIdle *)
WaitForIdle ==
    /\ ~idleWait /\ draining
    /\ idleWait' = TRUE
    /\ UNCHANGED <<queued, writing, draining, stored, updates, best, displaced, lost>>

(* conflictPreferred of putBars *)
Outranks(r, row) ==
    LET q(x) == QualityRank[x.quality]
        s(x) == SourceRank[x.source]
    IN \/ r.final /\ ~row.final
       \/ /\ r.final = row.final
          /\ \/ q(r) > q(row)
             \/ q(r) = q(row) /\ s(r) > s(row)
             \/ q(r) = q(row) /\ r.source = row.source /\ r.at >= row.at

Upsert(row, r) == IF Outranks(r, row) THEN r ELSE row

Upserted(b) ==
    LET mine == {e \in ToSet(writing) : e.bar = b}
    IN IF mine = {} THEN stored[b]
       ELSE LET e == CHOOSE e \in mine : TRUE
            IN Upsert(stored[b], Record(e))

(* The write succeeds or fails, and the drain goes on either way. *)
WriteEnds ==
    /\ draining
    /\ \/ /\ stored' = [b \in Bars |-> Upserted(b)]
          /\ UNCHANGED lost
       \/ /\ lost' = lost \cup BestOf(best, ToSet(writing))
          /\ UNCHANGED stored
    /\ Drain(queued)
    /\ idleWait' = (idleWait /\ queued # <<>>)
    /\ UNCHANGED <<updates, best, displaced>>

(* The recovery stores a bar that it has read over REST. *)
RecoveryStores(b) ==
    /\ updates < MaxUpdates
    /\ updates' = updates + 1
    /\ \E final \in BOOLEAN :
         stored' = [stored EXCEPT ![b] =
                      Upsert(@, [final |-> final, quality |-> IF final THEN "recovered" ELSE "partial",
                                 source |-> "kis_rest", at |-> updates + 1])]
    /\ UNCHANGED <<queued, writing, draining, idleWait, best, displaced, lost>>

BarsNext ==
    \/ \E b \in Bars : BarUpdate(<<b>>)
    \/ \E b, c \in Bars : b # c /\ BarUpdate(<<b, c>>)
    \/ \E b \in Bars : RecoveryStores(b)
    \/ WaitForIdle \/ WriteEnds

BarsSpec == BarsInit /\ [][BarsNext]_barVars

-----------------------------------------------------------------------------
(* What enqueue prefers of a bar is in the buffer, being written, or in the *)
(* store as far as the database takes it: to write it again would change    *)
(* nothing there.  It is lost only when its write failed or, a forming bar, *)
(* when a final one took its place.  And nothing and nobody waits for a     *)
(* drain that is not under way.                                             *)
BarsReachTheStore ==
    /\ \A b \in Bars :
         \/ Upsert(stored[b], best[b]) = stored[b]
         \/ \E e \in ToSet(queued) \cup ToSet(writing) : e.bar = b /\ Record(e) = best[b]
         \/ b \in lost
         \/ b \in displaced /\ ~best[b].final
    /\ (queued # <<>> \/ idleWait) => draining
    /\ draining <=> writing # <<>>
=============================================================================
