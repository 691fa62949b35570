-------------------------- MODULE PortfolioLiveProofs --------------------------
(***************************************************************************)
(* The live portfolio, for any number of connections and any limits: the   *)
(* stream of the hub is driven while somebody listens and evicted after,   *)
(* and a visible page is supplied.                                         *)
(***************************************************************************)
EXTENDS PortfolioLive, TLAPS

(* Every frame that is under way carries a portfolio the broker has had, or *)
(* none: that is why what the page shows is one.                            *)
Frames    == [revision : Nat, content : -1..MaxContent]
FrameSeqs == Seq(Frames)

ConnFields ==
    [at : {"none", "requested", "joining", "open", "finished"}, lost : BOOLEAN, cursor : Nat,
     sent : Nat, blocked : BOOLEAN, pending : FrameSeqs, wire : FrameSeqs]

ConnRecords == {c \in ConnFields : Len(c.pending) < BackpressureLimit}

HubRecords ==
    [revision : Nat, latest : -1..MaxContent, refreshing : BOOLEAN, timer : BOOLEAN,
     evicting : BOOLEAN]

TossRecords == [value : -1..MaxContent, fresh : BOOLEAN, fetching : BOOLEAN, since : 0..MaxContent]

HubTypes ==
    /\ content \in 0..MaxContent
    /\ toss \in TossRecords
    /\ hub \in HubRecords
    /\ conn \in [Conns -> ConnRecords]
    /\ failures \in 0..MaxFailures
    /\ resets \in 0..MaxResets

Shown  == 0..MaxContent
Values == -1..MaxContent

BrowserRecords ==
    [visible : BOOLEAN, known : Nat, shown : Shown, source : Conns \cup {NoSource}, retry : BOOLEAN]

ReadRecords ==
    [at : {"none", "sent", "waiting", "answered"}, kind : {"background", "manual"}, value : Values]

PageTypes ==
    /\ browser \in BrowserRecords
    /\ read \in ReadRecords
    /\ spent \in [hides : 0..MaxHides, losses : 0..MaxLosses, reads : 0..MaxReads]

(* HubIsDriven of a stream h with the connections cs, and what a refresh    *)
(* that settles h needs of it.                                              *)
Driven(h, cs) ==
    IF Listeners(cs) # {}
    THEN (h.timer \/ h.refreshing) /\ ~h.evicting
    ELSE ~h.timer /\ (h.evicting \/ h.refreshing \/ h = FreshHub)

CanSettle(h, cs) ==
    /\ Listeners(cs) # {} => ~h.evicting
    /\ Listeners(cs) = {} => ~h.timer

HubInv == HubTypes /\ HubIsDriven

LiveInv == HubInv /\ PageTypes /\ PageIsSupplied

-----------------------------------------------------------------------------
(* The records of the connections *)

LEMMA ContentBound == MaxContent \in Nat /\ None \in -1..MaxContent /\ 0 \in 0..MaxContent
  BY PortfolioHubAssumption DEF None

LEMMA NoConnIs == NoConn \in ConnRecords /\ NoConn.at = "none"
  <1>1. <<>> \in FrameSeqs /\ Len(<<>>) = 0
    BY DEF FrameSeqs
  <1> HIDE DEF FrameSeqs
  <1>2. NoConn \in ConnFields /\ NoConn.pending = <<>> /\ NoConn.at = "none"
    BY <1>1 DEF NoConn, ConnFields
  <1> QED
    BY <1>1, <1>2, PortfolioHubAssumption DEF ConnRecords

LEMMA EndedIs ==
  ASSUME NEW c \in ConnRecords
  PROVE  Ended(c) \in ConnRecords /\ Ended(c).at \in {"none", "finished"}
  <1>1. <<>> \in FrameSeqs /\ Len(<<>>) = 0
    BY DEF FrameSeqs
  <1>2. c.wire \in FrameSeqs
    BY DEF ConnRecords, ConnFields
  <1> HIDE DEF FrameSeqs
  <1> DEFINE d == [NoConn EXCEPT !.at = "finished", !.wire = c.wire]
  <1>4. d \in ConnFields /\ d.pending = <<>> /\ d.at = "finished"
    BY <1>1, <1>2 DEF NoConn, ConnFields
  <1>5. Ended(c) = IF c.lost THEN NoConn ELSE d
    BY DEF Ended
  <1> HIDE DEF d
  <1>6. Len(<<>>) < BackpressureLimit
    BY <1>1, PortfolioHubAssumption
  <1>7. d \in ConnRecords
    BY <1>4, <1>6 DEF ConnRecords
  <1> QED
    BY <1>4, <1>5, <1>7, NoConnIs

LEMMA WrittenIs ==
  ASSUME NEW c \in ConnRecords, NEW frame \in Frames, NEW full \in BOOLEAN
  PROVE  Written(c, frame, full) \in ConnRecords /\ Written(c, frame, full).at = c.at
         /\ Written(c, frame, full).pending = c.pending
  <1>1. c \in ConnFields /\ c.wire \in FrameSeqs
    BY DEF ConnRecords, ConnFields
  <1>2. <<>> \in FrameSeqs /\ Append(c.wire, frame) \in FrameSeqs
    BY <1>1 DEF FrameSeqs
  <1>3. PICK w \in FrameSeqs : Written(c, frame, full) = [c EXCEPT !.wire = w, !.blocked = full]
    BY <1>2 DEF Written
  <1>4. [c EXCEPT !.wire = w, !.blocked = full] \in ConnFields
        /\ [c EXCEPT !.wire = w, !.blocked = full].at = c.at
        /\ [c EXCEPT !.wire = w, !.blocked = full].pending = c.pending
    BY <1>1 DEF ConnFields
  <1> QED
    BY <1>3, <1>4 DEF ConnRecords

LEMMA SendIs ==
  ASSUME NEW c \in ConnRecords, NEW frame \in Frames, NEW full \in BOOLEAN
  PROVE  Send(c, frame, full) \in ConnRecords
         /\ Send(c, frame, full).at \in {c.at, "none", "finished"}
  <1>0. c \in ConnFields /\ c.sent \in Nat /\ c.pending \in FrameSeqs /\ frame.revision \in Nat
    BY DEF ConnRecords, ConnFields, Frames
  <1>1. CASE frame.revision <= c.sent
    BY <1>0, <1>1 DEF Send
  <1>2. CASE frame.revision > c.sent /\ ~c.blocked
    <2> DEFINE d == Written(c, frame, full)
    <2>1. d \in ConnFields /\ Len(d.pending) < BackpressureLimit /\ d.at = c.at
      BY WrittenIs DEF ConnRecords
    <2>2. Send(c, frame, full) = [d EXCEPT !.sent = frame.revision]
      BY <1>0, <1>2 DEF Send
    <2> HIDE DEF d
    <2>3. [d EXCEPT !.sent = frame.revision] \in ConnFields
          /\ [d EXCEPT !.sent = frame.revision].at = d.at
          /\ [d EXCEPT !.sent = frame.revision].pending = d.pending
      BY <1>0, <2>1 DEF ConnFields
    <2> QED
      BY <2>1, <2>2, <2>3 DEF ConnRecords
  <1>3. CASE frame.revision > c.sent /\ c.blocked /\ Len(c.pending) < BackpressureLimit - 1
    <2> DEFINE p == Append(c.pending, frame)
    <2>1. p \in FrameSeqs /\ Len(p) < BackpressureLimit
      BY <1>0, <1>3, PortfolioHubAssumption DEF FrameSeqs
    <2>2. Send(c, frame, full) = [c EXCEPT !.pending = p]
      BY <1>0, <1>3 DEF Send
    <2> HIDE DEF p
    <2>3. [c EXCEPT !.pending = p] \in ConnFields
          /\ [c EXCEPT !.pending = p].at = c.at /\ [c EXCEPT !.pending = p].pending = p
      BY <1>0, <2>1 DEF ConnFields
    <2> QED
      BY <2>1, <2>2, <2>3 DEF ConnRecords
  <1>4. CASE frame.revision > c.sent /\ c.blocked /\ ~(Len(c.pending) < BackpressureLimit - 1)
    <2>1. Send(c, frame, full) = Ended(c)
      BY <1>0, <1>4 DEF Send
    <2> QED
      BY <2>1, EndedIs
  <1> QED
    BY <1>0, <1>1, <1>2, <1>3, <1>4

LEMMA OpenedIs ==
  ASSUME NEW c \in ConnRecords, NEW h \in HubRecords, NEW full \in BOOLEAN
  PROVE  Opened(c, h, full) \in ConnRecords
         /\ Opened(c, h, full).at \in {"open", "none", "finished"}
  <1>0. c \in ConnFields /\ c.sent \in Nat /\ Len(c.pending) < BackpressureLimit
    BY DEF ConnRecords, ConnFields
  <1>1. CASE c.cursor = h.revision
    <2>1. [c EXCEPT !.at = "open"] \in ConnFields /\ [c EXCEPT !.at = "open"].at = "open"
          /\ [c EXCEPT !.at = "open"].pending = c.pending
      BY <1>0 DEF ConnFields
    <2> QED
      BY <1>0, <1>1, <2>1 DEF Opened, ConnRecords
  <1>2. CASE c.cursor # h.revision
    <2> DEFINE s == IF c.cursor > h.revision THEN 0 ELSE c.sent
               d == [c EXCEPT !.at = "open", !.sent = s]
               f == [revision |-> h.revision, content |-> h.latest]
    <2>1. s \in Nat
      BY <1>0
    <2>2. Opened(c, h, full) = Send(d, f, full)
      BY <1>2 DEF Opened
    <2>3. f \in Frames
      BY DEF HubRecords, Frames
    <2> HIDE DEF s
    <2>4. d \in ConnFields /\ d.at = "open" /\ d.pending = c.pending
      BY <1>0, <2>1 DEF ConnFields
    <2> HIDE DEF d, f
    <2>5. d \in ConnRecords
      BY <1>0, <2>4 DEF ConnRecords
    <2> QED
      BY <2>2, <2>3, <2>4, <2>5, SendIs
  <1> QED
    BY <1>1, <1>2

-----------------------------------------------------------------------------
(* The stream of the hub *)

LEMMA ScheduledIs ==
  ASSUME NEW h \in HubRecords, NEW cs
  PROVE  Scheduled(h, cs) \in HubRecords
         /\ Scheduled(h, cs).evicting = h.evicting /\ Scheduled(h, cs).refreshing = h.refreshing
         /\ (Listeners(cs) # {} /\ ~h.refreshing => Scheduled(h, cs).timer)
         /\ (Listeners(cs) = {} => Scheduled(h, cs).timer = h.timer)
  BY DEF Scheduled, HubRecords

LEMMA DeactivatedIs ==
  ASSUME NEW h \in HubRecords
  PROVE  Deactivated(h) \in HubRecords /\ ~Deactivated(h).timer /\ Deactivated(h).evicting
  BY DEF Deactivated, HubRecords

LEMMA AppliedIs ==
  ASSUME NEW h \in HubRecords, NEW v \in -1..MaxContent
  PROVE  Applied(h, v) \in HubRecords
         /\ Applied(h, v).timer = h.timer /\ Applied(h, v).evicting = h.evicting
  <1>1. CASE h.latest = v
    BY <1>1 DEF Applied
  <1>2. CASE h.latest # v
    <2> DEFINE Latest == -1..MaxContent
               n == h.revision + 1
               g == [h EXCEPT !.revision = n, !.latest = v]
    <2>1. h \in [revision : Nat, latest : Latest, refreshing : BOOLEAN, timer : BOOLEAN,
                 evicting : BOOLEAN] /\ n \in Nat /\ v \in Latest
      BY DEF HubRecords
    <2>2. Applied(h, v) = g
      BY <1>2 DEF Applied
    <2> HIDE DEF Latest, n
    <2>3. g \in [revision : Nat, latest : Latest, refreshing : BOOLEAN, timer : BOOLEAN,
                 evicting : BOOLEAN] /\ g.timer = h.timer /\ g.evicting = h.evicting
      BY <2>1
    <2> QED
      BY <2>2, <2>3 DEF Latest, HubRecords
  <1> QED
    BY <1>1, <1>2

(* Connections that end turn a driven stream into a driven one. *)
LEMMA ReleasedDrives ==
  ASSUME NEW h \in HubRecords, NEW before, NEW after, Driven(h, before),
         Listeners(after) \subseteq Listeners(before)
  PROVE  Released(h, before, after) \in HubRecords /\ Driven(Released(h, before, after), after)
  BY DeactivatedIs DEF Released, Driven

LEMMA ReleasedSettles ==
  ASSUME NEW h \in HubRecords, NEW before, NEW after, CanSettle(h, before),
         Listeners(after) \subseteq Listeners(before)
  PROVE  Released(h, before, after) \in HubRecords /\ CanSettle(Released(h, before, after), after)
  BY DeactivatedIs DEF Released, CanSettle

(* The finally of a refresh leaves the stream driven. *)
LEMMA SettledDrives ==
  ASSUME NEW h \in HubRecords, NEW cs, CanSettle(h, cs)
  PROVE  Settled(h, cs) \in HubRecords /\ Driven(Settled(h, cs), cs)
  <1> DEFINE idle == [h EXCEPT !.refreshing = FALSE]
  <1>1. idle \in HubRecords /\ idle.timer = h.timer /\ idle.evicting = h.evicting
        /\ idle.refreshing = FALSE
    BY DEF HubRecords
  <1>2. Settled(h, cs) = IF Listeners(cs) = {} /\ ~h.evicting THEN Deactivated(idle)
                                                            ELSE Scheduled(idle, cs)
    BY DEF Settled
  <1> HIDE DEF idle
  <1>3. CASE Listeners(cs) = {} /\ ~h.evicting
    BY <1>1, <1>2, <1>3, DeactivatedIs DEF Driven
  <1>4. CASE Listeners(cs) = {} /\ h.evicting
    <2>1. Settled(h, cs) = idle
      BY <1>2, <1>4 DEF Scheduled
    <2> QED
      BY <1>1, <1>4, <2>1 DEF Driven, CanSettle
  <1>5. CASE Listeners(cs) # {}
    <2>1. Settled(h, cs) = Scheduled(idle, cs)
      BY <1>2, <1>5
    <2>2. ~idle.evicting /\ ~idle.refreshing
      BY <1>1, <1>5 DEF CanSettle
    <2>3. Settled(h, cs) \in HubRecords /\ Settled(h, cs).timer /\ ~Settled(h, cs).evicting
      BY <1>1, <1>5, <2>1, <2>2, ScheduledIs
    <2> QED
      BY <1>5, <2>3 DEF Driven
  <1> QED
    BY <1>3, <1>4, <1>5

(* A refresh that has read the portfolio: some connections end, in emit or  *)
(* when they open, and the stream is driven all the same.                   *)
LEMMA RefreshedDrives ==
  ASSUME NEW h \in HubRecords, NEW cs \in [Conns -> ConnRecords], NEW v \in -1..MaxContent,
         NEW full \in [Conns -> BOOLEAN], CanSettle(h, cs), Refreshed(h, cs, v, full)
  PROVE  hub' \in HubRecords /\ conn' \in [Conns -> ConnRecords] /\ Driven(hub', conn')
  <1> DEFINE next    == Applied(h, v)
             frame   == [revision |-> next.revision, content |-> v]
             emitted == [k \in Conns |->
                           IF h.latest # v /\ cs[k].at = "open" THEN Send(cs[k], frame, full[k])
                                                                ELSE cs[k]]
             settled == Settled(Released(next, cs, emitted), emitted)
             opened  == [k \in Conns |->
                           IF emitted[k].at = "joining" THEN Opened(emitted[k], settled, full[k])
                                                        ELSE emitted[k]]
  <1>0. hub' = Released(settled, emitted, opened) /\ conn' = opened
    BY DEF Refreshed
  <1>1. next \in HubRecords /\ next.timer = h.timer /\ next.evicting = h.evicting
    BY AppliedIs
  <1>2. CanSettle(next, cs)
    BY <1>1 DEF CanSettle
  <1>3. frame \in Frames
    BY <1>1 DEF HubRecords, Frames
  <1> HIDE DEF next, frame
  <1>4. \A k \in Conns : emitted[k] \in ConnRecords /\ emitted[k].at \in {cs[k].at, "none", "finished"}
    BY <1>3, SendIs
  <1>5. emitted \in [Conns -> ConnRecords] /\ Listeners(emitted) \subseteq Listeners(cs)
    BY <1>4 DEF Listeners
  <1> HIDE DEF emitted
  <1>6. settled \in HubRecords /\ Driven(settled, emitted)
    BY <1>1, <1>2, <1>5, ReleasedSettles, SettledDrives
  <1> HIDE DEF settled
  <1>7. \A k \in Conns :
          /\ opened[k] \in ConnRecords
          /\ opened[k].at \in {"joining", "open"} => emitted[k].at \in {"joining", "open"}
    BY <1>5, <1>6, OpenedIs
  <1>8. opened \in [Conns -> ConnRecords] /\ Listeners(opened) \subseteq Listeners(emitted)
    BY <1>5, <1>7 DEF Listeners
  <1> HIDE DEF opened
  <1> QED
    BY <1>0, <1>6, <1>8, ReleasedDrives

LEMMA FailureDrives ==
  ASSUME NEW h \in HubRecords, NEW cs \in [Conns -> ConnRecords], CanSettle(h, cs),
         RefreshFailed(h, cs)
  PROVE  hub' \in HubRecords /\ conn' \in [Conns -> ConnRecords] /\ Driven(hub', conn')
  <1> DEFINE settled == Settled(h, cs)
             refused == [k \in Conns |-> IF cs[k].at = "joining" THEN Ended(cs[k]) ELSE cs[k]]
  <1>1. hub' = Released(settled, cs, refused) /\ conn' = refused
    BY DEF RefreshFailed
  <1>2. settled \in HubRecords /\ Driven(settled, cs)
    BY SettledDrives
  <1>3. \A k \in Conns : refused[k] \in ConnRecords /\ refused[k].at \in {cs[k].at, "none", "finished"}
    BY EndedIs
  <1>4. refused \in [Conns -> ConnRecords] /\ Listeners(refused) \subseteq Listeners(cs)
    BY <1>3 DEF Listeners
  <1> HIDE DEF settled, refused
  <1> QED
    BY <1>1, <1>2, <1>4, ReleasedDrives

LEMMA RefreshDrives ==
  ASSUME HubTypes, NEW h \in HubRecords, NEW cs \in [Conns -> ConnRecords], CanSettle(h, cs),
         Refresh(h, cs)
  PROVE  toss' \in TossRecords /\ hub' \in HubRecords /\ conn' \in [Conns -> ConnRecords]
         /\ Driven(hub', conn')
  <1> DEFINE asked == [h EXCEPT !.refreshing = TRUE]
  <1>1. asked \in HubRecords /\ asked.timer = h.timer /\ asked.evicting = h.evicting
        /\ asked.refreshing
    BY DEF HubRecords
  <1>2. CASE ~h.refreshing /\ toss.fresh
    <2>1. PICK full \in [Conns -> BOOLEAN] : Refreshed(asked, cs, toss.value, full) /\ toss' = toss
      BY <1>2 DEF Refresh
    <2>2. toss.value \in -1..MaxContent
      BY DEF HubTypes, TossRecords
    <2>3. CanSettle(asked, cs)
      BY <1>1 DEF CanSettle
    <2> HIDE DEF asked
    <2> QED
      BY <1>1, <2>1, <2>2, <2>3, RefreshedDrives DEF HubTypes
  <1>3. CASE ~(~h.refreshing /\ toss.fresh)
    <2>1. hub' = asked /\ conn' = cs /\ toss' = Fetching(toss)
      BY <1>3 DEF Refresh
    <2>2. toss' \in TossRecords
      BY <2>1 DEF Fetching, HubTypes, TossRecords
    <2> HIDE DEF asked
    <2>3. Driven(asked, cs)
      BY <1>1 DEF Driven, CanSettle
    <2> QED
      BY <1>1, <2>1, <2>2, <2>3
  <1> QED
    BY <1>2, <1>3

-----------------------------------------------------------------------------
(* The steps of the server *)

LEMMA StillDriven ==
  ASSUME HubInv, UNCHANGED hub, Listeners(conn') = Listeners(conn)
  PROVE  HubIsDriven'
  BY DEF HubInv, HubIsDriven

LEMMA Settleable == ASSUME HubInv PROVE CanSettle(hub, conn)
  BY DEF HubInv, HubIsDriven, CanSettle

LEMMA SubscribeKeeps ==
  ASSUME HubInv, NEW k \in Conns, Subscribe(k) PROVE HubInv'
  <1>0. HubTypes /\ conn[k] \in ConnRecords /\ conn[k].at = "requested"
        /\ UNCHANGED <<content, failures, resets>>
    BY DEF HubInv, HubTypes, Subscribe
  <1>1. CASE Cardinality(Listeners(conn)) >= MaxListeners
    <2>1. conn' = [conn EXCEPT ![k] = Ended(conn[k])] /\ UNCHANGED <<toss, hub>>
      BY <1>1 DEF Subscribe
    <2>2. Ended(conn[k]) \in ConnRecords /\ Ended(conn[k]).at \in {"none", "finished"}
      BY <1>0, EndedIs
    <2>3. conn' \in [Conns -> ConnRecords] /\ Listeners(conn') = Listeners(conn)
      BY <1>0, <2>1, <2>2 DEF HubTypes, Listeners
    <2> QED
      BY <1>0, <2>1, <2>3, StillDriven DEF HubInv, HubTypes
  <1>2. CASE ~(Cardinality(Listeners(conn)) >= MaxListeners)
    <2> DEFINE h  == [hub EXCEPT !.evicting = FALSE]
               j  == [conn[k] EXCEPT !.at = "joining"]
               cs == [conn EXCEPT ![k] = j]
    <2>1. h \in HubRecords /\ ~h.evicting /\ h.timer = hub.timer /\ h.refreshing = hub.refreshing
      BY <1>0 DEF HubTypes, HubRecords
    <2>2. j \in ConnFields /\ j.at = "joining" /\ j.pending = conn[k].pending
      BY <1>0 DEF ConnRecords, ConnFields
    <2>3. j \in ConnRecords
      BY <1>0, <2>2 DEF ConnRecords
    <2>4. IF Listeners(conn) # {} /\ hub.latest # None
          THEN \E full \in BOOLEAN :
                 /\ hub' = Scheduled(h, cs)
                 /\ conn' = [cs EXCEPT ![k] = Opened(@, h, full)]
                 /\ toss' = toss
          ELSE Refresh(h, cs)
      BY <1>2, Zenon DEF Subscribe
    <2> HIDE DEF h, j
    <2>5. cs \in [Conns -> ConnRecords] /\ Listeners(cs) = Listeners(conn) \cup {k} /\ cs[k] = j
      BY <1>0, <2>2, <2>3 DEF HubTypes, Listeners
    <2>6. CASE Listeners(conn) # {} /\ hub.latest # None
      <3>1. PICK full \in BOOLEAN :
              hub' = Scheduled(h, cs) /\ conn' = [cs EXCEPT ![k] = Opened(j, h, full)] /\ toss' = toss
        BY <2>4, <2>5, <2>6
      <3>2. conn' \in [Conns -> ConnRecords]
        BY <2>1, <2>3, <2>5, <3>1, OpenedIs
      <3>3. \A o \in Conns \ {k} : conn'[o] = conn[o]
        BY <1>0, <3>1 DEF HubTypes
      <3>4. Listeners(conn) \subseteq Listeners(conn') \cup {k} /\ conn[k].at \notin {"joining", "open"}
        BY <1>0, <3>2, <3>3 DEF Listeners, HubTypes
      <3>5. Listeners(conn') # {}
        BY <2>6, <3>4 DEF Listeners
      <3>6. hub' \in HubRecords /\ hub'.evicting = h.evicting /\ hub'.refreshing = h.refreshing
            /\ (~h.refreshing => hub'.timer)
        BY <2>1, <2>5, <3>1, ScheduledIs
      <3> QED
        BY <1>0, <2>1, <3>1, <3>2, <3>5, <3>6 DEF HubInv, HubTypes, HubIsDriven
    <2>7. CASE ~(Listeners(conn) # {} /\ hub.latest # None)
      <3>1. Refresh(h, cs) /\ CanSettle(h, cs)
        BY <2>1, <2>4, <2>5, <2>7 DEF CanSettle
      <3>2. toss' \in TossRecords /\ hub' \in HubRecords /\ conn' \in [Conns -> ConnRecords]
            /\ Driven(hub', conn')
        BY <1>0, <2>1, <2>5, <3>1, RefreshDrives
      <3> QED
        BY <1>0, <3>2 DEF HubInv, HubTypes, HubIsDriven, Driven
    <2> QED
      BY <2>6, <2>7
  <1> QED
    BY <1>1, <1>2

LEMMA RefreshTimerKeeps == ASSUME HubInv, RefreshTimer PROVE HubInv'
  <1> DEFINE h == [hub EXCEPT !.timer = FALSE]
  <1>0. HubTypes /\ hub.timer /\ Refresh(h, conn) /\ UNCHANGED <<content, failures, resets>>
    BY DEF HubInv, RefreshTimer
  <1>1. h \in HubRecords /\ ~h.timer /\ h.evicting = hub.evicting
    BY <1>0 DEF HubTypes, HubRecords
  <1> HIDE DEF h
  <1>2. CanSettle(h, conn)
    BY <1>1, Settleable DEF CanSettle
  <1>3. toss' \in TossRecords /\ hub' \in HubRecords /\ conn' \in [Conns -> ConnRecords]
        /\ Driven(hub', conn')
    BY <1>0, <1>1, <1>2, RefreshDrives DEF HubTypes
  <1> QED
    BY <1>0, <1>3 DEF HubInv, HubTypes, HubIsDriven, Driven

LEMMA EvictionTimerKeeps == ASSUME HubInv, EvictionTimer PROVE HubInv'
  <1>0. HubTypes /\ hub.evicting /\ Listeners(conn) = {} /\ ~hub.timer
        /\ UNCHANGED <<content, toss, conn, failures>>
    BY DEF HubInv, HubIsDriven, EvictionTimer
  <1>1. CASE ~hub.refreshing
    <2>1. resets' \in 0..MaxResets /\ hub' = FreshHub
      BY <1>0, <1>1, PortfolioHubAssumption DEF EvictionTimer, HubTypes
    <2>2. FreshHub \in HubRecords /\ ~FreshHub.timer
      BY ContentBound DEF FreshHub, HubRecords
    <2> QED
      BY <1>0, <2>1, <2>2 DEF HubInv, HubTypes, HubIsDriven
  <1>2. CASE hub.refreshing
    <2>1. hub' = [hub EXCEPT !.evicting = FALSE] /\ resets' = resets
      BY <1>0, <1>2 DEF EvictionTimer
    <2>2. hub' \in HubRecords /\ ~hub'.timer /\ hub'.refreshing
      BY <1>0, <1>2, <2>1 DEF HubTypes, HubRecords
    <2> QED
      BY <1>0, <2>1, <2>2 DEF HubInv, HubTypes, HubIsDriven
  <1> QED
    BY <1>1, <1>2

LEMMA FetchEndsKeeps ==
  ASSUME HubInv, NEW v \in 0..MaxContent, FetchEnds(v) PROVE HubInv'
  <1>0. HubTypes /\ UNCHANGED <<content, failures, resets>>
        /\ toss' = [value |-> v, fresh |-> TRUE, fetching |-> FALSE, since |-> 0]
    BY DEF HubInv, FetchEnds
  <1>1. toss' \in TossRecords /\ v \in -1..MaxContent
    BY <1>0, PortfolioHubAssumption DEF TossRecords
  <1>2. CASE hub.refreshing
    <2>1. PICK full \in [Conns -> BOOLEAN] : Refreshed(hub, conn, v, full)
      BY <1>2 DEF FetchEnds
    <2>2. hub' \in HubRecords /\ conn' \in [Conns -> ConnRecords] /\ Driven(hub', conn')
      BY <1>0, <1>1, <2>1, Settleable, RefreshedDrives DEF HubTypes
    <2> QED
      BY <1>0, <1>1, <2>2 DEF HubInv, HubTypes, HubIsDriven, Driven
  <1>3. CASE ~hub.refreshing
    <2>1. UNCHANGED <<hub, conn>>
      BY <1>3 DEF FetchEnds
    <2> QED
      BY <1>0, <1>1, <2>1, StillDriven DEF HubInv, HubTypes
  <1> QED
    BY <1>2, <1>3

LEMMA FetchFailsKeeps == ASSUME HubInv, FetchFails PROVE HubInv'
  <1>0. HubTypes /\ UNCHANGED <<content, resets>> /\ failures' \in 0..MaxFailures
    BY PortfolioHubAssumption DEF HubInv, HubTypes, FetchFails
  <1>1. toss' \in TossRecords
    <2>1. toss \in [value : Values, fresh : BOOLEAN, fetching : BOOLEAN, since : Shown] /\ 0 \in Shown
          /\ toss' = [toss EXCEPT !.fetching = FALSE, !.since = 0]
      BY <1>0, ContentBound DEF FetchFails, HubTypes, TossRecords, Values, Shown
    <2>2. toss' \in [value : Values, fresh : BOOLEAN, fetching : BOOLEAN, since : Shown]
      BY <2>1
    <2> QED
      BY <2>2 DEF Values, Shown, TossRecords
  <1>2. CASE hub.refreshing
    <2>1. RefreshFailed(hub, conn)
      BY <1>2 DEF FetchFails
    <2>2. hub' \in HubRecords /\ conn' \in [Conns -> ConnRecords] /\ Driven(hub', conn')
      BY <1>0, <2>1, Settleable, FailureDrives DEF HubTypes
    <2> QED
      BY <1>0, <1>1, <2>2 DEF HubInv, HubTypes, HubIsDriven, Driven
  <1>3. CASE ~hub.refreshing
    <2>1. UNCHANGED <<hub, conn>>
      BY <1>3 DEF FetchFails
    <2> QED
      BY <1>0, <1>1, <2>1, StillDriven DEF HubInv, HubTypes
  <1> QED
    BY <1>2, <1>3

LEMMA DrainEventKeeps ==
  ASSUME HubInv, NEW k \in Conns, DrainEvent(k) PROVE HubInv'
  <1> DEFINE c == conn[k]
  <1>0. HubTypes /\ c \in ConnRecords /\ c \in ConnFields /\ Len(c.pending) < BackpressureLimit
        /\ c.pending \in FrameSeqs /\ c.wire \in FrameSeqs
        /\ UNCHANGED <<content, toss, hub, failures, resets>>
    BY DEF HubInv, HubTypes, DrainEvent, ConnRecords, ConnFields
  <1>1. ASSUME NEW d \in ConnRecords, d.at = c.at, conn' = [conn EXCEPT ![k] = d] PROVE HubInv'
    <2>1. conn' \in [Conns -> ConnRecords] /\ Listeners(conn') = Listeners(conn)
      BY <1>0, <1>1 DEF HubTypes, Listeners
    <2> QED
      BY <1>0, <2>1, StillDriven DEF HubInv, HubTypes
  <1>2. CASE conn' = [conn EXCEPT ![k].blocked = FALSE]
    <2> DEFINE d == [c EXCEPT !.blocked = FALSE]
    <2>1. d \in ConnFields /\ d.at = c.at /\ d.pending = c.pending
      BY <1>0 DEF ConnFields
    <2>2. conn' = [conn EXCEPT ![k] = d]
      BY <1>2
    <2> HIDE DEF d, c
    <2> QED
      BY <1>0, <1>1, <2>1, <2>2 DEF ConnRecords
  <1>3. ASSUME NEW n \in 1..Len(c.pending), NEW full \in BOOLEAN,
               conn' = [conn EXCEPT
                      ![k].blocked = full,
                      ![k].sent    = c.pending[n].revision,
                      ![k].pending = SubSeq(@, n + 1, Len(@)),
                      ![k].wire    = IF c.lost THEN <<>> ELSE @ \o SubSeq(c.pending, 1, n)]
        PROVE  HubInv'
    <2> DEFINE s == c.pending[n].revision
               p == SubSeq(c.pending, n + 1, Len(c.pending))
               w == IF c.lost THEN <<>> ELSE c.wire \o SubSeq(c.pending, 1, n)
               c1 == [c EXCEPT !.blocked = full, !.sent = s]
               c2 == [c1 EXCEPT !.pending = p, !.wire = w]
    <2>1. conn' = [conn EXCEPT ![k] = c2]
      BY <1>0, <1>3 DEF HubTypes, ConnFields
    <2>2. c.pending[n] \in Frames
      BY <1>0 DEF FrameSeqs
    <2>3. s \in Nat
      BY <2>2 DEF Frames
    <2>4. p \in FrameSeqs /\ Len(p) < BackpressureLimit
      BY <1>0, PortfolioHubAssumption DEF FrameSeqs
    <2>5. SubSeq(c.pending, 1, n) \in FrameSeqs /\ <<>> \in FrameSeqs
      BY <1>0 DEF FrameSeqs
    <2>6. w \in FrameSeqs
      BY <1>0, <2>5 DEF FrameSeqs
    <2> HIDE DEF s, p, w
    <2>7. c1 \in ConnFields /\ c1.at = c.at
      BY <1>0, <2>3 DEF ConnFields
    <2> HIDE DEF c1, c
    <2>8. c2 \in ConnFields /\ c2.at = c1.at /\ c2.pending = p
      BY <2>4, <2>6, <2>7 DEF ConnFields
    <2> HIDE DEF c2
    <2>9. c2 \in ConnRecords
      BY <2>4, <2>8 DEF ConnRecords
    <2> QED
      BY <1>1, <2>1, <2>7, <2>8, <2>9
  <1> QED
    BY <1>2, <1>3 DEF DrainEvent

LEMMA HeartbeatKeeps ==
  ASSUME HubInv, NEW k \in Conns, Heartbeat(k) PROVE HubInv'
  <1> DEFINE f == [revision |-> conn[k].sent, content |-> None]
  <1>0. HubTypes /\ conn[k] \in ConnRecords /\ UNCHANGED <<content, toss, hub, failures, resets>>
    BY DEF HubInv, HubTypes, Heartbeat
  <1>1. f \in Frames
    BY <1>0, ContentBound DEF Frames, ConnRecords, ConnFields
  <1>2. PICK full \in BOOLEAN : conn' = [conn EXCEPT ![k] = Written(conn[k], f, full)]
    BY DEF Heartbeat
  <1> HIDE DEF f
  <1>3. conn' \in [Conns -> ConnRecords] /\ conn'[k].at = conn[k].at
    BY <1>0, <1>1, <1>2, WrittenIs DEF HubTypes
  <1>4. Listeners(conn') = Listeners(conn)
    BY <1>0, <1>2, <1>3 DEF Listeners, HubTypes
  <1> QED
    BY <1>0, <1>3, <1>4, StillDriven DEF HubInv, HubTypes

LEMMA CloseNoticedKeeps ==
  ASSUME HubInv, NEW k \in Conns, CloseNoticed(k) PROVE HubInv'
  <1>0. HubTypes /\ conn[k] \in ConnRecords /\ UNCHANGED <<content, toss, failures, resets>>
        /\ conn' = [conn EXCEPT ![k] = Ended(conn[k])] /\ hub' = Released(hub, conn, conn')
    BY DEF HubInv, HubTypes, CloseNoticed
  <1>1. conn' \in [Conns -> ConnRecords] /\ Listeners(conn') \subseteq Listeners(conn)
    BY <1>0, EndedIs DEF HubTypes, Listeners
  <1>2. Driven(hub, conn)
    BY DEF HubInv, HubIsDriven, Driven
  <1>3. hub' \in HubRecords /\ Driven(hub', conn')
    BY <1>0, <1>1, <1>2, ReleasedDrives DEF HubTypes
  <1> QED
    BY <1>0, <1>1, <1>3 DEF HubInv, HubTypes, HubIsDriven, Driven

LEMMA ServerRestartKeeps == ASSUME HubInv, ServerRestart PROVE HubInv'
  <1>0. HubTypes /\ UNCHANGED <<content, failures>> /\ hub' = FreshHub /\ toss' = ColdToss
        /\ conn' = [k \in Conns |-> IF conn[k].at = "none" THEN NoConn ELSE Ended(conn[k])]
    BY DEF HubInv, ServerRestart
  <1>1. resets' \in 0..MaxResets
    BY <1>0, PortfolioHubAssumption DEF ServerRestart, HubTypes
  <1>2. \A k \in Conns : conn[k] \in ConnRecords
    BY <1>0 DEF HubTypes
  <1>3. NoConn \in ConnRecords /\ NoConn.at = "none"
    BY NoConnIs
  <1>4. conn' \in [Conns -> ConnRecords] /\ Listeners(conn') = {}
    BY <1>0, <1>2, <1>3, EndedIs DEF Listeners
  <1>5. FreshHub \in HubRecords /\ ~FreshHub.timer /\ ColdToss \in TossRecords
    BY ContentBound DEF FreshHub, HubRecords, ColdToss, TossRecords
  <1> QED
    BY <1>0, <1>1, <1>4, <1>5 DEF HubInv, HubTypes, HubIsDriven

-----------------------------------------------------------------------------
(* The steps of the page *)

(* A connection changes on the browser's side, and still listens or not. *)
LEMMA ConnChanged ==
  ASSUME HubInv, NEW k \in Conns, NEW d \in ConnRecords, d.at = conn[k].at,
         conn' = [conn EXCEPT ![k] = d], UNCHANGED <<content, toss, hub, failures, resets>>
  PROVE  HubInv'
  <1>1. conn' \in [Conns -> ConnRecords] /\ Listeners(conn') = Listeners(conn)
    BY DEF HubInv, HubTypes, Listeners
  <1> QED
    BY <1>1, StillDriven DEF HubInv, HubTypes

LEMMA ClosedKeeps ==
  ASSUME HubInv, conn' = Closed(conn), UNCHANGED <<content, toss, hub, failures, resets>>
  PROVE  HubInv'
  <1>1. ASSUME NEW k \in Conns
        PROVE  Closed(conn)[k] \in ConnRecords
               /\ (Closed(conn)[k].at \in {"joining", "open"} <=> conn[k].at \in {"joining", "open"})
    <2>0. conn[k] \in ConnRecords /\ conn[k] \in ConnFields /\ Len(conn[k].pending) < BackpressureLimit
      BY DEF HubInv, HubTypes, ConnRecords
    <2>1. CASE k # browser.source
      BY <2>0, <2>1 DEF Closed
    <2>2. CASE k = browser.source /\ conn[k].at = "finished"
      BY <2>0, <2>2, NoConnIs DEF Closed
    <2>3. CASE k = browser.source /\ conn[k].at # "finished"
      <3> DEFINE d == [conn[k] EXCEPT !.lost = TRUE, !.wire = <<>>]
      <3>1. <<>> \in FrameSeqs
        BY DEF FrameSeqs
      <3>2. Closed(conn)[k] = d
        BY <2>3 DEF Closed
      <3>3. d \in ConnFields /\ d.at = conn[k].at /\ d.pending = conn[k].pending
        BY <2>0, <3>1 DEF ConnFields
      <3> HIDE DEF d
      <3> QED
        BY <2>0, <3>2, <3>3 DEF ConnRecords
    <2> QED
      BY <2>1, <2>2, <2>3
  <1>2. conn' \in [Conns -> ConnRecords] /\ Listeners(conn') = Listeners(conn)
    <2>1. DOMAIN conn = Conns /\ DOMAIN Closed(conn) = Conns
      BY DEF HubInv, HubTypes, Closed
    <2>2. Closed(conn) = [k \in Conns |-> Closed(conn)[k]]
      BY DEF Closed
    <2> QED
      BY <1>1, <2>1, <2>2 DEF Listeners
  <1> QED
    BY <1>2, StillDriven DEF HubInv, HubTypes

(* openStream: a visible page has a stream afterwards. *)
LEMMA OpenStreamKeeps ==
  ASSUME HubInv, NEW b \in BrowserRecords, OpenStream(b),
         UNCHANGED <<content, toss, hub, failures, resets>>
  PROVE  HubInv' /\ browser' \in BrowserRecords /\ (browser'.visible => browser'.source # NoSource)
  <1>1. CASE b.visible /\ b.source = NoSource
    <2>1. PICK k \in Conns :
            /\ conn[k] = NoConn
            /\ conn' = [conn EXCEPT ![k].at = "requested", ![k].cursor = b.known, ![k].sent = b.known]
            /\ browser' = [b EXCEPT !.source = k]
      BY <1>1 DEF OpenStream
    <2> DEFINE c == [conn[k] EXCEPT !.at = "requested", !.cursor = b.known]
               d == [c EXCEPT !.sent = b.known]
    <2>2. conn[k] \in ConnFields /\ Len(conn[k].pending) < BackpressureLimit /\ conn[k].at = "none"
          /\ b.known \in Nat
      BY <2>1, NoConnIs DEF ConnRecords, BrowserRecords
    <2>3. conn' = [conn EXCEPT ![k] = d]
      BY <2>1, <2>2 DEF HubInv, HubTypes, ConnFields
    <2>4. c \in ConnFields /\ c.at = "requested" /\ c.pending = conn[k].pending
      BY <2>2 DEF ConnFields
    <2> HIDE DEF c
    <2>5. d \in ConnFields /\ d.at = "requested" /\ d.pending = conn[k].pending
      BY <2>2, <2>4 DEF ConnFields
    <2> HIDE DEF d
    <2>6. d \in ConnRecords
      BY <2>2, <2>5 DEF ConnRecords
    <2>7. conn' \in [Conns -> ConnRecords] /\ Listeners(conn') = Listeners(conn)
      BY <2>2, <2>3, <2>5, <2>6 DEF HubInv, HubTypes, Listeners
    <2>8. browser' \in BrowserRecords /\ browser'.source # NoSource
      BY <2>1, PortfolioLiveAssumption DEF BrowserRecords
    <2> QED
      BY <2>7, <2>8, StillDriven DEF HubInv, HubTypes
  <1>2. CASE ~(b.visible /\ b.source = NoSource)
    <2>1. browser' = b /\ conn' = conn
      BY <1>2 DEF OpenStream
    <2> QED
      BY <1>2, <2>1, StillDriven DEF HubInv, HubTypes
  <1> QED
    BY <1>1, <1>2

LEMMA DeliverKeeps == ASSUME LiveInv, Deliver PROVE LiveInv'
  <1>0. HubInv /\ HubTypes /\ PageTypes
    BY DEF LiveInv, HubInv
  <1>1. PICK k \in Conns \cap {browser.source} :
          /\ conn[k].wire # <<>>
          /\ browser' = Receive(browser, Head(conn[k].wire))
          /\ conn' = [conn EXCEPT ![k].wire = Tail(@)]
          /\ UNCHANGED <<content, toss, hub, failures, resets, read, spent>>
    BY DEF Deliver
  <1> DEFINE w == Tail(conn[k].wire)
             d == [conn[k] EXCEPT !.wire = w]
             f == Head(conn[k].wire)
  <1>2. conn[k] \in ConnFields /\ Len(conn[k].pending) < BackpressureLimit
    BY <1>0, <1>1 DEF HubTypes, ConnRecords
  <1>3. conn[k].wire \in Seq(Frames)
    BY <1>2 DEF ConnFields, FrameSeqs
  <1>4. w \in FrameSeqs /\ f \in Frames
    BY <1>1, <1>3 DEF FrameSeqs
  <1>5. conn' = [conn EXCEPT ![k] = d] /\ browser' = Receive(browser, f)
    BY <1>1
  <1> HIDE DEF w, f
  <1>6. d \in ConnFields /\ d.at = conn[k].at /\ d.pending = conn[k].pending
    BY <1>2, <1>4 DEF ConnFields
  <1> HIDE DEF d
  <1>7. d \in ConnRecords
    BY <1>2, <1>6 DEF ConnRecords
  <1>8. HubInv'
    BY <1>0, <1>1, <1>5, <1>6, <1>7, ConnChanged
  <1>9. f.revision \in Nat /\ (f.content # None => f.content \in Shown)
    BY <1>4, ContentBound DEF Frames, None, Shown
  <1>s. browser \in BrowserRecords
    BY <1>0 DEF PageTypes
  <1>10. browser' \in BrowserRecords /\ UNCHANGED <<browser.source, browser.visible, browser.retry>>
    <2>1. CASE f.revision <= browser.known
      <3>1. browser' = browser
        BY <1>s, <1>5, <1>9, <2>1 DEF Receive, BrowserRecords
      <3> QED
        BY <1>s, <3>1
    <2>2. CASE f.revision > browser.known /\ f.content = None
      <3>1. browser' = [browser EXCEPT !.known = f.revision]
        BY <1>s, <1>5, <1>9, <2>2 DEF Receive, BrowserRecords
      <3> QED
        BY <1>s, <1>9, <3>1 DEF BrowserRecords
    <2>3. CASE f.revision > browser.known /\ f.content # None
      <3>1. browser' = [browser EXCEPT !.known = f.revision, !.shown = f.content]
        BY <1>s, <1>5, <1>9, <2>3 DEF Receive, BrowserRecords
      <3> QED
        BY <1>s, <1>9, <2>3, <3>1 DEF BrowserRecords
    <2> QED
      BY <1>s, <1>9, <2>1, <2>2, <2>3 DEF BrowserRecords
  <1>11. browser.source # NoSource
    BY <1>1, PortfolioLiveAssumption
  <1> QED
    BY <1>0, <1>1, <1>8, <1>10, <1>11 DEF LiveInv, PageTypes, PageIsSupplied

LEMMA DisconnectKeeps ==
  ASSUME LiveInv, Disconnect,
         spent' \in [hides : 0..MaxHides, losses : 0..MaxLosses, reads : 0..MaxReads]
  PROVE  LiveInv'
  <1>1. HubInv'
    BY ClosedKeeps DEF LiveInv, Disconnect
  <1>2. browser' \in BrowserRecords /\ browser'.retry /\ read' = read
    BY DEF LiveInv, PageTypes, Disconnect, BrowserRecords
  <1> QED
    BY <1>1, <1>2 DEF LiveInv, PageTypes, PageIsSupplied

LEMMA ConnectionBrokenKeeps == ASSUME LiveInv, ConnectionBroken PROVE LiveInv'
  <1>1. spent' \in [hides : 0..MaxHides, losses : 0..MaxLosses, reads : 0..MaxReads]
    BY PortfolioLiveAssumption DEF LiveInv, PageTypes, ConnectionBroken
  <1> QED
    BY <1>1, DisconnectKeeps DEF ConnectionBroken

LEMMA NewRead ==
  ASSUME NEW kind \in {"background", "manual"}
  PROVE  /\ [NoRead EXCEPT !.at = "sent", !.kind = kind] \in ReadRecords
         /\ [NoRead EXCEPT !.at = "sent"] \in ReadRecords
         /\ NoRead \in ReadRecords
         /\ [NoRead EXCEPT !.at = "sent"].at = "sent"
         /\ [NoRead EXCEPT !.at = "sent"].kind = "background"
  <1>1. None \in Values
    BY ContentBound DEF Values
  <1> QED
    BY <1>1 DEF NoRead, ReadRecords

LEMMA FallbackTimerKeeps == ASSUME LiveInv, FallbackTimer PROVE LiveInv'
  <1> DEFINE b == [browser EXCEPT !.retry = FALSE]
  <1>0. HubInv /\ PageTypes /\ UNCHANGED <<content, toss, hub, failures, resets, spent>>
    BY DEF LiveInv, FallbackTimer
  <1>1. b \in BrowserRecords
    BY <1>0 DEF PageTypes, BrowserRecords
  <1>2. CASE read.at = "none"
    <2>1. read' = [NoRead EXCEPT !.at = "sent"] /\ browser' = b /\ conn' = conn
      BY <1>2 DEF FallbackTimer
    <2>2. read' \in ReadRecords /\ read'.at # "none" /\ read'.kind = "background"
      BY <2>1, NewRead
    <2>3. HubInv'
      BY <1>0, <2>1, StillDriven DEF HubInv, HubTypes
    <2> HIDE DEF b
    <2> QED
      BY <1>0, <1>1, <2>1, <2>2, <2>3 DEF LiveInv, PageTypes, PageIsSupplied
  <1>3. CASE read.at # "none"
    <2>1. OpenStream(b) /\ read' = read
      BY <1>3 DEF FallbackTimer
    <2> HIDE DEF b
    <2> QED
      BY <1>0, <1>1, <2>1, OpenStreamKeeps DEF LiveInv, PageTypes, PageIsSupplied
  <1> QED
    BY <1>2, <1>3

LEMMA HideKeeps == ASSUME LiveInv, Hide PROVE LiveInv'
  <1>1. HubInv'
    BY ClosedKeeps DEF LiveInv, Hide
  <1>2. spent' \in [hides : 0..MaxHides, losses : 0..MaxLosses, reads : 0..MaxReads]
    BY PortfolioLiveAssumption DEF LiveInv, PageTypes, Hide
  <1> DEFINE a == [browser EXCEPT !.visible = FALSE, !.source = NoSource]
             b == [a EXCEPT !.retry = FALSE]
  <1>3. a \in BrowserRecords /\ ~a.visible /\ browser' = b /\ read' = read
    BY DEF LiveInv, PageTypes, Hide, BrowserRecords
  <1> HIDE DEF a
  <1>4. b \in BrowserRecords /\ ~b.visible
    BY <1>3 DEF BrowserRecords
  <1> HIDE DEF b
  <1> QED
    BY <1>1, <1>2, <1>3, <1>4 DEF LiveInv, PageTypes, PageIsSupplied

LEMMA ShowKeeps == ASSUME LiveInv, Show PROVE LiveInv'
  <1> DEFINE b == [browser EXCEPT !.visible = TRUE]
  <1>0. HubInv /\ PageTypes /\ OpenStream(b)
        /\ UNCHANGED <<content, toss, hub, failures, resets, read, spent>>
    BY DEF LiveInv, Show
  <1>1. b \in BrowserRecords
    BY <1>0 DEF PageTypes, BrowserRecords
  <1> HIDE DEF b
  <1> QED
    BY <1>0, <1>1, OpenStreamKeeps DEF LiveInv, PageTypes, PageIsSupplied

LEMMA ManualRefreshKeeps == ASSUME LiveInv, ManualRefresh PROVE LiveInv'
  <1>0. HubInv /\ PageTypes /\ UNCHANGED <<content, toss, hub, failures, resets>>
    BY DEF LiveInv, ManualRefresh
  <1>1. spent' \in [hides : 0..MaxHides, losses : 0..MaxLosses, reads : 0..MaxReads]
    BY <1>0, PortfolioLiveAssumption DEF PageTypes, ManualRefresh
  <1>2. read' \in ReadRecords
    BY NewRead DEF ManualRefresh
  <1>3. CASE read.at # "none" /\ read.kind = "background"
    <2>1. OpenStream(browser)
      BY <1>3 DEF ManualRefresh
    <2> QED
      BY <1>0, <1>1, <1>2, <2>1, OpenStreamKeeps DEF LiveInv, PageTypes, PageIsSupplied
  <1>4. CASE ~(read.at # "none" /\ read.kind = "background")
    <2>1. UNCHANGED <<browser, conn>>
      BY <1>4 DEF ManualRefresh
    <2>2. HubInv'
      BY <1>0, <2>1, StillDriven DEF HubInv, HubTypes
    <2> QED
      BY <1>0, <1>1, <1>2, <1>4, <2>1, <2>2 DEF LiveInv, PageTypes, PageIsSupplied
  <1> QED
    BY <1>3, <1>4

LEMMA ServeKeeps == ASSUME LiveInv, Serve PROVE LiveInv'
  <1>0. HubInv /\ HubTypes /\ PageTypes /\ read \in ReadRecords /\ read.at = "sent"
        /\ UNCHANGED <<content, hub, conn, failures, resets, browser, spent>>
    BY DEF LiveInv, HubInv, PageTypes, Serve
  <1>1. toss.value \in Values
    BY <1>0 DEF HubTypes, TossRecords, Values
  <1>2. read' \in ReadRecords /\ read'.at # "none" /\ read'.kind = read.kind
    BY <1>0, <1>1 DEF Serve, ReadRecords
  <1>3. toss' \in TossRecords
    BY <1>0 DEF Serve, Fetching, HubTypes, TossRecords
  <1>4. HubInv'
    BY <1>0, <1>3, StillDriven DEF HubInv, HubTypes
  <1> QED
    BY <1>0, <1>2, <1>4 DEF LiveInv, PageTypes, PageIsSupplied

LEMMA ReadEndsKeeps == ASSUME LiveInv, ReadEnds PROVE LiveInv'
  <1> DEFINE b == IF read.value = None THEN browser ELSE [browser EXCEPT !.shown = read.value]
  <1>0. HubInv /\ PageTypes /\ read \in ReadRecords /\ browser \in BrowserRecords /\ read' = NoRead
        /\ UNCHANGED <<content, toss, hub, failures, resets, spent>>
    BY DEF LiveInv, PageTypes, ReadEnds
  <1>1. read.value # None => read.value \in Shown
    BY <1>0, ContentBound DEF ReadRecords, Values, Shown, None
  <1>2. b \in BrowserRecords /\ b.source = browser.source /\ b.visible = browser.visible
        /\ b.retry = browser.retry
    BY <1>0, <1>1 DEF BrowserRecords
  <1>3. IF read.kind = "background" THEN OpenStream(b) ELSE browser' = b /\ conn' = conn
    BY DEF ReadEnds
  <1>4. read' \in ReadRecords
    BY <1>0, NewRead
  <1> HIDE DEF b
  <1>5. CASE read.kind = "background"
    BY <1>0, <1>2, <1>3, <1>4, <1>5, OpenStreamKeeps DEF LiveInv, PageTypes, PageIsSupplied
  <1>6. CASE read.kind # "background"
    <2>1. HubInv'
      BY <1>0, <1>3, <1>6, StillDriven DEF HubInv, HubTypes
    <2> QED
      BY <1>0, <1>2, <1>3, <1>4, <1>6, <2>1 DEF LiveInv, PageTypes, PageIsSupplied
  <1> QED
    BY <1>5, <1>6

LEMMA FetchKeeps == ASSUME LiveInv, Fetch PROVE LiveInv'
  <1>0. HubInv /\ PageTypes /\ read \in ReadRecords /\ UNCHANGED <<browser, spent>>
    BY DEF LiveInv, PageTypes, Fetch
  <1>1. ASSUME NEW v \in Values, Answered(v)
        PROVE  read' \in ReadRecords /\ (read.at # "none" => read'.at # "none") /\ read'.kind = read.kind
    BY <1>0, <1>1 DEF Answered, ReadRecords
  <1>2. HubInv' /\ \E v \in Values : Answered(v)
    BY <1>0, ContentBound, FetchEndsKeeps, FetchFailsKeeps DEF Fetch, Values
  <1> QED
    BY <1>0, <1>1, <1>2 DEF LiveInv, PageTypes, PageIsSupplied

LEMMA CrashKeeps == ASSUME LiveInv, Crash PROVE LiveInv'
  <1>0. HubInv /\ PageTypes /\ read \in ReadRecords /\ UNCHANGED <<browser, spent>>
    BY DEF LiveInv, PageTypes, Crash
  <1>1. read' \in ReadRecords /\ (read.at # "none" => read'.at # "none") /\ read'.kind = read.kind
    BY <1>0 DEF Crash, ReadRecords
  <1>2. HubInv'
    BY <1>0, ServerRestartKeeps DEF Crash
  <1> QED
    BY <1>0, <1>1, <1>2 DEF LiveInv, PageTypes, PageIsSupplied

LEMMA RouteKeeps == ASSUME LiveInv, Route PROVE LiveInv'
  <1>0. HubInv /\ HubTypes /\ PageTypes /\ UNCHANGED <<browser, read, spent>>
    BY DEF LiveInv, HubInv, Route
  <1>1. CASE ContentChanges
    <2>1. content' \in 0..MaxContent
      BY <1>0, <1>1, ContentBound DEF ContentChanges, HubTypes
    <2> QED
      BY <1>0, <1>1, <2>1, StillDriven DEF ContentChanges, LiveInv, HubInv, HubTypes, PageTypes,
         PageIsSupplied
  <1>2. CASE CacheExpires
    <2>1. toss' \in TossRecords
      BY <1>0, <1>2 DEF CacheExpires, HubTypes, TossRecords
    <2> QED
      BY <1>0, <1>2, <2>1, StillDriven DEF CacheExpires, LiveInv, HubInv, HubTypes, PageTypes,
         PageIsSupplied
  <1>3. HubInv' => LiveInv'
    BY <1>0 DEF LiveInv, PageTypes, PageIsSupplied
  <1> QED
    BY <1>0, <1>1, <1>2, <1>3, RefreshTimerKeeps, EvictionTimerKeeps, SubscribeKeeps,
       DrainEventKeeps, HeartbeatKeeps, CloseNoticedKeeps DEF Route

-----------------------------------------------------------------------------
LEMMA InitLive == ASSUME Init PROVE LiveInv
  <1>1. failures \in 0..MaxFailures /\ resets \in 0..MaxResets /\ content \in 0..MaxContent
    BY PortfolioHubAssumption DEF Init, HubInit
  <1>2. FreshHub \in HubRecords /\ ~FreshHub.timer /\ ColdToss \in TossRecords
    BY ContentBound DEF FreshHub, HubRecords, ColdToss, TossRecords
  <1>3. PICK k \in Conns :
          /\ conn = [[c \in Conns |-> NoConn] EXCEPT ![k].at = "requested"]
          /\ browser = [visible |-> TRUE, known |-> 0, shown |-> 0, source |-> k, retry |-> FALSE]
    BY DEF Init
  <1> DEFINE d == [NoConn EXCEPT !.at = "requested"]
  <1>4. conn = [c \in Conns |-> IF c = k THEN d ELSE NoConn]
    BY <1>3
  <1>5. NoConn \in ConnFields /\ Len(NoConn.pending) < BackpressureLimit
    BY NoConnIs DEF ConnRecords
  <1>6. d \in ConnFields /\ d.at = "requested" /\ d.pending = NoConn.pending
    BY <1>5 DEF ConnFields
  <1> HIDE DEF d
  <1>7. d \in ConnRecords
    BY <1>5, <1>6 DEF ConnRecords
  <1>8. conn \in [Conns -> ConnRecords] /\ Listeners(conn) = {}
    BY <1>4, <1>6, <1>7, NoConnIs DEF Listeners
  <1>9. HubInv
    BY <1>1, <1>2, <1>8 DEF Init, HubInit, HubInv, HubTypes, HubIsDriven
  <1>10. browser \in BrowserRecords /\ browser.source # NoSource
    BY <1>3, ContentBound, PortfolioLiveAssumption DEF BrowserRecords, Shown
  <1>11. read \in ReadRecords
    BY NewRead DEF Init
  <1>12. spent \in [hides : 0..MaxHides, losses : 0..MaxLosses, reads : 0..MaxReads]
    BY PortfolioLiveAssumption DEF Init
  <1> QED
    BY <1>9, <1>10, <1>11, <1>12 DEF LiveInv, PageTypes, PageIsSupplied

LEMMA LiveNext == ASSUME LiveInv, [Next]_vars PROVE LiveInv'
  <1>1. CASE UNCHANGED vars
    <2>1. HubInv'
      BY <1>1, StillDriven DEF vars, hubVars, LiveInv, HubInv, HubTypes
    <2> QED
      BY <1>1, <2>1 DEF vars, LiveInv, PageTypes, PageIsSupplied
  <1>2. CASE ResponseEnded
    BY <1>2, DisconnectKeeps DEF ResponseEnded, LiveInv, PageTypes
  <1> QED
    BY <1>1, <1>2, RouteKeeps, FetchKeeps, CrashKeeps, DeliverKeeps, ConnectionBrokenKeeps,
       FallbackTimerKeeps, HideKeeps, ShowKeeps, ManualRefreshKeeps, ServeKeeps, ReadEndsKeeps
       DEF Next

LEMMA LiveInvHolds == Spec => []LiveInv
  BY InitLive, LiveNext, PTL DEF Spec

(* The frames under way, the reads and the page keep their types; no queue  *)
(* of a connection reaches the limit, and what the page shows is a          *)
(* portfolio the broker has had (send of portfolio-routes.ts).              *)
THEOREM TypesHold == Spec => []TypeOK
  <1>1. Frames \subseteq Frame
    BY ContentBound DEF Frames, Frame, None
  <1>2. FrameSeqs \subseteq Seq(Frame)
    BY <1>1 DEF FrameSeqs
  <1>3. LiveInv => TypeOK
    <2> SUFFICES ASSUME LiveInv PROVE TypeOK
      OBVIOUS
    <2>1. \A k \in Conns : conn[k] \in ConnState /\ Len(conn[k].pending) < BackpressureLimit
      BY <1>2 DEF LiveInv, HubInv, HubTypes, ConnRecords, ConnFields, ConnState
    <2>2. conn \in [Conns -> ConnState]
      BY <2>1 DEF LiveInv, HubInv, HubTypes
    <2>3. HubTypeOK
      BY <2>1, <2>2 DEF LiveInv, HubInv, HubTypes, TossRecords, HubRecords, HubTypeOK
    <2> QED
      BY <2>3 DEF LiveInv, PageTypes, BrowserRecords, ReadRecords, Shown, Values, TypeOK
  <1> QED
    BY <1>3, LiveInvHolds, PTL

(* However connections come, fail to keep up, end and are noticed late, in  *)
(* the middle of a refresh or not: while somebody listens the stream has    *)
(* its timer or its refresh and no eviction, and when nobody does it is     *)
(* evicted (subscribe, runRefresh and deactivate of portfolio-live-hub.ts). *)
THEOREM HubDriven == Spec => []HubIsDriven
  <1>1. LiveInv => HubIsDriven
    BY DEF LiveInv, HubInv
  <1> QED
    BY <1>1, LiveInvHolds, PTL

(* Whatever ends the stream, hides the page or overtakes the fallback's     *)
(* request: a visible page has something that brings the next change        *)
(* (usePortfolioQuery).                                                     *)
THEOREM PageSupplied == Spec => []PageIsSupplied
  <1>1. LiveInv => PageIsSupplied
    BY DEF LiveInv
  <1> QED
    BY <1>1, LiveInvHolds, PTL
=============================================================================
