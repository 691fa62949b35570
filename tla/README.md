# Toss Portfolio Lens in TLA+

Toss Portfolio Lens is a self-hosted portfolio service: a TypeScript web server (REST, SSE and
MCP), a React page, PostgreSQL, and Rust and Python workers. Most of its lines are arithmetic
(back-tests, indicators, Monte Carlo, model inference) or rendering. What can go wrong in ways a
unit test hardly reaches is the coordination around them: runs that several processes move
forward, streams that must not stop, computations that are shared, sessions and feeds whose end
overtakes their start, and limits that must hold while callers come and go. That is what this
project models, checks with TLC and proves with TLAPS.

Paths below are relative to `src/`. `PROJECT.json` maps every definition to the lines it stands
for, and lists the hazards and the components with what is left out of each.

## 1. The system

### 1.1 Components, their state and how they interact

| Component | Source | State | Operations | Modules |
|---|---|---|---|---|
| Durable queue and run rows | `server/repositories/run-repository.ts`, `run-job-repository.ts`, `worker/rust/src/repository.rs` | tables `portfolio_backtest_runs` and `portfolio_run_jobs`: status, owner, lease, attempts, deadline; artifacts | create, markRunning, enqueue, claim, heartbeat, complete, fail, cancel, retry, recover | RunStore, RunLifecycle |
| Durable worker | `worker/rust/src/main.rs` | claim, flags shared with the heartbeat thread | process_one, heartbeat, finalization, recovery loop | DurableQueue |
| RunService, in process | `server/services/run-service.ts` | FIFO of tasks, slots, AbortController per run, close state | enqueue, execute, cancel, deadline, close, restart | RunService |
| RunService, external | same | none between awaits | enqueueExternal, cancel, restart | ExternalDispatch |
| Shared computations | `server/concurrency/shared-computation-registry.ts` | entry per key: subscribers, controller | run, leave, settle | SharedComputation |
| Compute scheduler | `server/worker/rust-compute-scheduler.ts` | linked list, counters, closed | schedule, start, drain, timeout, abort, close | ComputeScheduler, ComputeQueue |
| Compute client and socket server | `server/worker/rust-client.ts`, `worker/rust/src/main.rs` | channels, sockets, request in flight; connection and computation counters | request, timeout, abort, onData, close; accept, acquire, compute, reply | ComputePool |
| Portfolio hub and route | `server/portfolio/live-hub.ts`, `server/routes/portfolio.ts`, `server/toss.ts` | stream per account, response buffers, cache of the broker's answer | subscribe, refresh, evict, send, drain, heartbeat | PortfolioHub |
| Portfolio page | `src/hooks/use-portfolio-query.ts`, `src/lib/portfolio-query-controller.ts` | EventSource, fallback timer, visibility, shown data, revision | open, error, fallback, hide, show, refresh | PortfolioLive |
| Simulation sessions | `server/simulation/simulation-service.ts`, `session-runtime.ts`, `session-state.ts` | `active`, phase, timers, subscriptions, finalizationTask | start, initialize, progress, cancel, finalize, close | SimulationSessions |
| Run events | `server/simulation/run-event-stream.ts`, `router.ts`, `src/components/ai-simulation.tsx` | ring and revision per run; the response; what the page has accepted | publish, evict, subscribe, replay, resume, poll | RunEvents |
| Live feed | `server/scalping/live-runtime.ts`, `kis-websocket-client.ts` | generation, socket, timers, control queue, references per symbol | retain, release, connect, reconnect, disconnect, reject, close | LiveFeed |
| Bar writes | `server/scalping/bar-write-buffer.ts`, `server/repositories/scalping-repository.ts` | queued bars, batch being written | enqueue, displace, drain, waitForIdle | BarWrites |
| Market event queue | `server/crypto/market-event-queue.ts` | tokens, coalesced quotes, waiter, segment | push, next, fail | MarketEvents |
| Shutdown | `server/lifecycle.ts`, `server/application-runtime.ts` | gate, requests, streams, deadline | track, drain, force, finalize | Shutdown |
| Refresh tokens | `server/repositories/oauth-repository.ts` | tokens and revocations of a family | rotate, revoke | RefreshTokens |
| Presets | `server/repositories/preset-repository.ts` | row with a revision, its versions | get, update, softDelete | Presets |
| Market data, analysis, reports, MCP tools, AI and Rust kernels, React views, scripts | see `PROJECT.json` | none, or pure data | - | not modelled |

The interactions that matter:

* **Two tables, three writers.** A run in external mode has a run row and a job row. The web
  server, every Rust worker and a recovery sweep of either update them, each in transactions of
  its own; some methods touch one table only. README l. 186 and l. 434 describe the lease, the
  heartbeat and the recovery.
* **One event loop, many awaits.** RunService and the simulation service interleave admissions,
  initialization, cancels and close at every `await`; everything between two awaits is atomic.
* **One web replica** (README l. 368-376): the in-memory queue, hubs and scheduler are not shared,
  and a restart loses them. `initialize` then repairs the rows.
* **A chain of limits.** A request goes through the registry, the scheduler, a channel, the
  connection limit and the computation limit of the worker. Each of them can give up alone, and
  the ones behind it do not learn of it at once.
* **Callbacks and timers.** Streams to the page and from the provider are kept moving by chains of
  `finally` blocks, timers and event handlers, with a generation or a revision to tell late ones.

### 1.2 What is hard, and what makes each part correct

* Durable queue: a worker crashes, or is so slow that its lease passes to another; a heartbeat
  meets a recovery; a cancel meets a completion. Correct if the two rows agree, late results are
  fenced, attempts are bounded, cancellation wins and every run ends.
* RunService: cancel, deadline and close race with admission and execution. Correct if slots are
  never lost, close leaves nothing behind and does not deadlock, and aborts reach the task.
* External dispatch: create, look up, count and insert are separate calls. Correct if no open run
  is left without a job and the limits hold as far as they can.
* Shared computations: a caller leaves (and, if it is the last, aborts) while another joins; a call
  times out while its thread still computes. Correct if nobody is cancelled for another, nobody
  reads another's answer, no wake-up is lost and the limits count what is really there.
* Sessions: the end of a session overtakes any await of its initialization, and cancel, completion
  and failure compete for the end. Correct if the feed is released, somebody is left to end the
  run, the stored end and the announced one agree, and close leaves nothing.
* Streams (portfolio, run events, provider feed): refused, broken, ended by backpressure, evicted
  or reopened under a late answer. Correct if there is always something that will go on, nothing
  is missing from an open stream, and the page comes to show what is.
* Buffers (bars, market events): coalescing and displacement under a limit. Correct if what the
  buffer prefers of a bar survives as far as the database takes it, and nothing crosses a barrier.
* Tokens and presets: two transactions from one state. Correct if one wins and the other knows.

## 2. The modules

    RunLifecycle            what a caller of a run may see            (abstract)
      ^ implemented by DurableQueue and by RunService
    RunStore                the two tables and every statement on them
      extended by DurableQueue     workers, heartbeats, clock, crashes, web server
      extended by ExternalDispatch racing enqueueExternal calls
    RunService              in-process executor of the web server
    ComputeBounds           the settings of the scheduler
    ComputeQueue            bounded FIFO that keeps its capacity busy  (abstract)
      ^ implemented by ComputeScheduler (linked list)
    ComputeScheduler
      extended by ComputePool        channels, sockets, threads of the worker
      extended by SharedComputation  the registry in front of them
    PortfolioHub            broker cache, hub stream, SSE connections
      extended by PortfolioLive      the page, its timers and its requests
    RunSource               what a follower of a run's events relies on (abstract)
      ^ implemented by SimulationSessions
      extended by RunEvents          hub, SSE route and page
    RefreshTokens, Presets, BarWrites, MarketEvents, Shutdown, LiveFeed   one part each
    Selections              the filter of an array, for RunEvents, BarWrites and MarketEvents
    RunStoreProofs, DurableQueueProofs, ExternalDispatchProofs, RunServiceProofs, SharedComputationProofs,
    PortfolioLiveProofs, BufferProofs                                     theorems on one part each
      ^ BufferProofs: RunEvents, LiveFeed, BarWrites, MarketEvents, ComputeQueue
    ServerPartsProofs       theorems on the other parts, and on the composition of the nine
    MC*                     instances for TLC

Definitions with a word after an underscore (`MayRetry_Unlimited`) are deliberate mistakes: each
stands for a plausible bug, and the property it is paired with in `PROJECT.json` must fail when it
replaces the real definition.

**RunStore.** `run[r]` is the status of the run row ("none" when there is no row), `job[r]` the
job row. `owner` is the number of the claim that set it, standing for the fresh `lease_owner`
string of each claim, and `output[r]` is the owner whose artifact is stored. `claims` counts the
claims ever granted and is history. Times are natural numbers and are passed in as `t`, since the
code reads its clock before it waits for the row lock. Each operator is one transaction: `SELECT ...
FOR UPDATE` and the guarded `UPDATE`s. `SKIP LOCKED` and `LIMIT` of the recovery are the free choice
of the set of rows it handles.

**DurableQueue.** `pc` follows `process_one`: claim, compute, `complete`/`retry`/`fail`, join.
`flags` are the atomic booleans through which the heartbeat thread speaks to it; the thread is
`beating`. The server's `enqueueExternal` takes two steps (`Submit`, then `Enqueue` or `Reject`), and
so does a cancel that finds no job yet (`CancelLookup`, `CancelRun`); `Read` is the deadline check
that a read performs, `ServerRestart` is `initialize`. A clock reading may be up to `Lag` old.

**ExternalDispatch.** The same tables without time; each `enqueueExternal` is a sequence of calls
(`lookup`, `countJob`, `retryJob`, `retryRun`, `count`, `reject`, `register`) and any other request,
cancel or worker may go between two of them. Any of these calls may throw (`Throws`): outside the `try` around the
insert nobody catches that, so an open run may be left without a job. `stranded` is history and holds those runs, until a
request for them is under way again; `overlapped` remembers that two requests for one run were under way together.
`executeExternal` is `enqueueExternal`, then reads until the run is over, and at its deadline a call of the repository's
`cancel` (l. 627), which is the action `Cancel`.

**RunService.** A step is the code between two awaits together with the statement it awaits. `call` is
where each enqueue or execute stands, its abort signal and the error it caught; `queue` is the FIFO;
`active` is `activeExecutions`, one controller per run id as in the code; `phase` is the progress of
close. `Restart` is a crash or the start after close, with `recoverStaleRuns`.

**ComputeScheduler, ComputeQueue.** The list node by node, refined to a sequence of waiting operations
and a set of running ones. `Place` walks the list and is the refinement mapping.

**ComputePool.** `stage` is where `RustSocketChannel.request` stands for a call, `channel` the channel
it uses (shared ones wait in `available`; a call with a signal makes its own), `socket` the connection
of a channel. `peer` and `thread` are the two ends of a connection, `frames` the requests on it
whose answer has not been read. The worker's `thread` goes backlog, reading, acquiring, waiting (on the
condition variable), computing, replied; it notices that its client has gone at a checkpoint or when it
reads or writes only. Bytes are abstracted to frames in order.

**SharedComputation.** `entry` is the map of keys, `subscribers` and `aborted` belong to a computation,
which is one call with a signal; `phase` tells whether its factory still prepares, or has scheduled it.
`Next` and `Spec` are those of registry, client and server together, so a call that times out in the
registry really occupies the scheduler and the worker until they let it go.

**PortfolioHub, PortfolioLive.** A portfolio is the number of changes made to it, so that "newer" can be
told. `hub` is the stream of the account, `toss` the cache and the read in flight, `conn` the
connections with the route's locals (`sent`, `blocked`, `pending`) and the bytes on their way. Whether
`write` reports a full buffer is a free choice. In the page, `browser` holds the event source, the
fallback timer, visibility, the portfolio shown and the revision remembered; `read` is the GET in flight.

**SimulationSessions.** One step from await to await. `start` is where `startReserved` stands (create,
markRunning, addEvent, the catch); `active`, `phase`, `timers` are the fields of the session; `init` is the
await at which `initialize` stands. `feed` holds the subscriptions that were retained and not
released, `release` those the session's `release` would let go: they differ while `initialize` has retained
something the session does not know yet. `final` follows `finalize` through its re-check and its catch,
`intent` is the end it is to store. `cancel` is a call of `cancel` with the status it read; `closing` is the
progress of `close`. Any statement may fail; `unwritten` remembers an end that could not be stored. The
runs are those of one owner, who has one start or session at a time.

**RunSource, RunEvents.** RunSource has the status column and the first terminal event. RunEvents
follows one run: `hub` is its `RunState` (revision, ring), `conn` the connection with the route's locals
(the row it read, `requested` revision, `lastSent`, `blocked`, `pending`), `wire` the frames on their way,
`page` the effect of the page (stream, poll, hidden, done) with the revision it accepted. The hub drops the
state of an idle run at any time, since other runs push it out. An event is a snapshot, a patch or the end; a snapshot and
an end say what the status is, a patch does not, and the page keeps the status it has. `session` tells whether a session of this
process publishes: its snapshot says `running` whatever has become of the row, and its patches come until the process
stops, also after the row was cancelled. `joined` is history: the page has accepted a state of the hub that is there now
and not only of one that was evicted or lost since, whose revisions mean nothing to it.

**LiveFeed.** `client` holds the fields of the web socket client; sockets, timers and attempts are named by the
generation that made them, so that a callback of an old one can be told. `openings` are the calls of
`openConnection` that wait for the approval key. `holder` and `references` are the runtime's side: a
symbol is in the Map `references` when it is in its domain, whatever its count, which a release after a
rejection can take below one. `provided` is what the provider sends. A control message that `sendControl` drops (the
socket is closing, or `send` throws) leaves the queue like one that was sent; `muted` is history and holds its symbols
until the next connection, when everything desired is asked for anew.

**BarWrites, MarketEvents.** A bar record is what the buffer and the upsert look at: whether it is final, its quality, its
source and when it was updated. The buffer goes by final and time (`Preferred`), the upsert by final, quality, source and time
(`Outranks`), so the two do not prefer the same record: a forming minute that was complete and becomes partial
after a gap of the feed replaces the complete one in the buffer and is refused by the database. The recovery stores
rows of its own over REST (`RecoveryStores`). `queued` is the Map in insertion order and `writing` the batch being stored. In MarketEvents an event is its place in
`pushed`; a token is direct, a trade, or the key of a coalesced quote. `best`, `displaced`, `lost`, `pushed`,
`delivered` and `lastFail` are history.

**Selections.** `EntriesAt(s, P)` is what `filter` keeps of an array, the entries at the places `P` in their order. It
says place by place what `SelectSeq` computes by a recursion, so that it can be reasoned about.

**RefreshTokens, Presets.** A step is a statement with what the server decides from it. In RefreshTokens an
UPDATE waits for the rows other transactions have claimed and looks at them again, as READ COMMITTED
does, and what was written is seen at the commit. A preset's content is the set of changes it has, so that a
lost update is a version that lacks a change of the one before it.

**Shutdown.** `stage` is where `performShutdown` stands; each request is handled, a stream, cut or done;
each service closes or hangs; `forced` is the drain budget running out. A request is cut when its connection is gone and its
handler is not: its client left, or the deadline destroyed the connection. `server.close` waits for connections and so not
for these.

## 3. What is checked

Sizes are distinct states; each run ends in less than three minutes with two workers.

| Run | Instance | What it shows | States |
|---|---|---|---|
| `durable_queue` | 1 run, 2 workers, 1 crash, 1 user retry, 2 attempts, lease 2, deadline 3, lag 1, clock to 4 | rows agree, queued jobs are claimable, fencing, attempt budget, leases, cancellation, implements RunLifecycle | 1.1 M |
| `durable_queue_ends` | 1 run, 1 worker, 2 crashes, clock to 6 | every open run ends | 300 k |
| `run_service` | 2 runs (one executed), 3 calls, 1 slot, a request is repeated only when the earlier one is over | no idle slot, aborts are delivered, implements RunLifecycle | 120 k |
| `run_service_ends` | 2 runs, 2 calls, repeated at will | close completes and leaves nothing behind, no open run is forgotten | 350 k |
| `dispatch` | 3 runs, 2 requests, limit 1, 1 cancel, 1 call that throws over an open run | no run without a job and a request, but the stranded one; the limit is exceeded at most by the overlap | 2.2 M |
| `portfolio` | 2 connections, 1 listener, 2 changes, and one each of failure, restart or eviction, loss, hide, manual refresh | the hub has its timer, the page has its source | 2.1 M |
| `shared_computation` | 4 calls (3 with a signal), 1 slot, 2 places in the queue, 3 sockets, 1 computation and 2 connections at the worker, 2 callers, 1 key, 2 entries | answers and cancellation are private, no lost wake-up, no connection left, limits, the list implements ComputeQueue | 675 k |
| `server_parts` | nine parts, see below | sixteen properties of them | 454 k |

Four more runs show that the code departs from what its documents, comments or tests say (section 6).

**Nine parts in one run.** `MCServerParts` puts parts that share no state side by side: a behaviour is that
of one part, chosen at the start, and the others stay as they are. Its parts and their states:

| Part | Instance | Properties | States |
|---|---|---|---|
| SimulationSessions | 1 run | SessionsDriveRuns, FeedIsOwned, ClosedLeavesNothing, CloseCompletes, ImplementsSource | 5 k |
| RunEvents | ring 2, pending 3, high water 1, 2 data events, 1 hide | OpenStreamIsCurrent, PageStopsOnlyAtEnd | 60 k |
| RefreshTokens | 2 requests, 3 tokens, time to live 2, clock to 2 | TokensFormAChain | 27 k |
| Presets | 3 editors, 3 saves | NoSaveIsLost | 1 k |
| BarWrites | 3 bars, room for 2, batches of 1, 2 updates of one or two bars or rows of the recovery | BarsReachTheStore | 109 k |
| MarketEvents | depth 3, 1 kind of quote, 2 levels, 2 fill keys, 4 pushes | NothingCrossesABarrier | 60 k |
| Shutdown | 3 requests, 2 streams, 3 services | StopsInOrder | 2 k |
| LiveFeed | 3 holders, 2 symbols, 6 generations, 3 control messages | LiveFeedIsDriven, ControlConverges | 165 k |
| PortfolioLive | 1 loss, 1 failed read, 1 heartbeat, no hide, eviction or manual refresh | PageCatchesUp | 23 k |

**Why the bounds are enough.** A run never looks at another run except through the limits, so one run
shows everything about the two rows, and `dispatch` adds the limit with two runs more than fit.
Two workers give an owner and a late or recovering worker; a third is only another
recovering one. One crash, one retry and two attempts give every way back to the queue twice. The clock
goes past one lease and one deadline, and a lag of 1 lets two parties disagree about
both. Three calls on one slot give one running, one waiting and one being admitted or cancelled. In
the portfolio two connections are the old and the new one of a page, a listener limit of 1 makes the new
one be refused while the old one lingers, a backpressure limit of 2 fills `pending`
at once, and two changes give an event that is overtaken.

In `shared_computation` two callers on one key are the one that leaves and the one that joins; three calls
with a signal are the aborted one, its successor and a third beyond the limit of two; the fourth, without
one, borrows the shared channel. The sockets are one more than the worker admits, and one
computation slot makes a second thread wait. Names of calls and sockets are used again when both ends are done.

A second owner's session has nothing in common with the first one's but `close`, and the proofs of
section 5 cover any number of runs. A ring of 2 loses an event with three publications (two data events and the end),
and one hide gives a return with a revision the ring has forgotten or, after an eviction, of a hub that is gone. Two refreshes with one token, and a
chain of three, give reuse of a token that has a successor of its own. Buffers overflow with one entry
more than they hold; two updates of two bars each fill a buffer of two behind a batch of one, displace a forming
bar, and meet a row of the recovery or their own older record in the store. Six generations give two reconnections after a disconnect; three holders let one retain a
symbol between a rejection and the late release of the one that was rejected. The proofs lift the bounds
where section 5 says so.

Symmetry is used on workers, calls, dispatchers, runs, callers and sockets in safety runs only. Deadlock is
checked except where the system really stops: in the portfolio runs when the content stops changing and
the bounds are spent, in `shared_computation` when the pool is closed, in `server_parts` when the part has
spent its bounds.

## 4. Fairness

* `DurableQueue!Fairness`: time passes; a dead worker is restarted (`restart: unless-stopped` in
  `compose.yaml`); a compute returns, because it has checkpoints; finalization and join are straight-line
  code; an idle worker runs `recover_expired` every `recovery_ms` on all rows within the limit, and is
  fair even if nothing is ever claimed; `enqueueExternal` runs to its end. Claiming is not assumed fair:
  a run nobody claims ends by its deadline.
* `RunService!Fairness`: the event loop runs every continuation, and a task answers, throws or obeys the
  signal that its deadline timer raises.
* `SimulationFairness`: the database and the market data answer or fail, timers fire, and the event loop runs
  what follows. Nobody has to start, cancel or close anything, and the process need not restart.
* `PortfolioLive!Fairness` (`PageFairness` where the part is composed): timers fire, handlers and promises go
  on, the network delivers what it does not break, the broker answers. Nothing makes the user act, the
  portfolio change, a connection break or a heartbeat be sent.
* `EventsFairness`: the route goes on after each await, frames arrive, a response that is full drains, the page
  polls when it has no stream, and an end that was stored is published. It does not make a run end, a stream
  break or the user hide or show the page.

No strong fairness is assumed anywhere.

## 5. What is proved

All proofs are checked by tlapm to the last leaf, in eight modules:

| Module | Obligations | Theorems (and the property of a run each states, where it is another name) |
|---|---|---|
| RunStoreProofs | 338 | lemmas on every statement |
| DurableQueueProofs | 686 | TypeCorrect, Invariance, Agreement (RunJobAgreement), AttemptLeft (QueuedJobHasAttempt), FencedOutput (OutputOfLastClaim), BoundedAttempts (AttemptBudget), Cancellation (CancellationHonoured), LeaseFencing (LeaseRespected), Implements (ImplementsLifecycle) |
| ExternalDispatchProofs | 1368 | DispatchTypeCorrect, NoRunAbandoned (OpenRunHasOwner), NearTheLimit (LimitWithinOverlap) |
| RunServiceProofs | 2563 | SlotsAreUsed (NoIdleSlot), ClosedIsSettled (SettledWhenClosed), ExecutorImplements (ImplementsLifecycle), AbortReaches (AbortDelivered) |
| SharedComputationProofs | 2185 | ListIsQueue and ClientKeepsQueue (ImplementsQueue), BoundedComputations (ComputationsBounded), PrivateCancellation (CancellationIsPrivate), WakeupsArrive (NoLostWakeup), AnswersMatch (AnswersItsRequest), NoConnectionLeaks (ConnectionsOwned) |
| PortfolioLiveProofs | 937 | TypesHold, HubDriven (HubIsDriven), PageSupplied (PageIsSupplied) |
| BufferProofs | 8193 | CapacityUsed, StartedOnce, FeedIsDriven (LiveFeedIsDriven), ProviderConverges (ControlConverges), StreamsAreCurrent (OpenStreamIsCurrent), PageFollowsToTheEnd (PageStopsOnlyAtEnd), BestBarsAreKept (BarsReachTheStore), MarketKeepsOrder (NothingCrossesABarrier) |
| ServerPartsProofs | 2225 | FeedOwned (FeedIsOwned), NothingLeft (ClosedLeavesNothing), ServiceIsASource (ImplementsSource), OneSuccessor (TokensFormAChain), SavesAreKept (NoSaveIsLost), ServerStopsInOrder (StopsInOrder); of the composition PartsAreTyped (PartsTypeOK), PartsAreSafe (its invariants together), PartsKeepTheSource (ImplementsSource), RunsAreDriven (SessionsDriveRuns) |

They hold for any sets of runs, workers, calls, callers, channels, connections, symbols, bars and editors, any sizes
of rings, batches and buffers, and any lease, deadline, attempt limit, retry delay, lag, horizon, capacity, queue length and time to live. The
assumptions are the named `ASSUME`s of the modules (for example `MaxAttempts \in Nat \ {0}`), which TLC evaluates,
and one more that two theorems state themselves, `Duplicates = FALSE` (below).

**The durable queue.** The properties are not inductive: that late results are fenced depends on owners
being distinct from every earlier claim, and that depends on what each statement leaves in the row. The
argument has three layers:

1. `RunStoreProofs` states a row invariant (`RowInv`, the heart of `StoreInv`): the state of the job and of
   the run, an owner exactly when running and equal to `claims`, an attempt left when queued, an output
   exactly when completed. Each statement is shown to preserve it and to be a `QueueStep`: for each run the
   row stays, or moves along one of the permitted lines. Those lines are what the action properties need.
2. `DurableQueueProofs` adds what the processes know: `WorkerInv` (a worker past its claim has one),
   `DispatchInv` (a run under dispatch has no job and is open), `BudgetInv` (claims beyond the current
   attempts are paid for by user retries). `IInv == TypeOK /\ StoreInv /\ WorkerInv /\ DispatchInv /\
   BudgetInv` is inductive, with one lemma for the worker's, one for the server's steps, one for restart.
3. The theorems follow, among them the action properties `Cancellation` and `LeaseFencing` and the
   refinement `Implements`. `LeaseFencing` needs no assumption on the lag, because an owner's
   transaction compares the owner under the row lock.

**External dispatch.** `NoRunAbandoned` proves `OpenRunHasOwner` for any number of requests. That somebody
is about a run is not enough for induction: a request that found the run ended may still give up. So
`OwnerInv` asks for a request that is *committed*, having found the run open or reopened it, and
`JobSeenInv` says that a request that gives up for the limit has seen a job. No statement removes a job
(`JoblessStay`), and a restart, which forgets the requests, fails exactly the runs without one. One lemma
(`RequestStepInv`) covers every step of a request, and each action is an instance of it.

`NearTheLimit` bounds the overshoot of the limit. The number of open jobs alone says too little, since a request
that has counted will add one later. `CountInvariant` therefore counts open jobs and the requests that are past
their count together; a request comes to be past it only when it has seen room. The rest of `LimitInv` is what
makes the two counts disjoint: while no two requests for one run have been under way together, each run has one
request, a run that is to be registered has no job yet, and an open job belongs to an open run. Workers, cancels and
deadlines open nothing (`Quiet`).

**RunService.** `FullInv` joins four parts. `SlotsInv`: never more tasks than slots, and none free while one waits;
an end of a task hands on what it frees, `drain` stops only at the limit or at an empty queue, and `DrainFits` does
its cardinalities. `QueueInv`: the FIFO holds exactly the calls that wait, each once, so taking one out leaves the
others in place. `CareInv`: a queued or running row has a call, or a cancel, that will not leave before the row has another
status. `ClosingInv`: what each stage of close leaves; what is pushed while it waits for admissions is terminalized too.
A cancel that meets a call anywhere between its awaits is the hard case, and `AdmissionTurns` and
`ExecutionTurns` list the ways a call may go on.

`ExecutorImplements` and `AbortReaches` are stated for `Duplicates = FALSE`: a run is not requested again before the
earlier request has written its end. Without that they are false: `run_service_lost_abort` shows it (section 6).
`SlotsAreUsed` and `ClosedIsSettled` need no such assumption. `SingleInv` says what it buys: one call per run
that has not written its end, and its controller is the registered one.

**The compute queue and its list.** `QueueInv` joins type, `WorkConserving` and `WaitsOnce`: handing a slot on keeps the
number of running operations only because the waiting operation was not running. `CapacityUsed` and `StartedOnce` follow
for the abstract queue. `ListIsQueue` shows that the scheduler's doubly linked list implements it. `IsList` relates a
sequence to the links: neighbours, both ends, and no entry marked as queued that is not on the list. An insertion
at the end (`Enqueued`) and a removal from anywhere (`Removed`: a timeout or an abort) keep it. `Place`, the refinement
mapping, walks the list recursively; that it finds the sequence (`LinksFollowed`, `LinksSolved`) is an induction, which is
carried out on the set of the places where it would fail, with a least element (`Least`, `SetInduction`).

**The registry, the client and the worker.** `ClientKeepsQueue` says the same of the scheduler at work, since every step of
the composition is a step of the scheduler or leaves it alone (`SchedulerInside`). `RegistryInv`: a key leads to an unsettled
computation, and one that has settled has no subscribers and no abort, so its name can be used again. `WakeInv`: when a thread
waits for a slot, the threads that compute or are about to test the counter are at least as many as the slots; the last
of them to finish notifies. `PoolInv` is about channels: held by one call, or available, or neither; open connections are those
of channels, one each; and on a connection nobody waits on there is no frame. The last is what `AnswersMatch` needs: a call that
gives up after it has sent closes the connection, so one that is passed on to another call has had its answer read.

**The live portfolio.** `HubIsDriven` is the invariant of the hub's stream; what a refresh needs when it settles is less, since
its own timer is the thing to be set (`CanSettle`). Every step of the hub is one of released, settled or
refreshed, with a lemma each (`ReleasedDrives`, `SettledDrives`, `RefreshedDrives`). The page needs only its own
fields and that a connection that ends is noticed. That frames carry a portfolio the broker has had is part of the type,
because what is shown is compared with the content.

**The sessions.** `FeedIsOwned` and `ClosedLeavesNothing` are proved from one invariant, `SessionInv`. `RunInv(r)`
says of a run that it has no session while its start is under way or before it, that a session that is finalized
is not live and holds no subscription, that a session in `active` is live or being finalized, and what each stage of
close leaves. `OneBusy` (the owner has one start or session) is what makes `StartsSettled`, which finishes one
session, enough for all. `RunStep` reduces a step of one run to that run; steps that touch none of this are `Inert`.

`ServiceIsASource` and `RunsAreDriven` need more: who will store the end, and which end it is. `DriveInv(r)` adds that an
open run is busy, or a cancel is about to act on it, or its end could not be stored; and that a run that is over
before its session was, with nothing announced, was *cancelled*: completion and failure come from inside the session only.
So the session that meets a row it did not end announces what the row says, and a start that fails over a cancelled row
announces "failed", which `RunSource` names.

**The live feed.** What drives the feed is of the generation that counts; sockets, timers and attempts of older ones bring
nothing. `LineInv` says which generations there can be: an attempt of the current one is alone and is the one in flight, a
reconnect timer is never of an older one, an open socket is of the current one. Then `Driven` survives every
callback, because a callback that would stop the feed checks its generation first. `ControlConverges` adds what the provider
comes to send. Asked for the symbols desired on a new connection it sends exactly those (`SentInTurn`: after each message
it sends what the messages so far asked for); on an open one each subscribe or unsubscribe appends the one message that makes
up the difference. A message that is sent is taken from the front, so what the whole queue leads to stays the same.

**Filters, folds and induction.** A fold of the community modules is a recursive function behind a CHOOSE. `FoldOf` names that
function, `FoldSolved` shows once that it has the value its equation says at every length, and the facts used are then of one
step: what a fold over a longer sequence adds, and what it keeps when each step keeps it. The library's induction
takes a predicate, so every induction here is over the *set* of the numbers where the claim would fail, which has a least
element (`LeastOf`). A filter is given by places: `EntriesAt` has the entries at the places chosen, in order, each of them once.

**The stream of a run.** `EventsInv` says that the ring holds the last events without a hole, and ends at the revision; that
an open stream that has written anything lacks exactly its backlog, whose revisions follow the last one written
(`CurrentAt`); that what is on its way to a page that has joined the hub, or is about to, makes up for every revision
above the one it accepted (`PageIsAt`, `Delivers`); and that only a run that is over has a terminal event anywhere: in the
ring, the backlog or on the wire (`TrueEvents`). What an event makes up for is the point: a patch stands for its own revision only,
while a state or an end stands for all that came before it, so a page that gets a state after a gap misses nothing. The step that needs
most care is an event the page accepts: whatever it no longer brings is what the page now has (`OwedLess`). The replay sends the part of the ring above the revision asked for, which by the first fact is a suffix without a
hole (`Suffix`, `Follow`); sending one after the other keeps the second whatever the response makes of each
(`SendInTurn`). The page stops on a terminal event or a row that says so, and both are true.

**The buffer of bars.** The buffer and the database order records differently, so `BarsInv` cannot say that no stored row is better
than what was preferred. It says that the queue and the batch have one entry for each bar, that no entry is preferred to `best`,
and that `best` is either still in the buffer or would change nothing in the store if it were written again. What keeps the last is
that the upsert is a step up in one order of rows, by final, quality, source and time, so a record that a row refuses is refused
by every later row (`OutranksOrders`, `UpsertKeeps`). The same bar can be queued and being written at once; taking a batch, merging into an entry, displacing
the oldest forming one and a write that fails each move a record from one place to another.

**Market events.** `MarketInv` looks at outputs: what was delivered, then the event of each token in turn (a token of a quote
stands for whatever its map entry holds now). Outputs are in time, that is, none follows a barrier that it came before; a token
of the present segment has its event after the last barrier, which is what lets a later quote or trade take its place. Of
each event since the last failure the outputs keep what it is entitled to (`KeptOne`): a barrier itself, of a quote one as
new between the same barriers, of trades the first, the last, the highest, the lowest and one that fills. A selection drops
trades of one stretch only, and the extremes it keeps answer for those it drops. An overflow empties the queue and moves the last
failure up. That two kinds of quote are not confused with other kinds is an assumption on `Quotes`.

**The composition.** `PartsInv` joins the invariants of eight parts as `MCServerParts` composes them (of the ninth, the
portfolio page, `PortfolioLiveProofs` has the theorems, and the run checks liveness). Parts that are not chosen stay at
their initial state, except that `RunEvents` and the sessions share the status column: `DriversInv` is asked for when the
sessions are chosen, and `EventsInv` when the stream is, otherwise that no page and no connection is there. `PartSteps` turns a step into a step of one part or a stutter.
`PartsAreTyped`, `PartsAreSafe` and `PartsKeepTheSource` therefore state what the run `server_parts` checks, of the
specification it checks.

**Refresh tokens.** `TokensFormAChain` needs to know why a claim stays good. `Chained`: every token but the last is
revoked, and a token that has a successor is marked. `ClaimedFresh`: a claimed token is neither revoked nor
replaced, because every transaction that changes rows waits for the claims on them. So a claim is for the last
token (`ClaimedIsLast`), the rotation that commits is the only one, and what it appends has a predecessor no other
token has. Cardinalities come from `FiniteSetTheorems`.

**Presets and shutdown.** An editor that knows the current revision knows the current content, and only one editor
at a time is past the lock (`ContentInv`, `LockInv`). In the shutdown the order of the stages carries what each has
waited for (`StageInv`); an unforced drain has waited for the requests whose clients are there (`Quiet`), and a client that
leaves during it takes its request out.

**What the proofs changed.** The filters of arrays were `SelectSeq` and are now given by places (`Selections`); kinds of quotes
are assumed to be none of the other kinds, as in the code, where the kind is a discriminant. The attempt to prove `LiveFeedIsDriven` failed on a release that goes by the key of a rejected
reference: the model had taken `references` for a count, where a symbol with count zero is the same as none. In the code it is
a Map, and such a symbol stays in it. The model now has the Map, with three holders in the run, so that the case is met.

**Only model-checked.** Every invariant and every action property that a run checks, and every refinement, is stated by a
theorem. Liveness (`EveryRunEnds`, `OpenRunMoves`, the two `CloseCompletes`, `PageCatchesUp`) is beyond the prover, as
are fairness and ENABLED, on which it rests; what the theorems give of it is that somebody is always responsible
(`OpenRunHasOwner`, `SessionsDriveRuns`, `HubIsDriven`, `PageIsSupplied`, `LiveFeedIsDriven`). That the models are those of the code is
shown by nothing but reading both.

## 6. Where the code and its documents disagree

* `run_service_stuck_cancel`: a run cancelled between `create` and `markRunning` of `execute` stays
  `cancel_requested` until the server restarts (`run-service.ts` l. 319). README l. 154 promises that waiting
  runs are cancelled.
* `run_service_lost_abort`: a repeated request replaces the abort controller of the execution under way
  (l. 790), so a cancel does not reach the task, against the test at `run-service.test.ts` l. 281.
* `portfolio_evicted`: after the hub evicted an idle stream (or restarted) revisions begin again at 1, and
  the page drops them until they pass the one it remembers (`portfolio-query-controller.ts` l. 136).
* `run_events_missed_end`: the event route reads a run and subscribes to the hub later (`router.ts` l. 344 and
  after). A run that ends in between is never announced on a stream opened without `Last-Event-ID`; no heartbeat is
  sent either, and the page waits until it is hidden or reloaded.

Seen while modelling, without a run, since no document excludes them or the model carries them as a named exception:

* Overlapping requests for one run, and a cancel, can leave a failed run with a cancelled job that no repetition
  of the request reopens, although the error says `retryable: true` (`run-service.ts` l. 494, 541). The limits
  `MCP_MAX_RUNS_PER_SUBJECT` and `MCP_MAX_QUEUED_RUNS` are exceeded by the overlap (`LimitWithinOverlap` says by how much).
* A slow GET that overlaps the stream replaces newer holdings by older ones (`portfolio-query-controller.ts`
  l. 209), so `PageCatchesUp` is checked without hides and manual refreshes, `portfolio` checks safety with all of them.
* A session cancelled between `markRunning` and its entry in `active` runs on over a row that says cancelled; one
  cancelled between `create` and `markRunning` announces "failed" (which `RunSource` permits by name).
* When the statement that stores an end fails, the catch does not try again and the run is open until the next
  start of the server (`unwritten` in `SessionsDriveRuns`).
* `connect` that joins an attempt given up by `disconnect` ends without a connection and without an error (`ridden` in
  `LiveFeedIsDriven`). A first connection that fails keeps reconnecting although nobody holds a symbol. A release after a
  rejection goes by the key of the reference, so it can let go the reference of a later holder of the symbol.
* A family's revocation lasts until the latest expiry read before a concurrently inserted token became visible.
* A page that returns with a revision of a hub that was evicted or lost since gets nothing of the new hub up to that revision:
  the route starts from the revision it names (`router.ts` l. 347, 508) or, if that is above the hub's, sends a snapshot
  that the page drops as stale. `OpenStreamIsCurrent` speaks of pages that are at the hub's revisions (`OnTheHub`) for this reason.
* The store can be closed under a handler at work: `server.close` (`lifecycle.ts` l. 334) waits for connections, and a client that
  has left has none. `StopsInOrder` excepts such requests (`cut`).
* When `activeCount`, `jobs.get` or another call of `enqueueExternal` outside its `try` throws (`run-service.ts` l. 492-564), the
  run it created stays open without a job until somebody asks for it again or the server restarts (`stranded` in `OpenRunHasOwner`).
* The rejection of a request that is over a limit fails the run by its id (l. 541), also when another request for the same run
  has inserted its job or is about to: a failed run beside a job that is computed.
* A control message that is dropped is not repeated before the next connection (`muted` in `ControlConverges`).
* A failed write loses its batch (`bar-write-buffer.ts` l. 145), and a minute that the buffer prefers because it is newer may be
  refused by the upsert because it is partial (`lost` and `Outranks` in `BarsReachTheStore`).
* A flush of the checkpoint journal that fails half way writes its records again, so a replay sees them twice
  (`checkpoint-store.ts`).

## 7. What is not modelled

* Progress percentages, tags, names, archiving, soft delete and search of runs; the contents of payloads and
  artifacts: no property here can tell them apart.
* Of the event route: events published while a replay is being sent are queued and offered a second time (`router.ts` l. 393, 513);
  `send` refuses what was sent, so this has no effect with a backlog of more than 2. Of the page: that the status it shows
  is the root's, then the run's, then the snapshot's phase (`normalizeAiSimulationRun`), on which `PageStopsOnlyAtEnd` rests, was
  read (`src/lib/ai-simulation.ts`) and is not modelled; an event here carries the status so derived.
* The capacity of the hubs over many accounts or runs, the close of the portfolio hub, a change of account, the SSE
  admission count.
* Of the sessions: pairs, the checkpoint journal, decisions and orders. Of OAuth: codes, clients, access tokens.
  Of the feed: aggregation of bars, the subscription limit, the parsing of frames.
* `SharedComputationRegistry.close` (`shared-computation-registry.ts`), which no code of the program calls.
* Numerical code (back-tests, indicators, optimisation, Monte Carlo, paper trading, model inference), out of TLC's
  reach: floating point.
* Rendering, parsing and plain storage, offline tools and comparison data, which are most of the repository's lines.
  `PROJECT.json` gives the reason for every component.

## 8. Plan

Done, in this order: RunStore, DurableQueue with RunLifecycle and their proofs; RunService; ExternalDispatch;
PortfolioHub and PortfolioLive; ComputeQueue and ComputeScheduler; ComputePool and SharedComputation over them;
RunSource, SimulationSessions and RunEvents; RefreshTokens, Presets, BarWrites, MarketEvents, Shutdown and LiveFeed;
proofs of sessions, tokens, presets and shutdown; proofs of RunService, of the scheduler's list, the registry, the client and
the worker, of the live portfolio, of the dispatch limit, of the live feed, and that the sessions implement RunSource; proofs of the
stream of a run, the bar buffer, the market events and the control queue, and of the composition. No safety property of a run is left to prove.

Next to model: the checkpoint journal with a crash between its records; the two legs of a pair session; authorization
codes next to refresh tokens; the start-up with its roll back, composed with Shutdown.
