# TLA+ models of the Aragon app backend

The backend follows DAOs on a dozen EVM networks. It reads the logs of their
contracts, turns them into MongoDB documents, and serves these to the app. The
code is TypeScript; a set of service processes share one MongoDB database and
one RabbitMQ broker. What makes it hard is not any single computation but that
processes, redelivered messages, timers and failing requests meet in shared
rows: a checkpoint that passes an event nobody handled loses that event for
good, and no unit test drives two processes through such a schedule.

The models cover the machinery under all services (how logs are crawled, how
messages are consumed, how periodic tasks are kept to one process) and three of
the subsystems built on it: the Safe service, the Telegram notifications, and
the life of a proposal from its events to its stored votes and counts.

## 1. The system

### Components, their state and operations

| Component (source) | State | Operations | Correct when |
|---|---|---|---|
| Blockchain log crawler (`modules/crawlers/blockchainLogCrawler.ts`) | per instance: `shutdown`, `runCount`, `batchSize`; per crawl: current, latest and last block, strategy | `crawl`, `end`, three ways to fetch logs | no event below the checkpoint is unhandled; lagging events are reached |
| Progress tracker (`progressTracker.ts`) | the `ConfigIndexer` row: `lastSync`, `end` | `getStartingBlock`, `saveProgress`, `markAsEnded` | the row never moves back, never gets ahead of what may be read |
| Log processing engine (`logProcessingEngine.ts`) | none across calls | `processLogs`, batch handlers, parallel variants | a failed handler keeps its range unsaved |
| Adaptive batch size manager (`adaptiveBatchSizeManager.ts`) | current and remembered sizes, counters, high activity flag | `recordSuccess`, `recordBatchSizeError`, `resetForNextRange` | sizes stay in bounds, errors narrow, zones of high activity are conservative |
| RabbitMQ helper (`helpers/rabbitMQ.ts`, `modules/rabbitMQ.ts`) | `activeJobs`, `queuedMessages`, channels; at the broker: queues, wait queues, dead letters | `sendMessage`, `process`, request and reply, throttled sends | nothing accepted is lost, one handler per id, every retry ends |
| Task scheduler (`modules/taskScheduler.ts`) | the `TaskService` row: `lockedBy`, `lockedUntil`, `nextStartAt` | `acquireLock`, `releaseLock`, `taskRunner`, shutdown handlers | one run at a time; a lost lock is taken over |
| Database transactions (`modules/dbTx.ts`, `helpers/mongoRetry.ts`) | sessions | `executeTxFn`, `safeCommit`, `retryOperation` | a write is reported as done only if it is |
| Safe service (`modules/safe/*`, `safeTxService.ts`, `models/schema/safe*.ts`) | the shared cache, the in-process map of open reads, the hourly counter, transaction rows with their state, stamps | `readNextNonce`, cached page reads, refunds, `syncStore`, settling by chain events | no held nonce is handed out, the budget and its reserve are kept, a page is as recent as it says, settled rows stay settled |
| Telegram notifications (`services/aragon-telegram`) | outbox, dispatch and delivery markers, hourly window, subscriptions | publish, dispatch, send, retry; join, pause, block, forget | each notification reaches whoever stays subscribed, once |
| Migration runner (`modules/migration.ts`) | migration rows | run, mark | each migration completes once |
| Incremental caches (`daoAddressCache.ts`, `tokenEligibilityCache.ts`, `inFlight.ts`) | cursor, sets | refresh | no document is skipped by the cursor |
| Event handlers (`handlers/*`) | the domain's documents | one per event | replaying an event changes nothing |
| Proposal metrics (`services/aragon-dao/proposalMetrics.ts`) | the counts stored with a proposal | recompute from the stored votes | the counts are those of the votes once everything is quiet |
| HTTP services, governance reads, decoding, detection | none of their own | | |

### How they interact

An HTTP request, a pooling tick or a handler that found a new plugin sends a
message; `process` delivers it to a service, which builds a plugin crawler,
crawls to the head and calls `end()`. The pooling crawler of a network is built
once and crawled at every tick of the scheduler. Crawlers write the row they
start from; handlers write the domain's documents and send further messages.
Nothing but the row, the lock and the message id keeps two processes apart.

The proposal handlers store a notification in the outbox in the transaction that
stores the proposal; a scheduled task publishes it, the bot's consumer sends it.
The gateway and the API read Safe pages through one cache and one budget; the
DAO service's refresh jobs write them to rows, and chain events settle the rows.

### What is hard

The list with its source lines is `hazards` in `PROJECT.json`. In short: several
crawlers on one row; a handler that throws in the middle of a range; a crash
between handling and saving; a head read before the row moved; logs a node does
not show yet; inclusive range ends computed in three ways; flags and counters
that survive in a reused crawler; a message redelivered while its first delivery
still runs; acknowledgements on a closed channel; a lease that is shorter than
its task; a stale lock cleared in two steps. Of the subsystems: a queue that
changes between the pages of a scan; a counter that is checked and incremented
in two calls by every process; rows read, compared with the chain and written in
three calls; some of many concurrent sends failing; a send whose marker is lost;
votes replayed over the votes that replaced them, by several crawlers between
whose reads and transactions others write; metrics computed from a snapshot
while the message about the next vote is dropped.

## 2. The modules

| Module | Models | Role |
|---|---|---|
| `AdaptiveBatch` | `AdaptiveBatchSizeManager` | operators from a manager state to the next, no variables |
| `AdaptiveBatchAlone` | the same class, called in any order | specification, properties |
| `LogCrawler` | `crawl`, `end`, `ProgressTracker`, `LogProcessingEngine`; extends `AdaptiveBatch` | specification, properties |
| `ReliableCheckpoint` | what the crawlers of a row promise together | abstract specification, implemented by `LogCrawler` |
| `LogCrawlerProofs` | | theorems about the batch manager and the crawlers |
| `MessageQueue` | `RabbitMQHelper` on one queue, with the broker | specification, properties |
| `MessageQueueProofs` | | theorems |
| `TaskScheduler` | `TaskScheduler` on one task | specification, properties |
| `TaskSchedulerProofs` | | theorems |
| `SafeNextNonce`, `SafeNextNonceProofs` | `readNextNonce`, `_scanQueue`, `lowestFreeNonce` | specification, properties; theorems |
| `SafeReads`, `SafeReadsProofs` | `_readCachedPage`, `_fetchPage`, the cache and the budget | specification, properties; theorems |
| `SafeStore`, `SafeStoreProofs` | `syncStore`, `SafeTransactionsModule`, `SafeExecutionHandler` | specification, properties; theorems |
| `Notifications`, `NotificationsProofs` | outbox, reminders, dispatcher, window, markers, subscribers; composes them with the consumer of `MessageQueue` | specification, properties; theorems |
| `Proposals`, `ProposalsProofs` | the proposal handlers driven by the crawler, with the metrics service behind the queue | specification, properties; theorems |
| `MC...` | | values of the constants for TLC |

Operators whose comment starts with "Mutation" are deliberate errors: each one
can take the place of the definition that follows it, and then breaks the
property `mutants` in `PROJECT.json` names. No specification uses them.

### AdaptiveBatch

Sizes are in blocks: the configuration's days, divided by the network's block
time, become one constant each. Densities are compared in tenths of an event per
block, without rounding. `successes`, `errors` and `empties` stop at 10, 3 and
5, where the code no longer tells larger values apart. Statistics that no code
reads back are left out.

### LogCrawler

`job[w]` is the local state of one call of `crawl()`: `pc` names the await it is
at. `crawler[w]` is the instance, which a pooling crawler keeps between ticks
and a plugin crawler does not. Each request to the node or the database is a
step, so that other workers, new blocks and crashes come between any two:

    ReadProgress -> ReadHead -> BeginRange -> fetch -> HandleLogs* -> FindRow -> UpdateRow / CreateRow

with the failures of each (`StartFails`, `BatchTooWide`, `BatchFails`,
`RangeFails`, `ReceiptsFail`, `HandlerFails`, `CreateConflicts`, `SaveFails`,
`SaveUnanswered`, `Crash`). A save whose answer is lost (`SaveUnanswered`) moves
the row and leaves the crawl at its old current block; `asked` is history: how
far such saves of this crawl went. `Catch` is the loop's catch block for
crawlers with `stopOnError`, which all crawlers of the services have. A
rate-limited answer is asked again and changes nothing. `Answers` is the node:
it shows every event of settled blocks and any of the others. An event is the
block it is in; a handler that throws may have written something, which the
replay of the range repeats. The pooling crawler's `filterLogs` hands the voting
escrow events of a fetched range to a batch handler inside the fetch
(`poolingCrawler.ts:191-221`); `BatchFetched` leaves that out, and handles those
events with the others after the fetch.

`LogCrawlerAssumption` says what the crawler needs of its configuration: the
offset covers the unsettled blocks, and crawlers without an offset meet none.
The second half is an assumption on the chain, not something the code ensures:
plugin crawlers read up to the head.

### MessageQueue

The queue and its wait queues are bags (the broker's order is not relied upon);
`job[d]` is one call of the consumer's callback; `live` says that the channel it
came from is still open. `mode` is what `process` was called with: `retry`
(publish to a wait queue, then to the dead letters), `requeueOnError` (nack) or
no options (the message stays unacknowledged). `Reconnect` is a lost connection:
unacknowledged deliveries return to the queue, callbacks run on, and a message
being published may arrive twice. `owed` is a history variable: ids accepted by
the broker and neither handled nor dead-lettered since. `Finish` frees the id
once; when the acknowledgement after it throws, the code frees it a second time
(`rabbitMQ.ts:208`), with no more than microtasks between the two.

### TaskScheduler

`run[r]` is one call of `taskRunner`; a process has several when the interval
fires during a run. The awaits of `acquireLock` are steps and each may fail.
Time is relative: `left` is `lockedUntil - now`, `due` is `nextStartAt - now`;
`age` is how long ago a run took its `now`, since the code computes the lease
from a time it read before the first await. `IsProcessAlive` sees processes of
its own host only. `trouble` records which faults have happened: a task that
outlasts the lease, a crash, a shutdown (which releases the locks before the
tasks have stopped), or an unhandled rejection (which releases the locks of a
process that goes on), or a release sent again that cleared a lock.

Each update may be applied and its answer lost: when the lock is taken
(`AcquireUnseen`), when a stale one is cleared (`ClearUnanswered`) and when it
is released (`ReleaseUnanswered`). `retryOperation` then repeats the release,
which asks for nothing but the service's name, up to `MaxReleases` times; `sent`
counts the applied ones, and from the first on the run no longer holds the lock.
The next run may have taken it by the time of the second: that is the fault
`resend`. A call is taken to be applied while its caller awaits it, or not at
all; an update that reaches the database after the driver gave it up is not
modelled.

### SafeNextNonce

A transaction is its identity and its nonce; several may hold one nonce. The
scan's locals are variables (`floor`, `bound`, `found`), each page is a step,
and between any two the queue is changed by others: `Propose`, `Delete`,
`Execute`. `IsPage` is the service: the first `Limit` matches in the order it
applies, where ties may come in any order. A service that ignores
`ordering=-nonce` is `ordering = "ascending"`; then a full page is rejected
(`RejectPage`) unless all its rows share a nonce, which the code cannot tell
from a sorted page; the assumption therefore asks for fewer rivals at a nonce
than a page holds, in that case only. `steady` and `glimpsed` are history: what
stayed queued during the whole call, and what was queued at some moment of it.

### SafeReads

A reader is one call of `_readCachedPage` for one key, or one page of a
next-nonce scan. `JoinOrRead` is one step because no await separates
`inFlight.get` from `inFlight.set`; the check and the charge of the budget are
two, as in the code. A page is the time it claims (`at`, the caller's `now`) and
the version of the service's data it holds. `hour` is the bucket of `chargedAt`,
so a refund goes there even after the hour has turned. `Unanswered` and `Drop`
differ in whether an attempt reached the service (`reachedUpstream`).
`failOpens` counts calls let through while Mongo was failing. The retries of one
request are one upstream read: the code charges one unit for them.

### SafeStore

Rows have a state and the age of the page that last wrote them. Every database
call of a job is a step: `Begin`, `ReadQueue`, `Revive`, `Retire`,
`UpsertQueue`, `SettleFind`, `SettleRead`, `SettleWrite`, `Stamp`, then the same
for page zero of the history. `JobFails` and `HandlerFails` stop either of them
between any two calls. `full` is a backfill, which throws where a poll goes on.
Every read of a queue page, and a poll's of the history, goes through the cache:
`Pages` are the answers to a read that began now or earlier (the job's own, or
one it joins), and `cached` is a page kept from before the job began, of the
queue as it was then (`CacheQueue`), which its expiry or a later write may have
removed from the cache again (`SafeReads` models those). On a stale page
(`QueueUnread`), and on one no newer than the stamp (`TakeQueue`), a backfill
too goes on to the history with nothing reconciled, and ends as done. `solo` is
history: nothing else happened since this backfill began, and each of its pages
was applied, complete and still what the service has when it took it, wherever
it came from; that is when it must repair everything. Deeper history pages
repeat page zero and are left out, and so is the decoding of stored rows.

### Notifications

`handler[m]` is one call of the dispatcher's `handle()`, `todo[m][u]` one
`sendToChat` in it; the sends of a message run concurrently. The queue is that
of `MessageQueue` with the retry option, reduced to what the dispatcher can
observe: copies by attempt, duplicates dropped while a handler runs, redelivery
after a crash or a lost connection. A reminder has no outbox record; its key is
claimed after the publication as a record is marked, so the two share
`TakeRecord`, `PublishOrThrow` and `MarkPublished`, and a reminder can go away
first (`Withdraw`). `decisions` and `count` are the in-memory window, which
forgets them at the first message of a new hour. `loyal` is history: the users
active, for this event, ever since the notification was made.

### Proposals

An event is known by its position in the chain. The contract emits (`Emit`) what
the kind of plugin allows; the transaction that creates the proposal may vote,
approve or execute before the creation's own log. Several crawlers handle the
events: the pooling crawler of the network (`poolingCrawler.ts:66`) and the
plugin crawlers that the `plugins` and `requeue` queues and SyncAll start
(`aragon-plugins/index.ts:60`). Each goes in order and at its own pace. A
handler is up to four steps: the read of the log (`FindLog`), the read of the
vote (`FindVote`), the transaction (`WriteVote`, `ProposalCreated`), the message
(`SendMessage`); other crawlers come between any two. `found` is the vote that
was read, `gone` that it has been deleted since: an update and a deletion
address it by its `_id`, so they do not reach a record of the same log that was
stored again. A crawler that crashes goes on from any block that some crawler
has reached (`Checkpoints`): they share the row or have their own, and nothing
more is assumed of it. Whole blocks are thus handled again, over whatever this
or another crawler stored; that no block is left out is what `LogCrawler` proves
(`NoGap`). A stored vote carries the positions it stems from (`pos`, `replaced`,
`over`, `source`, `cleared`), which is enough to tell option and voting power
apart. The contract emits before the crawlers set out: a handler cannot tell a
block still to come from one that waits, so no behaviour is lost. `HandlerFails`
is the catch block that every handler ends with; the crawler goes on behind it.

`trouble` records when the handlers give no guarantee. "raced": a voteCast
commits while another crawler is between the read at `proposalHandler.ts:463`
and the transaction at `:476` for another log of the same voter; the other then
deletes a vote that is gone, or none, and two stored votes of the voter remain.
"skipped": a crawler that was going over events again restarts beyond them, from
a checkpoint that another has saved, and leaves the store as half of a replay
made it. "lost": the handler of an event failed.

## 3. The runs

| Run | Instance | Shows |
|---|---|---|
| `adaptive_batch` | sizes up to 8 blocks, heuristics on both sides of them | `BatchWithinBounds`, `ErrorNeverWidens`, `HighActivityIsConservative` under every order of calls |
| `plugin_crawlers` | two workers, 5 blocks, 3 events, 2 of them with a batch handler | `CrawlInvariant`, `NoGap`, `CheckpointNeverRegresses` with failures and crashes anywhere; `ImplementsCheckpoint`: refinement of `ReliableCheckpoint` |
| `pooling_crawler` | one worker, 5 blocks, offset 1, newest block unsettled | `CrawlInvariant`, `NoGap`, `CheckpointBehindHead`, `NothingSavedIsReplayed`, and `LaggingEventsAreHandled` under fairness |
| `queue_consumer` | 2 ids, 2 callers, 3 deliveries, prefetch 2, each mode; one lost connection, crash, failed publication | `QueueInvariant`, `OwedIsKept`, `SingleFlight`, `NoStuckId` |
| `queue_settles` | as above with one caller, prefetch 1, handlers that may always throw | `OwedIsSettled` under fairness |
| `scheduler_lock` | 3 runs of 2 processes on a host, every fault, every lost answer, up to three releases of a run | `SchedulerInvariant`, `ExclusiveWithoutFaults` |
| `scheduler_progress` | 2 containers whose processes have the same id | `TaskKeepsRunning` under fairness |
| `safe_next_nonce` | 6 transactions, rivals at two nonces, a hole; pages of 3; both orderings | `ScanInvariant`, `NextNonceIsFree`, `HolesAreFilled`, `SpentOnlyInWindow` |
| `safe_reads` | two page readers of one process, one of them past the cache, a next-nonce reader of another; budget 2, page share 1; two hours | `SpentWithinBudget`, `ReserveIsKept`, `AgeIsHonest`, `ReadsInvariant` |
| `safe_store` | two rivals, two jobs, pages of one row, fresh, cached, joined or stale, two times, one event | `StoreInvariant`, `BackfillRepairs`, `SettledIsFinal`, `StampAdvertisesRows` |
| `notifications` | an outbox message and a reminder, two users, cap 1, two attempts; any two faults or moves of users | `DeliveryInvariant`, `NotificationIsKept`, `SentOnce`, `DispatchedMeansServed`, `MutedOnlyPastTheCap` |
| `proposals` | two voters, two crawlers, each kind of plugin, the creating transaction and two more; one crash or one failed operation on chains of up to four events | `VotesInvariant`, `StoreFollowsTheChain`, `MetricsFollowVotes` |

**Why the bounds suffice.** In `plugin_crawlers` the chain is longer than any
batch, so a crawl takes several ranges and the row is written by both workers;
the batch sizes reach the single block at which a crawl gives up; each of the
three fetching strategies is used. In `queue_consumer` the third delivery lets a
redelivery overlap a callback of the old channel while another id is handled,
and two attempts are enough for a retry and a dead letter. In the scheduler the
lease is twice the longest acquisition, so that leases expire during one, and
one process has two runs. Counters named `Max...` bound the faults. The queue's
runs allow deadlock: with all sends used and all messages settled nothing is
left to do. So do the runs of the five subsystem models, whose calls, faults and
events are bounded.

In `safe_next_nonce` a page boundary falls between rivals and a second and third
page is needed; deletions and executions come between the pages. In `safe_reads`
both readers of a process meet in the join, a page becomes stale and is purged,
the last unit of each share is contended by two processes, and a refund crosses
the hour. In `safe_store` the page of one row makes a page of two rivals
incomplete, and the second job can overtake the first at every call. In
`notifications` two attempts allow a retry and a dead letter, a cap of 1 mutes
the second message, and any pair of faults is tried. In `proposals` three
transactions are a vote before the creation or after it, its override or
clearing and a vote again; the second crawler handles everything once more at
any distance behind the first, a crash makes one of them start over in between,
and with one message in the queue the next one is dropped or waits. In
`scheduler_lock` three runs are the one whose release is repeated, the one whose
lock that clears and the third that starts.

Two runs have a constraint as a further bound (`MCBound` of their MC modules).
`safe_store` lets one older page at a time wait in the cache for its job.
`proposals` goes on after a crash or a failure only for chains of at most four
events; longer ones, up to six, are handled by both crawlers without, so that an
event is still met long after the records it led to were replaced. The largest
runs visit 4.1 million states (`safe_store`) and 4.1 million (`notifications`),
in about two minutes with two workers.

**Fairness.** Weak fairness of steps that only need the process to go on (timers
fire, promises settle). Strong fairness of requests, handlers and writes that
are repeated until they succeed: a node, handler or database that fails for ever
stops any crawler, and the properties say that nothing else does. For handlers
fairness is per event, so that a success of one is not taken for a success of
another. In the queue no fairness makes a handler succeed. Crashes and
shutdowns do not go on for ever.

**Why the conditions in the properties.** `LaggingEventsAreHandled` is about
events at least `RangeThreshold` blocks behind the target: near the head the two
strategies that do not clear `shutdown` may be chosen, and after an error they
drop what they fetched until the gap to the head has grown wide enough for a
batch. `OwedIsKept` and `NoStuckId` exclude a lost connection combined with
another fault (`FaultsApart`) because the code does lose messages then (section
5); `NotificationIsKept` inherits the condition. `SentOnce` names the losses
between a send and its marker after which a second send is the intended choice.
`NothingSavedIsReplayed` excepts, within one crawl, the blocks of a save whose
answer was lost: the crawl goes on from its old current block and hands them
over again. `BackfillRepairs` is about backfills whose pages are still true when
they are taken; one that is answered with a stale, an outdated or an already
stamped queue page ends as done as well, with the queue unreconciled until the
next job. `OneVotePerVoter` (in `VotesInvariant`) holds until two votes race,
and `StoreFollowsTheChain` leaves out runs with a race, a skip or a failed
handler; of a voter who cleared a vote and voted again it leaves open only
whether the vote is cleared. `MetricsFollowVotes` leaves out a last message that
was lost or dropped: in each case the code gives no guarantee (section 5).
`ExclusiveWithoutFaults` says on which conditions the lock is one. `NoGap` and
`CheckpointBehindHead` see a range that leaves a hole or passes the target;
neither sees one wider than the RPC accepts, which is refused and asked again
narrower.

## 4. The proofs

All with TLAPS, for every value of the constants that satisfies the named
assumptions: any sizes, any set of workers, any placement of events, any length
of the chain, either kind of crawler.

`LogCrawlerProofs`, the batch manager. The bound on the current size is not
inductive alone: `resetForNextRange` returns to the last successful size and
predictions return learned ones, so the invariant `WellSized` bounds everything
the manager remembers. One lemma per operator shows that it is preserved; the
arithmetic of the interpolation (`TargetBetween`) and of the floored divisions
are lemmas. Theorems: `BatchStaysWithinBounds`, `ErrorsNarrow`,
`HighActivityStaysConservative`.

`LogCrawlerProofs`, the crawlers. `NoGap` speaks of the row only; the inductive
`CrawlInvariant` says what each worker knows at each of its awaits (`JobSound`):
all events below its current block are handled; its range lies between that
block and a head it may read; events of the range are handled or still to do,
and once it saves, handled. Handled events only grow and the target only moves
up, so what one worker knows survives the steps of all others (`WorkerStep`,
`MineStep`): this is why a stale head and a stale row are harmless. `SaveStep`
turns a worker's knowledge into the row's (`RowSound`). The fetch steps need the
assumption on unsettled blocks (`AnswersAreComplete`). There is one lemma per
action, combined in `NextSound`. Theorems: `CrawlInvariantHolds`,
`NoEventIsLost`, `CheckpointStaysBehindHead`, `CheckpointIsMonotone`, and
`CrawlersImplementCheckpoint`: under the mapping of `lastSync` to the abstract
checkpoint every step is a `Handle` (`HandleLogs`), an `Advance` (`UpdateRow` or
`CreateRow`, whose guard follows from `RowSound` of the next state) or a stutter
(`StepsMap`). `LoneCrawlerReplaysNothing` is about a row with one crawler, as
the pooling crawlers have it: `NotBehind` says that its current block never
falls behind the row, since it starts from the row and nobody else moves it;
with two crawlers the claim is false, and the theorem says so by its hypothesis.
After a save whose answer was lost the crawl does fall behind, but not behind
what that save asked for (`asked`), and a new crawl starts from the row again.

`MessageQueueProofs`. `SingleFlight` speaks of running handlers; `activeJobs`
protects them only because every callback that is not over, also one whose
message was left unacknowledged, has its id there, because ids are entered only
when absent, and because a callback that ends takes out no id but its own. That
is `QueueInvariant`. It is conditional on no connection having been lost: after
one, a callback of the old channel can take out an id that a new delivery
entered (the handler returns and frees the id, the redelivery enters it, the
acknowledgement throws, and the catch block deletes the id again).
`CallbackStep` is the shared lemma: one callback changes, the others keep their
distinct ids. Theorems: `QueueInvariantHolds`, `OneHandlerPerId`, and
`NoIdIsStuck`, whose invariant adds that only consumers without options leave
deliveries unacknowledged (`OnlyLeaks`): a reconnect then ends no callback that
still has to free its id. `NoMessageIsLost` follows each accepted id through the
broker's bags and the callbacks (`KeptSomewhere`). A copy is dropped only
because its id is in `activeJobs`, so the proof needs that a callback with that
id is under way (`IdInvariant`, of the state after the step), and that this
callback, when it fails, still has a delivery to give back; a lost connection
takes the delivery away, which is why then only the retry option keeps the
message.

`TaskSchedulerProofs`. `LockSound` says why the lock excludes: the holder's
process id is in the document and its lease is not over (`FreeLockIsUnheld` then
refuses every other run), and no run is about to clear a lock, since all
processes live and are seen (`DecideStep`). The lease is computed from a time
read up to `MaxAge` before it is written; that it is still in the future needs
`MaxAge < Lease`, part of `TaskSchedulerAssumption`. Faults are remembered in
`trouble`, so the steps that break the invariant (`Rejection`, `Shutdown`,
`Exit`, `Crash`, an overdue `Tick`, a release repeated over another run's lock)
leave its premise. A release that is repeated while nobody has the lock changes
nothing, and one whose run still holds it is a first one (`Holding`). Theorems:
`SchedulerInvariantHolds`, `LockIsExclusive`.

`SafeNextNonceProofs`. The properties speak of the answer; `ScanInvariant` says
why it is right half way: what stayed queued at or above the floor has been
collected or lies within the bound of the pages to come (`ScanCovers`), nothing
was collected that was not queued (`ScanIsHonest`), and the second nonce is not
below the first (`ReadsAreFloored`). That a full page loses nothing when the
bound drops below its lowest nonce needs the order of the page, or, when the
service ignores the order, that a full page of one nonce cannot exist; this is
where the assumption on rivals is used. Theorems: `ScanInvariantHolds`,
`NextNonceNeverCollides`, `NextNonceFillsHoles`, `NextNonceIsAlive`, for any set
of transactions, any nonces and any page size of at least two.

`SafeReadsProofs`. `BudgetInvariant` counts: units held by readers about to call
or to be refunded, plus units spent, never exceed what was counted plus what was
let through while Mongo failed, and the counter never exceeds the limit. The
held units are a cardinality, so the proof is about one reader joining or
leaving a finite set. A refund is sound because only a reader that holds a unit
can give it back, to the bucket that paid. `AgeInvariant` follows the pages: a
page claims the time its caller's read began, which is not later than the moment
the service answered, and every place a page can go (the cache, the copy kept to
fall back on, a joined reader's answer) takes it from another such place.
`ReadsInvariant` adds that a process has one open read per key and that its
`inFlight` entry is a read that is still open; a joined reader therefore awaits
a promise that settles, also when the reader it joined fails. Theorems:
`BudgetInvariantHolds`, `BudgetIsNeverOverspent`, `ReserveIsNeverEaten`,
`AgeInvariantHolds`, `AgesAreHonest`, `ReadsInvariantHolds`, for any processes,
readers, limits, lifetimes and hours.

`SafeStoreProofs`. Between reading a row and writing it a job relies on what the
chain said; it may, because an executed transaction stays executed and a spent
nonce spent: every intention of a job or of the event handler is a fact that
cannot become false (`IntentsAreTrue`), so what it writes late is still true
(`JobKeepsTruth`); this holds of a cached page as well, however old it is. From
there `RowsAreTrue`, `SettledRowsStay` and `StampsFollowRows` (a page's rows are
written in the steps before its stamp). `BackfillsRepair` needs to know, at each
call of an undisturbed backfill, what has been repaired so far (`Repairing`). A
page that is taken while `solo` is the whole queue as it is and newer than every
row, so the steps behind it find what they need whether it was read or cached;
the proof is one lemma per call, and `StoreInvariantHolds` combines the two.

`NotificationsProofs`. Types and frames come first: `NextCases` says whose step
a step is (a message's publisher, its handler, one chat, one user, the process),
one lemma per group says what it leaves alone, and `HandlerActs` reduces the
seven steps of a handler to where they take it. `DeliveryInvariant` then says
that a marker, or a chat past its send, stands for a message that reached its
user, that chats run only while their handler awaits them, and that a message
not yet made has left no trace; the last is needed for `Enqueue`, which is where
users become owed a message. A recorded dispatch is earned (`ClaimIsEarned`): an
empty audience has no loyal user in it, and a settled list without failures has
none left out. `SentOnce` rests on `SentInvariant`: until a fault that may
repeat a message, what was sent is marked or its chat is about to mark it.
`NotificationIsKept` rests on `KeptInvariant`: only a lost connection leaves a
handler without its delivery, so a crash and a failed retry each find the
delivery to give back unless both kinds of fault came together.
`MutedOnlyPastTheCap` rests on `WindowInvariant`: the messages let through in
this hour are as many as the counter says, up to the cap, so a retried message
was counted once. Theorems: `DeliveryInvariantHolds`, `DispatchReachesTheLoyal`,
`NobodyIsSentTwice`, `NotificationsAreKept`, `MutedPastTheCap`, for any
messages, reminders, users, subscriptions, cap, attempts, prefetch and set of
faults.

`ProposalsProofs`. That a voter has one stored vote is a fact about two steps:
what a voteCast read must still be all that its voter has when it writes.
`ReadsHold` says so of every crawler that is about to write, unless its log has
been stored meanwhile; it is preserved because only a voteCast of the same voter
can break it, which is a race (`Races`), and because updates change no position.
An approval looks for no vote to replace, so a member must approve once
(`PluginEvents`). `VotesInvariant` is this together with where crawlers and
votes are on the chain (`OnTheChain`, `VotesAreCast`); its first half holds
through races too.

`MetricsFollowVotes` is about the quiet state; `CountedInvariant` says for every
other state what still stands between the counts and the votes: a crawler with
an unsent message, or an objection whose own handler will send it, a queued
message, a snapshot that is not older than the last vote, or a loss that was
recorded (`missed`).

`StoreFollowsTheChain` is about crawlers that have caught up; its invariant
`StoreInvariant` is about every position of each. `ChainFacts` is what the
contracts guarantee (where the creation is, that objections and clearings follow
a vote, that a proposal is decided once), preserved because a transaction only
appends. The store cannot be described by how far one crawler is, since the
others write too. `StoreFacts` therefore says of each event that whatever it
should have done is done, or it is still to be handled by some crawler (`Due`,
`Waits`): `CastsAreKept`, `LastVote`, `Overridden`, `Objected`, `Cleared` and
`ProposalFacts` have this form, and a crawler that handles again what another
has handled finds it stored, replaced or stale. Each step of a handler is a
lemma: what it read still leads to the same result at its transaction, because a
change of the vote in between would be a race, and because overrides and
objections only act on votes older than themselves. A restart keeps the facts
unless it skips, since everything below the checkpoint is done or still due for
another crawler. No data induction is needed. Theorems: `VotesInvariantHolds`,
`CountsFollowVotes`, `StoreIsTheChains`, for any crawlers, any voters, any
history and any number of crashes and failures.

Only model-checked: the three liveness properties (`LaggingEventsAreHandled`,
`OwedIsSettled`, `TaskKeepsRunning`), since fairness and ENABLED are beyond the
prover. Every other property of the runs is stated by a theorem. The bounds on
the runs therefore only limit the liveness results; the runs of the proved
properties remain as a check of the models (every action fires) and of the
mutants.

## 5. Where comments and code differ

Met while modelling. The models show these behaviours; the properties are stated
so that they hold of the code as it is.

- `adaptiveBatchSizeManager.ts:31`: `MAX_BLOCK_RANGE` is called a hard ceiling
  on one query; the first range of a crawler (`blockchainLogCrawler.ts:639`),
  and every range without topics (`:373`), is one block wider than the batch.
- `adaptiveBatchSizeManager.ts:134`, "Exit after 3 consecutive successes": the
  crawler resets the count after every range (`:258`), so a crawler never leaves
  a high activity zone.
- `adaptiveBatchSizeManager.ts:149`: the jump after five empty ranges is undone
  by the reset that follows it before the next range is chosen.
- `helpers/rabbitMQ.ts:221`, "A closed channel requeues unacknowledged
  deliveries itself": it does, but the redelivery is dropped as a duplicate
  while the old callback runs, and lost when that callback fails.
- `endingSoonNotifier.ts:12`, "one instance at a time": a task longer than the
  lease of five minutes is joined by a second run.
- `safeService.ts:491`: page zero of the history "skips the cache ... so a row
  that just executed is seen as executed at once"; the read still joins one that
  is already in flight (`:365`) and may be as old as that one's start.
- `daoEventWindow.ts:5`, "A retried message gets its first answer back instead
  of a new slot": not when the hour turned in between; it then takes a slot of
  the new hour, and may be muted by it although some users already have it.
- `voteCleared` (`proposalHandler.ts:1224`) looks for its own log among stored
  records by comparing the whole embedded record without the timestamp that is
  stored with it, so it never finds one, and it has no test for a stale log as
  `overrideVoteCast` has: handled again after a crash it clears the vote that was
  cast since.
- `userData.ts:29` says that no personal data remains in the notification
  collections; a send that is in flight while its user is deleted claims its
  delivery marker afterwards.

More behaviours that the models show and nothing in the repository speaks
against: a plugin crawl that stopped at an error still calls `end()`, and the
requeue service skips ended rows; an acknowledgement on a closed channel throws
into the retry path, so a handled message is published again; of two runs that
saw the same dead lock holder the slower clears the lock the faster has taken;
an event whose handler failed is logged and passed by, since the handlers catch
what the crawler would have stopped at; a crash between a vote's commit and its
message leaves the counts stale until the next message about that proposal; two
crawlers in `voteCast` for two logs of one voter store both votes, which the
tally then counts; a release of the lock that was applied without an answer is
sent again, seconds later, and clears the lock of the run that started
meanwhile, so that a third may start beside it; a backfill that is answered with
a stale queue page reports success without having reconciled the queue.

## 6. Not modelled

- `processLogsParallel`, `oneBlockPerTime`, `skipLogProcessing`, a fixed
  strategy, and crawlers without a progress tracker: other uses of the crawler.
  `filterLogs` of the pooling crawler.
- SPP proposals (pairing, stages, results of bodies) and the plugin, permission,
  DAO and gauge handlers: planned, each with its own life cycle under replay.
- Safe: reads of owners and balances, tracking, DAO associations, decoding.
- Telegram: the conversation of the bot, rendering, subscriptions to several
  organisations, the expiry of old records.
- Request and reply over the queue, throttled sends.
- `executeTxFn`, the migration runner, the incremental caches: planned.
- The records of task runs.

By far the largest part of the repository's lines holds no state and takes no
decisions that a model could get wrong in an interesting way: token lists and
configuration (`config/`), ABIs (`artifacts/`), NatSpec parsing and action
decoding, aggregation pipelines and query builders (`models/utils`, schemas),
request validation and formatting in the HTTP services, governance reads,
migrations that ran once. These are data and conversions of data; unit tests
with examples reach them well. The models are about the few thousand lines in
which several processes, requests and failures meet.

## 7. Plan

Order of the remaining work, most important first:

1. Abstract specifications for `MessageQueue` (what is owed stays owed until it is
   settled) and `Notifications`, with the refinement proved step by step; the
   safety halves of the liveness arguments (what decreases, what stays enabled) as
   invariants.
2. `DbTx`: `executeTxFn`, `safeCommit` and `retryOperation` against write
   conflicts, duplicate keys and lost answers, with an abstract specification
   (the caller is told of exactly the writes that happened) to refine.
3. SPP proposals: pairing and advancing in whatever order their plugins are
   crawled.
4. `MigrationRunner`: the status of a migration across crashes and concurrent
   starts.
5. `IncrementalCache`: cursors with overlap against writers in other processes.
6. Request and reply over the queue: late replies and abandoned consumers.
