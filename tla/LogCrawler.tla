---------------------------- MODULE LogCrawler -----------------------------
(***************************************************************************)
(* BlockchainLogCrawler.crawl with its ProgressTracker, LogProcessingEngine *)
(* and AdaptiveBatchSizeManager: crawlers that share one ConfigIndexer row *)
(* read the chain's logs range by range, run the event handlers and move   *)
(* the row's lastSync past every range they finished.                      *)
(*                                                                         *)
(* Two kinds of crawler exist in the services.  A plugin crawler           *)
(* (Pooling = FALSE) is built for one queue message, crawls up to the head *)
(* and then calls end().  The pooling crawler (Pooling = TRUE) is built    *)
(* once per network, stays OFFSET_TO_BLOCK behind the head and is crawled  *)
(* again at every tick, keeping shutdown, runCount and the batch manager.  *)
(* All of them are built with stopOnError.  Several run on one row when a  *)
(* message is delivered twice or a scheduler lock expires.                 *)
(***************************************************************************)
EXTENDS AdaptiveBatch, FiniteSets

CONSTANTS
    Workers,       \* the processes that crawl this row
    Pooling,       \* which of the two kinds of crawler they run
    FromBlock,     \* opts.fromBlock or the network's FROM_BLOCK
    MaxBlock,      \* bound: the chain stops growing here
    EventBlocks,   \* the blocks that hold an event the crawler is built for
    BatchEvents,   \* those whose event is configured with a batchHandler
    BatchThreshold,
    Offset,        \* OFFSET_TO_BLOCK
    Unsettled,     \* newest blocks whose logs a node may not show yet
    RangeThreshold \* BLOCK_LOW_RANGE, _MEDIUM_RANGE or _HIGH_RANGE

ASSUME LogCrawlerAssumption ==
    /\ Pooling \in BOOLEAN
    /\ FromBlock \in Nat \ {0}
    /\ MaxBlock \in Nat /\ FromBlock <= MaxBlock
    /\ EventBlocks \subseteq Nat /\ BatchEvents \subseteq EventBlocks
    /\ IsFiniteSet(EventBlocks)
    /\ BatchThreshold \in Nat \ {0}
    /\ Offset \in Nat /\ Unsettled \in Nat /\ RangeThreshold \in Nat
    \* The offset exists to stay behind blocks that may still change; crawlers
    \* without one are only safe on a chain whose head is settled.
    /\ Unsettled <= IF Pooling THEN Offset ELSE 0

VARIABLES
    head,      \* newest block of the chain
    lastSync,  \* the ConfigIndexer row's lastSync, NoRow before it is created
    ended,     \* the row's end flag
    handled,   \* event blocks whose handler has completed
    job,       \* per worker: the local state of crawl()
    crawler    \* per worker: the crawler instance

vars == <<head, lastSync, ended, handled, job, crawler>>

NoRow == -1

NewCrawler ==
    [shutdown |-> FALSE, runs |-> 0, batch |-> NewManager.current, manager |-> NewManager]

\* asked is for the properties: the highest lastSync that a save of this crawl
\* wrote without learning of it.
NoJob ==
    [pc |-> "idle", existing |-> FALSE, cur |-> 0, latest |-> 0, to |-> 0,
     strategy |-> "batch", retried |-> FALSE, todo |-> {}, asked |-> 0]

Init ==
    /\ head = FromBlock
    /\ lastSync = NoRow
    /\ ended = FALSE
    /\ handled = {}
    /\ job = [w \in Workers |-> NoJob]
    /\ crawler = [w \in Workers |-> NewCrawler]

-----------------------------------------------------------------------------
\* getOffsetToBlockNumber of the newest block.
Target == head - (IF Pooling THEN Offset ELSE 0)

EventsIn(from, to) == {b \in EventBlocks : from <= b /\ b <= to}

\* What a node may answer for a range: every event of the settled blocks and
\* any of the others.
Answers(from, to) ==
    {EventsIn(from, to) \ missed :
        missed \in SUBSET {b \in EventsIn(from, to) : b > head - Unsettled}}

GetStrategyBySituation(from, to, batch) ==
    IF to - from = 1 THEN "receipts"
    ELSE IF to - from + 1 <= RangeThreshold /\ 2 * (to - from + 1) <= batch
         THEN "withoutTopics"
    ELSE "batch"

\* calculateToBlock and resizeToBlock: only the runs after the first subtract
\* the block that makes the range as wide as the batch.
CalculateToBlock(cur, latest, batch, runs) ==
    Lesser(cur + batch - (IF runs > 1 THEN 1 ELSE 0), latest)

\* Mutation: the range may pass the newest block.
WithoutTopicsToBlockUncapped(cur, latest, batch) == cur + batch

WithoutTopicsToBlock(cur, latest, batch) == Lesser(cur + batch, latest)

Job(w, pc) == job[w].pc = pc

\* crawl() returns or breaks out of its loop.  The pooling crawler is idle
\* until its next tick; a plugin crawler goes on to end().
Left(latest) ==
    IF Pooling THEN NoJob ELSE [NoJob EXCEPT !.pc = "ending", !.latest = latest]

LeaveCrawl(w) == job' = [job EXCEPT ![w] = Left(@.latest)]

\* Mutation: a failed range is skipped.
CatchSkipsRange(w, unknown, asked) ==
    LET stop == crawler[w].shutdown \/ unknown
    IN /\ crawler' = [crawler EXCEPT ![w].shutdown = stop]
       /\ IF stop THEN LeaveCrawl(w)
          ELSE job' = [job EXCEPT ![w].pc = "loop", ![w].retried = TRUE, ![w].todo = {},
                                  ![w].cur = job[w].to + 1,
                                  ![w].asked = Greater(@, asked)]

\* The catch block of the loop: an error of no known kind sets shutdown, and
\* with stopOnError a crawler that is shut down leaves.  Otherwise the range is
\* crawled again, from the same current block.
Catch(w, unknown, asked) ==
    LET stop == crawler[w].shutdown \/ unknown
    IN /\ crawler' = [crawler EXCEPT ![w].shutdown = stop]
       /\ IF stop THEN LeaveCrawl(w)
          ELSE job' = [job EXCEPT ![w].pc = "loop", ![w].retried = TRUE, ![w].todo = {},
                                  ![w].asked = Greater(@, asked)]

-----------------------------------------------------------------------------
(* crawl(): reading where to start *)

\* Mutation: the row's lastSync is not read back.
ReadProgressFromScratch(w) ==
    /\ Job(w, "idle")
    /\ job' = [job EXCEPT ![w].pc = "started", ![w].cur = FromBlock]
    /\ crawler' = IF Pooling THEN crawler ELSE [crawler EXCEPT ![w] = NewCrawler]
    /\ UNCHANGED <<head, lastSync, ended, handled>>

ReadProgress(w) ==
    /\ Job(w, "idle")
    /\ job' = [job EXCEPT ![w].pc = "started",
                          ![w].existing = lastSync # NoRow,
                          ![w].cur = IF lastSync = NoRow THEN FromBlock ELSE lastSync]
    /\ crawler' = IF Pooling THEN crawler ELSE [crawler EXCEPT ![w] = NewCrawler]
    /\ UNCHANGED <<head, lastSync, ended, handled>>

\* Mutation: the offset to the newest block is forgotten.
ReadHeadWithoutOffset(w) ==
    /\ Job(w, "started")
    /\ job' = [job EXCEPT ![w].pc = "loop", ![w].latest = head,
                          ![w].strategy = GetStrategyBySituation(
                              job[w].cur, head, crawler[w].batch)]
    /\ UNCHANGED <<head, lastSync, ended, handled, crawler>>

\* The head is read after the row, in a request of its own.
ReadHead(w) ==
    /\ Job(w, "started")
    /\ IF job[w].existing /\ job[w].cur = Target
       THEN job' = [job EXCEPT ![w] = Left(Target)]
       ELSE job' = [job EXCEPT ![w].pc = "loop",
                               ![w].latest = Target,
                               ![w].strategy = GetStrategyBySituation(
                                   job[w].cur, Target, crawler[w].batch)]
    /\ UNCHANGED <<head, lastSync, ended, handled, crawler>>

\* A block number that cannot be read rejects crawl(); end() is not reached.
StartFails(w) ==
    /\ Job(w, "started")
    /\ job' = [job EXCEPT ![w] = NoJob]
    /\ UNCHANGED <<head, lastSync, ended, handled, crawler>>

\* updateAndCheckConditions holds: the next range is chosen and requested.
BeginRange(w) ==
    /\ Job(w, "loop")
    /\ job[w].latest > 0 /\ job[w].cur <= job[w].latest
    /\ LET runs == Lesser(crawler[w].runs + 1, 2)
           strategy == IF job[w].retried /\ job[w].strategy = "withoutTopics"
                       THEN "batch" ELSE job[w].strategy
           to == CASE strategy = "receipts" -> job[w].latest
                   [] strategy = "withoutTopics" ->
                        WithoutTopicsToBlock(job[w].cur, job[w].latest, crawler[w].batch)
                   [] OTHER ->
                        CalculateToBlock(job[w].cur, job[w].latest, crawler[w].batch, runs)
       IN /\ crawler' = [crawler EXCEPT ![w].runs = runs]
          /\ job' = [job EXCEPT ![w].pc = "fetch", ![w].strategy = strategy, ![w].to = to]
    /\ UNCHANGED <<head, lastSync, ended, handled>>

LoopEnds(w) ==
    /\ Job(w, "loop")
    /\ ~(job[w].latest > 0 /\ job[w].cur <= job[w].latest)
    /\ LeaveCrawl(w)
    /\ UNCHANGED <<head, lastSync, ended, handled, crawler>>

-----------------------------------------------------------------------------
(* getLogsByBatch.  A rate limited answer is asked again without waiting *)
(* (stopOnError never backs off): it changes nothing.                    *)

\* Mutation: a successful answer leaves shutdown as an earlier crawl set it.
BatchFetchedKeepsShutdown(w) ==
    /\ Job(w, "fetch") /\ job[w].strategy = "batch"
    /\ \E logs \in Answers(job[w].cur, job[w].to) :
         IF crawler[w].shutdown THEN LeaveCrawl(w)
         ELSE job' = [job EXCEPT ![w].pc = "process", ![w].todo = logs]
    /\ UNCHANGED <<head, lastSync, ended, handled, crawler>>

BatchFetched(w) ==
    /\ Job(w, "fetch") /\ job[w].strategy = "batch"
    /\ \E logs \in Answers(job[w].cur, job[w].to) :
         /\ job' = [job EXCEPT ![w].pc = "process", ![w].todo = logs]
         /\ crawler' = [crawler EXCEPT
              ![w].shutdown = FALSE,
              ![w].manager = RecordSuccess(@, Cardinality(logs),
                                           job[w].to - job[w].cur + 1)]
    /\ UNCHANGED <<head, lastSync, ended, handled>>

\* The RPC finds the range or its answer too large: a narrower range is tried,
\* and the crawl stops once the batch is a single block.
BatchTooWide(w) ==
    /\ Job(w, "fetch") /\ job[w].strategy = "batch"
    /\ LET manager == RecordBatchSizeError(crawler[w].manager)
           stop == manager.current <= 1
       IN /\ crawler' = [crawler EXCEPT ![w].manager = manager,
                                        ![w].batch = manager.current,
                                        ![w].shutdown = @ \/ stop]
          /\ IF stop THEN LeaveCrawl(w)
             ELSE job' = [job EXCEPT ![w].to =
                    CalculateToBlock(job[w].cur, job[w].latest, manager.current,
                                     crawler[w].runs)]
    /\ UNCHANGED <<head, lastSync, ended, handled>>

\* Any other failed answer, an exception of the request or of filterLogs.
BatchFails(w) ==
    /\ Job(w, "fetch") /\ job[w].strategy = "batch"
    /\ crawler' = [crawler EXCEPT ![w].shutdown = TRUE]
    /\ LeaveCrawl(w)
    /\ UNCHANGED <<head, lastSync, ended, handled>>

(* getLogsWithoutTopics and getLogsByBlockReceipts; the latter falls back on *)
(* the former when some receipts are missing.                                *)

RangeFetched(w) ==
    /\ Job(w, "fetch") /\ job[w].strategy # "batch"
    /\ \E to \in {job[w].to,
                  WithoutTopicsToBlock(job[w].cur, job[w].latest, crawler[w].batch)} :
       \E logs \in Answers(job[w].cur, to) :
         IF crawler[w].shutdown THEN LeaveCrawl(w)
         ELSE job' = [job EXCEPT ![w].pc = "process", ![w].to = to, ![w].todo = logs]
    /\ UNCHANGED <<head, lastSync, ended, handled, crawler>>

\* getLogs throws, into the catch block of the loop.
RangeFails(w) ==
    /\ Job(w, "fetch") /\ job[w].strategy # "batch"
    /\ \E unknown \in BOOLEAN : Catch(w, unknown, 0)
    /\ UNCHANGED <<head, lastSync, ended, handled>>

\* The receipts request throws: swallowed, with shutdown set.
ReceiptsFail(w) ==
    /\ Job(w, "fetch") /\ job[w].strategy = "receipts"
    /\ crawler' = [crawler EXCEPT ![w].shutdown = TRUE]
    /\ LeaveCrawl(w)
    /\ UNCHANGED <<head, lastSync, ended, handled>>

-----------------------------------------------------------------------------
(* processLogs: the events without a batch handler one by one in block order, *)
(* then the others, in one call when there are at least BATCH_THRESHOLD.      *)

Lowest(S) == {b \in S : \A c \in S : b <= c}

NextHandled(todo) ==
    LET single == todo \ BatchEvents
    IN IF single # {} THEN Lowest(single)
       ELSE IF Cardinality(todo) >= BatchThreshold THEN todo ELSE Lowest(todo)

HandleLogs(w) ==
    /\ Job(w, "process") /\ job[w].todo # {}
    /\ LET done == NextHandled(job[w].todo)
       IN /\ handled' = handled \cup done
          /\ job' = [job EXCEPT ![w].todo = @ \ done]
    /\ UNCHANGED <<head, lastSync, ended, crawler>>

\* With stopOnError the engine rethrows.  A batch handler may have applied some
\* of its events by then; they are handled again with the range.
HandlerFails(w) ==
    /\ Job(w, "process") /\ job[w].todo # {}
    /\ \E unknown \in BOOLEAN : Catch(w, unknown, 0)
    /\ UNCHANGED <<head, lastSync, ended, handled>>

(* saveProgress: find the row, then $max it or create it, two requests. *)

\* Mutation: the progress is saved while handlers are still running.
FindRowEarly(w) ==
    /\ Job(w, "process")
    /\ job' = [job EXCEPT ![w].pc = IF lastSync = NoRow THEN "create" ELSE "update"]
    /\ UNCHANGED <<head, lastSync, ended, handled, crawler>>

FindRow(w) ==
    /\ Job(w, "process") /\ job[w].todo = {}
    /\ job' = [job EXCEPT ![w].pc = IF lastSync = NoRow THEN "create" ELSE "update"]
    /\ UNCHANGED <<head, lastSync, ended, handled, crawler>>

\* What crawl() does once the range is saved.
NextRange(w) ==
    LET manager == ResetForNextRange(crawler[w].manager)
    IN /\ crawler' = [crawler EXCEPT ![w].manager = manager, ![w].batch = manager.current]
       /\ IF job[w].to + 1 >= job[w].latest THEN LeaveCrawl(w)
          ELSE job' = [job EXCEPT ![w].pc = "loop", ![w].cur = job[w].to + 1]

\* Mutation: $set instead of $max.
UpdateRowOverwrites(w) ==
    /\ Job(w, "update")
    /\ lastSync' = job[w].to + 1
    /\ NextRange(w)
    /\ UNCHANGED <<head, ended, handled>>

UpdateRow(w) ==
    /\ Job(w, "update")
    /\ lastSync' = Greater(lastSync, job[w].to + 1)
    /\ NextRange(w)
    /\ UNCHANGED <<head, ended, handled>>

\* Mutation: the row is created at the target of the crawl, not of the range.
CreateRowAtLatest(w) ==
    /\ Job(w, "create") /\ lastSync = NoRow
    /\ lastSync' = job[w].latest + 1
    /\ NextRange(w)
    /\ UNCHANGED <<head, ended, handled>>

CreateRow(w) ==
    /\ Job(w, "create") /\ lastSync = NoRow
    /\ lastSync' = job[w].to + 1
    /\ NextRange(w)
    /\ UNCHANGED <<head, ended, handled>>

\* Another worker created the row since FindRow: the unique id refuses it.
CreateConflicts(w) ==
    /\ Job(w, "create") /\ lastSync # NoRow
    /\ Catch(w, TRUE, 0)
    /\ UNCHANGED <<head, lastSync, ended, handled>>

\* One of the two requests fails without effect.
SaveFails(w) ==
    /\ \/ Job(w, "process") /\ job[w].todo = {}
       \/ Job(w, "update") \/ Job(w, "create")
    /\ \E unknown \in BOOLEAN : Catch(w, unknown, 0)
    /\ UNCHANGED <<head, lastSync, ended, handled>>

\* The row is written but the answer is lost: the crawl keeps its current block
\* behind the row and, unless it leaves, handles the saved range again.
SaveUnanswered(w) ==
    /\ Job(w, "update") \/ (Job(w, "create") /\ lastSync = NoRow)
    /\ lastSync' = Greater(lastSync, job[w].to + 1)
    /\ \E unknown \in BOOLEAN : Catch(w, unknown, job[w].to + 1)
    /\ UNCHANGED <<head, ended, handled>>

\* end() of a plugin crawler, whatever made crawl() return.
MarkAsEnded(w) ==
    /\ Job(w, "ending")
    /\ ended' = (ended \/ lastSync # NoRow)
    /\ job' = [job EXCEPT ![w] = NoJob]
    /\ UNCHANGED <<head, lastSync, handled, crawler>>

\* The process stops; it comes back with a new crawler.
Crash(w) ==
    /\ ~Job(w, "idle")
    /\ job' = [job EXCEPT ![w] = NoJob]
    /\ crawler' = [crawler EXCEPT ![w] = NewCrawler]
    /\ UNCHANGED <<head, lastSync, ended, handled>>

Mine ==
    /\ head < MaxBlock
    /\ head' = head + 1
    /\ UNCHANGED <<lastSync, ended, handled, job, crawler>>

-----------------------------------------------------------------------------
Fetch(w) == BatchFetched(w) \/ RangeFetched(w)
FetchFails(w) == BatchTooWide(w) \/ BatchFails(w) \/ RangeFails(w) \/ ReceiptsFail(w)
Save(w) == UpdateRow(w) \/ CreateRow(w) \/ CreateConflicts(w)
Control(w) == ReadProgress(w) \/ ReadHead(w) \/ BeginRange(w) \/ LoopEnds(w) \/ FindRow(w)

Step(w) ==
    \/ Control(w) \/ StartFails(w)
    \/ Fetch(w) \/ FetchFails(w)
    \/ HandleLogs(w) \/ HandlerFails(w)
    \/ Save(w) \/ SaveFails(w) \/ SaveUnanswered(w)
    \/ MarkAsEnded(w) \/ Crash(w)

Next == Mine \/ \E w \in Workers : Step(w)

Spec == Init /\ [][Next]_vars

\* Fairness for the liveness properties.  The process keeps running and its
\* timer keeps firing; a request, a handler or a write that is tried again and
\* again succeeds at some time, for every block of its own.
Fairness ==
    \A w \in Workers :
        /\ WF_vars(Control(w))
        /\ SF_vars(ReadHead(w))
        /\ SF_vars(BatchFetched(w))
        /\ SF_vars(RangeFetched(w))
        /\ SF_vars(FindRow(w))
        /\ SF_vars(UpdateRow(w))
        /\ SF_vars(CreateRow(w))
        /\ \A b \in EventBlocks :
              SF_vars(HandleLogs(w) /\ b \in NextHandled(job[w].todo))

\* and it does not crash for ever
CrashesStop == <>[][\A w \in Workers : ~Crash(w)]_vars

FairSpec == Spec /\ WF_vars(Mine) /\ Fairness /\ CrashesStop

-----------------------------------------------------------------------------
Strategies == {"batch", "withoutTopics", "receipts"}

JobStates ==
    [pc : {"idle", "started", "loop", "fetch", "process", "update", "create", "ending"},
     existing : BOOLEAN, cur : Nat, latest : Int, to : Nat,
     strategy : Strategies, retried : BOOLEAN, todo : SUBSET EventBlocks, asked : Nat]

CrawlerStates ==
    [shutdown : BOOLEAN, runs : 0 .. 2, batch : Nat, manager : ManagerStates]

TypeOK ==
    /\ head \in FromBlock .. MaxBlock
    /\ lastSync \in Nat \cup {NoRow}
    /\ ended \in BOOLEAN
    /\ handled \subseteq EventBlocks
    /\ job \in [Workers -> JobStates]
    /\ crawler \in [Workers -> CrawlerStates]

HandledBelow(block, done) ==
    \A b \in EventBlocks : FromBlock <= b /\ b < block => b \in done

\* What crawl() has established at each of its awaits, given the handled events
\* and the newest block a crawl may reach.
JobSound(j, done, target) ==
    /\ j.pc \notin {"idle", "ending"} => FromBlock <= j.cur /\ HandledBelow(j.cur, done)
    /\ j.pc \in {"loop", "fetch", "process", "update", "create"} => j.latest <= target
    /\ j.pc \in {"fetch", "process", "update", "create"} => j.cur <= j.to /\ j.to <= j.latest
    /\ j.pc = "process" => EventsIn(j.cur, j.to) \subseteq done \cup j.todo
    /\ j.pc \in {"update", "create"} => EventsIn(j.cur, j.to) \subseteq done

CrawlerSound(c) == WellSized(c.manager) /\ 1 <= c.batch

RowSound ==
    lastSync # NoRow =>
        FromBlock <= lastSync /\ lastSync <= Target + 1 /\ HandledBelow(lastSync, handled)

\* The inductive invariant behind NoGap and CheckpointBehindHead: at every await
\* of every worker, all events below its current block are handled and those of
\* its range are handled or still to do.
CrawlInvariant ==
    /\ TypeOK
    /\ RowSound
    /\ \A w \in Workers : JobSound(job[w], handled, Target) /\ CrawlerSound(crawler[w])

\* Every event below the row's lastSync has been handled: no failed fetch,
\* failed handler, crash, retry with a narrower range, strategy switch or
\* concurrent crawler lets the checkpoint pass an event nobody has processed.
\* A crawl restarts at lastSync, so an event it passed over would be lost.
NoGap == \A b \in EventBlocks : FromBlock <= b /\ b < lastSync => b \in handled

\* The checkpoint stays OFFSET_TO_BLOCK behind the head, whatever a worker read
\* of the head before other workers moved the row.
CheckpointBehindHead == lastSync # NoRow => lastSync <= Target + 1

\* saveProgress never moves the row back ("For concurrent updates, always keeps
\* the highest block number"), also when a slow worker saves an older range or
\* two of them find no row.
CheckpointNeverRegresses == [][lastSync <= lastSync']_lastSync

Checkpoint ==
    INSTANCE ReliableCheckpoint WITH checkpoint <- lastSync, NoCheckpoint <- NoRow

\* The crawlers of a row, with all they do in ranges, strategies and retries and
\* whatever fails, implement a checkpoint that moves up over handled events only:
\* every write of the row's lastSync is one, and handlers run in steps of their
\* own before it.
ImplementsCheckpoint == Checkpoint!Spec

\* A lone crawler never runs a handler for a block below the checkpoint, except
\* in a crawl that goes on after a save whose answer was lost, for the blocks of
\* that save: what it replays after any other error, or after a crash, is only the
\* range that was not saved.
NothingSavedIsReplayed ==
    \A w \in Workers : Job(w, "process") =>
        \A b \in job[w].todo : lastSync <= b \/ b < job[w].asked

\* An event RangeThreshold or more blocks below the crawl's target is handled
\* eventually, however many requests, handlers and writes fail before.
LaggingEventsAreHandled ==
    \A b \in EventBlocks :
        (FromBlock <= b /\ b + RangeThreshold <= Target) ~> b \in handled

=============================================================================
