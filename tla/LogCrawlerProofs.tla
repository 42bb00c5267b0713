------------------------- MODULE LogCrawlerProofs --------------------------
(***************************************************************************)
(* For every set of workers, chain, set of events and batch configuration: *)
(* the checkpoint never passes an unhandled event, stays behind the head   *)
(* and never moves back, and a crawl that is alone on its row hands no      *)
(* event to its handler again once it knows that the progress was saved.   *)
(*                                                                         *)
(* First what the methods of AdaptiveBatchSizeManager preserve, for every  *)
(* configuration: lemmas about a manager state, and the theorems about a   *)
(* manager whose methods are called in any order (AdaptiveBatchAlone).     *)
(***************************************************************************)
EXTENDS LogCrawler, AdaptiveBatchAlone, FiniteSetTheorems, TLAPS

USE AdaptiveBatchAssumption

-----------------------------------------------------------------------------
(* The batch manager: the operators *)

\* The configured sizes, once clamped, keep their order.
LEMMA ConfiguredSizes ==
    /\ MinBatch \in Nat /\ InitialBatch \in Nat /\ MaxBatch \in Nat /\ Ceiling \in Nat
    /\ 1 <= MinBatch /\ MinBatch <= InitialBatch
    /\ InitialBatch <= MaxBatch /\ MaxBatch <= Ceiling
    /\ \A b \in Buckets : Heuristic(b) \in Nat /\ MinBatch <= Heuristic(b)
BY DEF MinBatch, InitialBatch, MaxBatch, Ceiling, Heuristic, CapToMaxBlockRange,
       Lesser, Buckets

\* Integer division by a positive divisor shrinks.
LEMMA DivisionShrinks ==
    ASSUME NEW a \in Nat, NEW d \in Nat \ {0}
    PROVE  a \div d \in Nat /\ a \div d <= a
OBVIOUS

\* The interpolation between the last successful and the initial size stays
\* between the two.
LEMMA TargetBetween ==
    ASSUME NEW last \in Nat, NEW orig \in Nat, NEW k \in 0 .. 10,
           NEW lo \in Nat, NEW hi \in Nat,
           lo <= last, lo <= orig, last <= hi, orig <= hi
    PROVE  LET t == (10 * last + (orig - last) * k) \div 10
           IN t \in Nat /\ lo <= t /\ t <= hi
<1>1. 10 * last + (orig - last) * k = (10 - k) * last + k * orig
  OBVIOUS
<1>2. (10 - k) * lo <= (10 - k) * last /\ (10 - k) * last <= (10 - k) * hi
  OBVIOUS
<1>3. k * lo <= k * orig /\ k * orig <= k * hi
  OBVIOUS
<1> QED
  BY <1>1, <1>2, <1>3

\* The sizes a prediction returns are at least the minimum.
LEMMA Prediction ==
    ASSUME NEW m \in ManagerStates,
           \A b \in Buckets : m.learned[b] > 0 => InBounds(m.learned[b])
    PROVE  PredictOptimalBatchSize(m) \in Nat /\ MinBatch <= PredictOptimalBatchSize(m)
BY ConfiguredSizes DEF PredictOptimalBatchSize, ManagerStates, InBounds, Buckets

\* getSkipAheadBatchSize never exceeds the ceiling.
LEMMA SkipAheadBounded ==
    ASSUME NEW m \in ManagerStates, InBounds(m.current)
    PROVE  SkipAheadBatchSize(m) <= Ceiling
BY ConfiguredSizes
DEF SkipAheadBatchSize, CapToMaxBlockRange, Lesser, InBounds, Ceiling, ManagerStates

-----------------------------------------------------------------------------
\* recordSuccess: what is observed is typed, and the sizes it remembers are the
\* current one.
LEMMA ObservedKeepsBounds ==
    ASSUME NEW m, WellSized(m), NEW events \in Nat, NEW blocks \in Nat
    PROVE  LET o == Observed(m, events, blocks)
           IN /\ o \in ManagerStates
              /\ InBounds(o.current)
              /\ InBounds(o.lastSuccessful)
              /\ \A b \in Buckets : o.learned[b] > 0 => InBounds(o.learned[b])
<1> DEFINE k == DensityBucket(events, blocks)
           o == Observed(m, events, blocks)
           L == LearnOptimalBatchSize(m.learned, k, m.current)
<1>1. k \in Buckets
  BY DEF DensityBucket, Buckets
<1>2. m \in ManagerStates /\ InBounds(m.current)
  BY DEF WellSized
<1>3. L \in [Buckets -> Nat]
      /\ \A b \in Buckets : L[b] > 0 => InBounds(L[b])
  <2>1. m.learned \in [Buckets -> Nat] /\ m.current \in Nat
    BY <1>2 DEF ManagerStates
  <2>2. \A b \in Buckets : m.learned[b] > 0 => InBounds(m.learned[b])
    BY DEF WellSized
  <2>3. L = [m.learned EXCEPT ![k] = Greater(@, m.current)]
    BY DEF LearnOptimalBatchSize
  <2> QED
    BY <1>1, <1>2, <2>1, <2>2, <2>3 DEF Greater
<1> HIDE DEF k, L
<1>4. /\ o.current = m.current
      /\ o.lastSuccessful = m.current
      /\ o.learned = L
      /\ o \in ManagerStates
  <2> DEFINE s == Lesser(m.successes + 1, 10)
             e == IF events = 0 THEN Lesser(m.empties + 1, 5) ELSE 0
             h == m.highActivity
                    /\ ~(10 * events < DensityTenths[2] * blocks /\ s >= 3)
             f == events > 0
  <2>1. o = [m EXCEPT !.successes = s, !.errors = 0, !.empties = e,
                            !.highActivity = h, !.lastSuccessful = m.current,
                            !.eventful = f, !.bucket = k, !.learned = L]
    BY DEF Observed, k, L
  <2>2. s \in 0 .. 10 /\ e \in 0 .. 5
    BY <1>2 DEF ManagerStates, Lesser
  <2>3. h \in BOOLEAN /\ f \in BOOLEAN
    OBVIOUS
  <2>4. 0 \in 0 .. 3
    OBVIOUS
  <2> HIDE DEF o, s, e, h, f
  <2>5. o \in ManagerStates
    BY <1>1, <1>2, <1>3, <2>1, <2>2, <2>3, <2>4, Zenon DEF ManagerStates
  <2> QED
    BY <1>1, <1>2, <1>3, <2>1, <2>2, <2>3, <2>5 DEF ManagerStates
<1> QED
  BY <1>2, <1>3, <1>4

\* recordSuccess keeps the batch in its bounds, whether it jumps, grows or stays.
LEMMA SuccessKeepsBounds ==
    ASSUME NEW m, WellSized(m), NEW events \in Nat, NEW blocks \in Nat
    PROVE  WellSized(RecordSuccess(m, events, blocks))
<1> DEFINE o == Observed(m, events, blocks)
<1> DEFINE r == RecordSuccess(m, events, blocks)
<1>1. /\ o \in ManagerStates
      /\ InBounds(o.current)
      /\ InBounds(o.lastSuccessful)
      /\ \A b \in Buckets : o.learned[b] > 0 => InBounds(o.learned[b])
  BY ObservedKeepsBounds
<1> DEFINE c == IF o.empties >= 5 /\ ~o.highActivity THEN JumpSize(o)
                ELSE IF ShouldGrowBatchSize(o) THEN GrownBatchSize(o) ELSE o.current
<1>2. r = [o EXCEPT !.current = c]
  BY DEF RecordSuccess
<1> HIDE DEF o
<1>3. JumpSize(o) \in Nat /\ InBounds(JumpSize(o))
  BY <1>1, ConfiguredSizes
  DEF JumpSize, InBounds, CapToMaxBlockRange, Lesser, Ceiling, MaxBatch, MinBatch,
      ManagerStates
<1>4. GrownBatchSize(o) \in Nat /\ InBounds(GrownBatchSize(o))
  <2>1. o.current \in Nat /\ o.successes \in 0 .. 10
    BY <1>1 DEF ManagerStates
  <2> DEFINE p == GrowthPercent * o.successes
             g == (o.current * (1000 + p)) \div 1000
  <2>2. p \in Nat
    BY <2>1
  <2> HIDE DEF p
  <2>3. o.current * (1000 + p) = 1000 * o.current + o.current * p
        /\ o.current * p \in Nat
    BY <2>1, <2>2
  <2>4. g \in Nat /\ g >= o.current
    BY <2>1, <2>3
  <2>5. GrownBatchSize(o) = Lesser(g, MaxBatch)
    BY DEF GrownBatchSize, p
  <2> HIDE DEF g
  <2> QED
    BY <1>1, <2>1, <2>4, <2>5, ConfiguredSizes DEF InBounds, Lesser
<1>5. c \in Nat /\ InBounds(c)
  BY <1>1, <1>3, <1>4 DEF ManagerStates
<1> HIDE DEF c
<1>6. /\ r \in ManagerStates
      /\ r.current = c
      /\ r.lastSuccessful = o.lastSuccessful
      /\ r.learned = o.learned
  BY <1>1, <1>2, <1>5 DEF ManagerStates
<1> QED
  BY <1>1, <1>5, <1>6 DEF WellSized, InBounds

\* recordBatchSizeError: the reduced batch is at least the minimum and never
\* wider than the refused one.
LEMMA ErrorKeepsBounds ==
    ASSUME NEW m, WellSized(m)
    PROVE  /\ WellSized(RecordBatchSizeError(m))
           /\ RecordBatchSizeError(m).current <= m.current
<1> DEFINE r == RecordBatchSizeError(m)
<1>1. m \in ManagerStates /\ InBounds(m.current)
      /\ InBounds(m.lastSuccessful)
      /\ \A b \in Buckets : m.learned[b] > 0 => InBounds(m.learned[b])
  BY DEF WellSized
<1> DEFINE n == Lesser(m.errors + 1, 3)
           h == m.highActivity \/ n >= 2
           c == Greater(m.current \div (ReductionFactor * n), MinBatch)
<1>2. r = [m EXCEPT !.errors = n, !.successes = 0, !.empties = 0,
                                 !.highActivity = h, !.current = c]
  BY DEF RecordBatchSizeError
<1>3. n \in 1 .. 3 /\ 0 \in 0 .. 10 /\ 0 \in 0 .. 5
  BY <1>1 DEF ManagerStates, Lesser
<1>4. h \in BOOLEAN
  OBVIOUS
<1>5. c \in Nat /\ InBounds(c) /\ c <= m.current
  <2>1. m.current \in Nat
    BY <1>1 DEF ManagerStates
  <2>2. ReductionFactor * n \in Nat \ {0}
    BY <1>3
  <2>3. m.current \div (ReductionFactor * n) \in Nat
        /\ m.current \div (ReductionFactor * n) <= m.current
    BY <2>1, <2>2, DivisionShrinks
  <2> QED
    BY <1>1, <2>1, <2>3, ConfiguredSizes DEF Greater, InBounds
<1>6. n \in 0 .. 3
  BY <1>3
<1> HIDE DEF n, h, c
<1>7. r \in ManagerStates
  BY <1>1, <1>2, <1>3, <1>4, <1>5, <1>6, Zenon DEF ManagerStates
<1>8. /\ r.current = c
      /\ r.lastSuccessful = m.lastSuccessful
      /\ r.learned = m.learned
  BY <1>1, <1>2 DEF ManagerStates
<1> QED
  BY <1>1, <1>5, <1>7, <1>8 DEF WellSized, InBounds

\* resetForNextRange: the size for the next range is in bounds, and in a high
\* activity zone it is at most the last successful one.
LEMMA ResetKeepsBounds ==
    ASSUME NEW m, WellSized(m)
    PROVE  /\ WellSized(ResetForNextRange(m))
           /\ m.highActivity => ResetForNextRange(m).current <= m.lastSuccessful
<1> DEFINE r == ResetForNextRange(m)
<1>1. m \in ManagerStates /\ InBounds(m.current)
      /\ InBounds(m.lastSuccessful)
      /\ \A b \in Buckets : m.learned[b] > 0 => InBounds(m.learned[b])
  BY DEF WellSized
<1>2. m.lastSuccessful \in Nat /\ m.successes \in 0 .. 10
  BY <1>1 DEF ManagerStates
<1> DEFINE p == PredictOptimalBatchSize(m)
           i == (10 * m.lastSuccessful
                   + (InitialBatch - m.lastSuccessful) * m.successes) \div 10
           c == IF m.highActivity THEN Lesser(m.lastSuccessful, p)
                ELSE CalculateTargetBatchSize(m)
<1>3. p \in Nat /\ MinBatch <= p
  BY <1>1, Prediction
<1>4. i \in Nat /\ InBounds(i)
  BY <1>1, <1>2, ConfiguredSizes, TargetBetween DEF InBounds
<1> HIDE DEF p, i
<1>5. c \in Nat /\ InBounds(c)
      /\ (m.highActivity => c <= m.lastSuccessful)
  <2>1. CalculateTargetBatchSize(m) \in {Lesser(2 * p, InitialBatch), i}
    BY DEF CalculateTargetBatchSize, p, i
  <2> QED
    BY <1>1, <1>2, <1>3, <1>4, <2>1, ConfiguredSizes DEF InBounds, Lesser
<1>6. r = [m EXCEPT !.current = c, !.successes = 0, !.errors = 0]
  BY DEF ResetForNextRange, p
<1> HIDE DEF c
<1>7. 0 \in 0 .. 10 /\ 0 \in 0 .. 3
  OBVIOUS
<1>8. r \in ManagerStates
  BY <1>1, <1>5, <1>6, <1>7, Zenon DEF ManagerStates
<1>9. /\ r.current = c
      /\ r.lastSuccessful = m.lastSuccessful
      /\ r.learned = m.learned
  BY <1>1, <1>6 DEF ManagerStates
<1> QED
  BY <1>1, <1>5, <1>8, <1>9 DEF WellSized, InBounds

\* A new manager is within bounds.
LEMMA NewManagerWellSized == WellSized(NewManager)
<1>1. 0 \in 0 .. 10 /\ 0 \in 0 .. 3 /\ 0 \in 0 .. 5 /\ 0 \in Buckets
      /\ [b \in Buckets |-> 0] \in [Buckets -> Nat]
  BY DEF Buckets
<1>2. NewManager \in ManagerStates
  BY <1>1, ConfiguredSizes, Zenon DEF NewManager, ManagerStates
<1>3. /\ NewManager.current = InitialBatch /\ NewManager.lastSuccessful = InitialBatch
      /\ \A b \in Buckets : NewManager.learned[b] = 0
  BY DEF NewManager
<1> QED
  BY <1>2, <1>3, ConfiguredSizes DEF WellSized, InBounds

-----------------------------------------------------------------------------
(* A manager on its own *)

USE MaxEventsAssumption

ManagerInv == ManagerTypeOK /\ BatchWithinBounds

\* A new manager is in bounds.
LEMMA InitInBounds == ManagerInit => ManagerInv
BY NewManagerWellSized, SkipAheadBounded
DEF ManagerInit, ManagerInv, ManagerTypeOK, BatchWithinBounds, WellSized

\* Every call keeps the manager in bounds.
LEMMA NextKeepsBounds == ManagerInv /\ [ManagerNext]_manager => ManagerInv'
<1> SUFFICES ASSUME ManagerInv, [ManagerNext]_manager PROVE WellSized(manager)'
  BY SkipAheadBounded DEF ManagerInv, ManagerTypeOK, BatchWithinBounds, WellSized
<1>1. WellSized(manager)
  BY DEF ManagerInv, BatchWithinBounds
<1>2. ASSUME NEW events \in 0 .. MaxEvents, NEW blocks \in 1 .. Ceiling + 1,
             Success(events, blocks)
      PROVE  WellSized(manager)'
  <2>1. events \in Nat /\ blocks \in Nat
    BY ConfiguredSizes
  <2> QED
    BY <1>1, <1>2, <2>1, SuccessKeepsBounds DEF Success
<1>3. CASE BatchSizeError
  BY <1>1, <1>3, ErrorKeepsBounds DEF BatchSizeError
<1>4. CASE Reset
  BY <1>1, <1>4, ResetKeepsBounds DEF Reset
<1>5. CASE UNCHANGED manager
  BY <1>1, <1>5
<1> QED
  BY <1>2, <1>3, <1>4, <1>5 DEF ManagerNext

\* The batch the crawler uses, the last one that succeeded and every learned one
\* stay between the configured minimum and the ceiling, for every configuration
\* and every order of recordSuccess, recordBatchSizeError and resetForNextRange.
THEOREM BatchStaysWithinBounds == ManagerSpec => [](ManagerTypeOK /\ BatchWithinBounds)
<1>1. ManagerInit => ManagerInv
  BY InitInBounds
<1>2. ManagerInv /\ [ManagerNext]_manager => ManagerInv'
  BY NextKeepsBounds
<1> QED
  BY <1>1, <1>2, PTL DEF ManagerSpec, ManagerInv

\* A batch size error never makes the next query wider.
THEOREM ErrorsNarrow == ManagerSpec => ErrorNeverWidens
<1>1. ManagerInv /\ [ManagerNext]_manager => [BatchSizeError => manager'.current <= manager.current]_manager
  BY ErrorKeepsBounds DEF ManagerInv, BatchWithinBounds, BatchSizeError
<1> QED
  BY <1>1, InitInBounds, NextKeepsBounds, PTL DEF ManagerSpec, ErrorNeverWidens

\* While the zone lasts, a success leaves the batch alone, an error narrows it
\* and a reset returns at most to the last accepted size.
THEOREM HighActivityStaysConservative == ManagerSpec => HighActivityIsConservative
<1> DEFINE A == manager.highActivity /\ manager'.highActivity =>
                  \/ manager'.current <= manager.current
                  \/ manager'.current <= manager.lastSuccessful
<1>1. ManagerInv /\ [ManagerNext]_manager => [A]_manager
  <2> SUFFICES ASSUME ManagerInv, ManagerNext, manager.highActivity, manager'.highActivity
               PROVE  \/ manager'.current <= manager.current
                      \/ manager'.current <= manager.lastSuccessful
    OBVIOUS
  <2>1. WellSized(manager) /\ manager \in ManagerStates
    BY DEF ManagerInv, BatchWithinBounds, WellSized
  <2>2. ASSUME NEW events \in 0 .. MaxEvents, NEW blocks \in 1 .. Ceiling + 1,
               Success(events, blocks)
        PROVE  manager'.current <= manager.current
    <3> DEFINE o == Observed(manager, events, blocks)
    <3>1. events \in Nat /\ blocks \in Nat
      BY ConfiguredSizes
    <3>2. o \in ManagerStates /\ o.current = manager.current
      BY <2>1, <3>1, ObservedKeepsBounds DEF Observed, ManagerStates
    <3> HIDE DEF o
    <3>3. manager' = [o EXCEPT !.current =
                        IF o.empties >= 5 /\ ~o.highActivity THEN JumpSize(o)
                        ELSE IF ShouldGrowBatchSize(o) THEN GrownBatchSize(o)
                        ELSE o.current]
      BY <2>2 DEF Success, RecordSuccess, o
    <3>4. o.highActivity
      BY <3>2, <3>3 DEF ManagerStates
    <3>5. manager'.current = o.current
      BY <3>2, <3>3, <3>4 DEF ShouldGrowBatchSize, ManagerStates
    <3> QED
      BY <2>1, <3>2, <3>5 DEF ManagerStates
  <2>3. CASE BatchSizeError
    BY <2>1, <2>3, ErrorKeepsBounds DEF BatchSizeError
  <2>4. CASE Reset
    BY <2>1, <2>4, ResetKeepsBounds DEF Reset
  <2> QED
    BY <2>2, <2>3, <2>4 DEF ManagerNext
<1> QED
  BY <1>1, InitInBounds, NextKeepsBounds, PTL DEF ManagerSpec, HighActivityIsConservative

-----------------------------------------------------------------------------
USE LogCrawlerAssumption

-----------------------------------------------------------------------------
(* The crawler: facts about the operators *)

\* A node that is at most Unsettled blocks behind answers in full for a range
\* below the target.
LEMMA AnswersAreComplete ==
    ASSUME head \in Nat, NEW from \in Nat, NEW to \in Nat, to <= Target,
           NEW logs \in Answers(from, to)
    PROVE  logs = EventsIn(from, to)
<1>1. PICK missed \in SUBSET {b \in EventsIn(from, to) : b > head - Unsettled} :
        logs = EventsIn(from, to) \ missed
  BY DEF Answers
<1>2. to <= head - Unsettled
  BY DEF Target
<1>3. missed = {}
  BY <1>1, <1>2 DEF EventsIn
<1> QED
  BY <1>1, <1>3

\* The range a crawl requests starts at its current block and stays in the crawl.
LEMMA RangeEnds ==
    \A cur \in Nat, latest \in Int, batch \in Nat, runs \in 0 .. 2 :
        cur <= latest /\ 1 <= batch =>
            /\ CalculateToBlock(cur, latest, batch, runs) \in cur .. latest
            /\ WithoutTopicsToBlock(cur, latest, batch) \in cur .. latest
BY DEF CalculateToBlock, WithoutTopicsToBlock, Lesser

\* Handlers run for fetched events only.
LEMMA NextHandledIsFetched ==
    ASSUME NEW todo PROVE NextHandled(todo) \subseteq todo
BY DEF NextHandled, Lowest

\* Once the events of the range are handled, all up to its end are.
LEMMA RangeExtends ==
    ASSUME NEW cur \in Nat, NEW to \in Nat, NEW done, HandledBelow(cur, done),
           EventsIn(cur, to) \subseteq done
    PROVE  HandledBelow(to + 1, done)
BY DEF HandledBelow, EventsIn

\* What a step of one worker has to establish: the other workers' jobs are
\* untouched and only gain from the events it handles.
LEMMA WorkerStep ==
    ASSUME CrawlInvariant, NEW w \in Workers,
           NEW j \in JobStates, NEW c \in CrawlerStates,
           job' = [job EXCEPT ![w] = j], crawler' = [crawler EXCEPT ![w] = c],
           head' = head, handled \subseteq handled', handled' \subseteq EventBlocks,
           ended' \in BOOLEAN, lastSync' \in Nat \cup {NoRow},
           JobSound(j, handled', Target), CrawlerSound(c), RowSound'
    PROVE  CrawlInvariant'
<1>1. job \in [Workers -> JobStates] /\ crawler \in [Workers -> CrawlerStates]
      /\ head \in FromBlock .. MaxBlock
  BY DEF CrawlInvariant, TypeOK
<1>2. job' \in [Workers -> JobStates] /\ crawler' \in [Workers -> CrawlerStates]
  BY <1>1
<1>3. Target' = Target /\ Target \in Int
  BY <1>1 DEF Target
<1>4. ASSUME NEW v \in Workers
      PROVE  JobSound(job'[v], handled', Target') /\ CrawlerSound(crawler'[v])
  <2>1. CASE v = w
    BY <1>1, <1>3, <2>1
  <2>2. CASE v # w
    <3>1. job'[v] = job[v] /\ crawler'[v] = crawler[v] /\ job[v].latest \in Int
      BY <1>1, <2>2 DEF JobStates
    <3>2. JobSound(job[v], handled, Target) /\ CrawlerSound(crawler[v])
      BY DEF CrawlInvariant
    <3>3. JobSound(job[v], handled', Target)
      BY <1>3, <3>1, <3>2 DEF JobSound, HandledBelow
    <3> QED
      BY <1>3, <3>1, <3>2, <3>3
  <2> QED
    BY <2>1, <2>2
<1>5. TypeOK'
  BY <1>1, <1>2 DEF TypeOK
<1> QED
  BY <1>4, <1>5 DEF CrawlInvariant

\* What the invariant says of one worker.
LEMMA WorkerFacts ==
    ASSUME CrawlInvariant, NEW w \in Workers
    PROVE  /\ job \in [Workers -> JobStates] /\ crawler \in [Workers -> CrawlerStates]
           /\ job[w] \in JobStates /\ crawler[w] \in CrawlerStates
           /\ JobSound(job[w], handled, Target) /\ CrawlerSound(crawler[w])
           /\ head \in Nat /\ Target \in Int
           /\ lastSync \in Nat \cup {NoRow} /\ ended \in BOOLEAN
           /\ handled \subseteq EventBlocks /\ RowSound
BY DEF CrawlInvariant, TypeOK, Target

\* The states a worker starts from and returns to.
LEMMA RestingStates ==
    /\ NoJob \in JobStates
    /\ \A latest \in Int : Left(latest) \in JobStates
    /\ \A latest \in Int : \A done, target :
          JobSound(NoJob, done, target) /\ JobSound(Left(latest), done, target)
    /\ NewCrawler \in CrawlerStates /\ CrawlerSound(NewCrawler)
<1>1. NoJob \in JobStates
  BY DEF NoJob, JobStates, Strategies
<1>2. \A latest \in Int : Left(latest) \in JobStates
  BY <1>1 DEF Left, NoJob, JobStates, Strategies
<1>3. \A latest \in Int : \A done, target :
          JobSound(NoJob, done, target) /\ JobSound(Left(latest), done, target)
  BY DEF NoJob, Left, JobSound
<1>4. WellSized(NewManager) /\ NewManager \in ManagerStates
  BY NewManagerWellSized DEF WellSized
<1>5. NewManager.current \in Nat /\ 1 <= NewManager.current
  BY <1>4, ConfiguredSizes DEF WellSized, InBounds, ManagerStates
<1> QED
  BY <1>1, <1>2, <1>3, <1>4, <1>5 DEF NewCrawler, CrawlerStates, CrawlerSound

\* A step that leaves the chain, the row and the handled events alone.
LEMMA QuietStep ==
    ASSUME CrawlInvariant, NEW w \in Workers,
           NEW j \in JobStates, NEW c \in CrawlerStates,
           job' = [job EXCEPT ![w] = j], crawler' = [crawler EXCEPT ![w] = c],
           UNCHANGED <<head, lastSync, ended, handled>>,
           JobSound(j, handled, Target), CrawlerSound(c)
    PROVE  CrawlInvariant'
<1>1. RowSound' /\ handled' = handled /\ head' = head /\ ended' = ended /\ lastSync' = lastSync
  BY WorkerFacts DEF RowSound, Target
<1> QED
  BY <1>1, WorkerFacts, WorkerStep

-----------------------------------------------------------------------------
(* One lemma per action of a worker *)

\* getStartingBlock: a crawl starts at the checkpoint, below which all is handled.
LEMMA ReadProgressStep ==
    ASSUME CrawlInvariant, NEW w \in Workers, ReadProgress(w) PROVE CrawlInvariant'
<1> DEFINE start == IF lastSync = NoRow THEN FromBlock ELSE lastSync
           found == lastSync # NoRow
           j == [job[w] EXCEPT !.pc = "started", !.existing = found, !.cur = start]
           c == IF Pooling THEN crawler[w] ELSE NewCrawler
<1>1. job' = [job EXCEPT ![w] = j] /\ crawler' = [crawler EXCEPT ![w] = c]
  BY WorkerFacts DEF ReadProgress
<1>2. start \in Nat /\ FromBlock <= start /\ HandledBelow(start, handled)
  BY WorkerFacts DEF RowSound, HandledBelow
<1>3. found \in BOOLEAN
  OBVIOUS
<1> HIDE DEF start, found
<1>4. j \in JobStates /\ j.pc = "started" /\ j.cur = start
  BY <1>2, <1>3, WorkerFacts DEF JobStates
<1>5. JobSound(j, handled, Target)
  BY <1>2, <1>4 DEF JobSound
<1>6. c \in CrawlerStates /\ CrawlerSound(c)
  BY WorkerFacts, RestingStates
<1> HIDE DEF j, c
<1> QED
  BY <1>1, <1>4, <1>5, <1>6, QuietStep DEF ReadProgress

\* The newest block a crawl keeps is the one it may reach.
LEMMA ReadHeadStep ==
    ASSUME CrawlInvariant, NEW w \in Workers, ReadHead(w) PROVE CrawlInvariant'
<1> DEFINE s == GetStrategyBySituation(job[w].cur, Target, crawler[w].batch)
           l == [job[w] EXCEPT !.pc = "loop", !.latest = Target, !.strategy = s]
<1>1. crawler' = [crawler EXCEPT ![w] = crawler[w]]
  BY WorkerFacts DEF ReadHead
<1>2. CASE job' = [job EXCEPT ![w] = Left(Target)]
  BY <1>1, <1>2, WorkerFacts, RestingStates, QuietStep DEF ReadHead
<1>3. CASE job' = [job EXCEPT ![w].pc = "loop", ![w].latest = Target, ![w].strategy = s]
  <2>1. s \in Strategies
    BY DEF GetStrategyBySituation, Strategies
  <2> HIDE DEF s
  <2>2. job' = [job EXCEPT ![w] = l]
    BY <1>3, WorkerFacts
  <2>3. l \in JobStates /\ l.pc = "loop" /\ l.latest = Target /\ l.cur = job[w].cur
    BY <2>1, WorkerFacts DEF JobStates
  <2>4. JobSound(l, handled, Target)
    BY <2>3, WorkerFacts DEF JobSound, ReadHead, Job
  <2> HIDE DEF l
  <2> QED
    BY <1>1, <2>2, <2>3, <2>4, WorkerFacts, QuietStep DEF ReadHead
<1> QED
  BY <1>2, <1>3 DEF ReadHead

\* A worker whose crawl fails to start or whose process stops is at rest.
LEMMA NoJobStep ==
    ASSUME CrawlInvariant, NEW w \in Workers, StartFails(w) \/ Crash(w)
    PROVE  CrawlInvariant'
<1>1. CASE StartFails(w)
  BY <1>1, WorkerFacts, RestingStates, QuietStep DEF StartFails
<1>2. CASE Crash(w)
  BY <1>2, WorkerFacts, RestingStates, QuietStep DEF Crash
<1> QED
  BY <1>1, <1>2

\* The range the loop of crawl() chooses lies between its block and its target.
LEMMA BeginRangeStep ==
    ASSUME CrawlInvariant, NEW w \in Workers, BeginRange(w) PROVE CrawlInvariant'
<1> DEFINE runs == Lesser(crawler[w].runs + 1, 2)
           strategy == IF job[w].retried /\ job[w].strategy = "withoutTopics"
                       THEN "batch" ELSE job[w].strategy
           to == CASE strategy = "receipts" -> job[w].latest
                   [] strategy = "withoutTopics" ->
                        WithoutTopicsToBlock(job[w].cur, job[w].latest, crawler[w].batch)
                   [] OTHER ->
                        CalculateToBlock(job[w].cur, job[w].latest, crawler[w].batch, runs)
           j == [job[w] EXCEPT !.pc = "fetch", !.strategy = strategy, !.to = to]
           c == [crawler[w] EXCEPT !.runs = runs]
<1>1. job' = [job EXCEPT ![w] = j] /\ crawler' = [crawler EXCEPT ![w] = c]
  BY WorkerFacts DEF BeginRange
<1>2. strategy \in Strategies /\ runs \in 0 .. 2
  BY WorkerFacts DEF JobStates, CrawlerStates, Strategies, Lesser
<1>3. to \in Nat /\ job[w].cur <= to /\ to <= job[w].latest
  <2>1. job[w].cur \in Nat /\ job[w].latest \in Int /\ job[w].cur <= job[w].latest
        /\ crawler[w].batch \in Nat /\ 1 <= crawler[w].batch
    BY WorkerFacts DEF JobStates, CrawlerStates, CrawlerSound, BeginRange
  <2>2. to \in {job[w].latest,
                WithoutTopicsToBlock(job[w].cur, job[w].latest, crawler[w].batch),
                CalculateToBlock(job[w].cur, job[w].latest, crawler[w].batch, runs)}
    OBVIOUS
  <2> HIDE DEF runs, strategy, to
  <2>3. /\ CalculateToBlock(job[w].cur, job[w].latest, crawler[w].batch, runs)
             \in job[w].cur .. job[w].latest
        /\ WithoutTopicsToBlock(job[w].cur, job[w].latest, crawler[w].batch)
             \in job[w].cur .. job[w].latest
    BY <1>2, <2>1, RangeEnds
  <2> QED
    BY <2>1, <2>2, <2>3
<1> HIDE DEF to, strategy, runs
<1>4. /\ j \in JobStates /\ j.pc = "fetch" /\ j.cur = job[w].cur
      /\ j.latest = job[w].latest /\ j.to = to
  BY <1>2, <1>3, WorkerFacts DEF JobStates
<1>5. JobSound(j, handled, Target)
  BY <1>3, <1>4, WorkerFacts DEF JobSound, BeginRange, Job
<1>6. c \in CrawlerStates /\ CrawlerSound(c)
  BY <1>2, WorkerFacts DEF CrawlerStates, CrawlerSound
<1> HIDE DEF j, c
<1> QED
  BY <1>1, <1>4, <1>5, <1>6, QuietStep DEF BeginRange

\* Leaving the loop of crawl() puts the worker at rest or before end().
LEMMA LeaveStep ==
    ASSUME CrawlInvariant, NEW w \in Workers, LeaveCrawl(w),
           NEW c \in CrawlerStates, crawler' = [crawler EXCEPT ![w] = c], CrawlerSound(c),
           UNCHANGED <<head, lastSync, ended, handled>>
    PROVE  CrawlInvariant'
<1>1. job' = [job EXCEPT ![w] = Left(job[w].latest)] /\ job[w].latest \in Int
  BY WorkerFacts DEF LeaveCrawl, JobStates
<1> QED
  BY <1>1, RestingStates, QuietStep

\* The catch block: the job leaves, or is back at the top of the loop for the
\* same block, whether or not the row was written.
LEMMA CatchStep ==
    ASSUME CrawlInvariant, NEW w \in Workers, NEW unknown \in BOOLEAN,
           NEW asked \in Nat, Catch(w, unknown, asked),
           job[w].pc \in {"fetch", "process", "update", "create"},
           UNCHANGED <<head, ended, handled>>,
           lastSync' \in Nat \cup {NoRow}, RowSound'
    PROVE  CrawlInvariant'
<1> DEFINE stop == crawler[w].shutdown \/ unknown
           most == Greater(job[w].asked, asked)
           c == [crawler[w] EXCEPT !.shutdown = stop]
           j == [job[w] EXCEPT !.pc = "loop", !.retried = TRUE, !.todo = {}, !.asked = most]
<1>1. stop \in BOOLEAN
  OBVIOUS
<1>2. crawler' = [crawler EXCEPT ![w] = c]
      /\ (LeaveCrawl(w)
          \/ job' = [job EXCEPT ![w] = j])
  BY WorkerFacts DEF Catch
<1>6. most \in Nat
  BY WorkerFacts DEF JobStates, Greater
<1> HIDE DEF stop, most
<1>3. c \in CrawlerStates /\ CrawlerSound(c)
  BY <1>1, WorkerFacts DEF CrawlerStates, CrawlerSound
<1> HIDE DEF c
<1>4. CASE LeaveCrawl(w)
  <2>1. job' = [job EXCEPT ![w] = Left(job[w].latest)] /\ job[w].latest \in Int
    BY <1>4, WorkerFacts DEF LeaveCrawl, JobStates
  <2> QED
    BY <1>2, <1>3, <2>1, WorkerFacts, RestingStates, WorkerStep
<1>5. CASE job' = [job EXCEPT ![w] = j]
  <2>2. j \in JobStates /\ j.pc = "loop" /\ j.cur = job[w].cur /\ j.latest = job[w].latest
    BY <1>6, WorkerFacts DEF JobStates
  <2>3. JobSound(j, handled, Target)
    BY <2>2, WorkerFacts DEF JobSound
  <2> HIDE DEF j
  <2> QED
    BY <1>2, <1>3, <1>5, <2>2, <2>3, WorkerFacts, WorkerStep
<1> QED
  BY <1>2, <1>4, <1>5

\* The loop of crawl() ends when its condition fails.
LEMMA LoopEndsStep ==
    ASSUME CrawlInvariant, NEW w \in Workers, LoopEnds(w) PROVE CrawlInvariant'
<1>1. crawler' = [crawler EXCEPT ![w] = crawler[w]]
  BY WorkerFacts DEF LoopEnds
<1> QED
  BY <1>1, WorkerFacts, LeaveStep DEF LoopEnds

\* getLogsByBatch succeeds: the answer holds every event of the range.
LEMMA BatchFetchedStep ==
    ASSUME CrawlInvariant, NEW w \in Workers, BatchFetched(w) PROVE CrawlInvariant'
<1>1. PICK logs \in Answers(job[w].cur, job[w].to) :
        /\ job' = [job EXCEPT ![w].pc = "process", ![w].todo = logs]
        /\ crawler' = [crawler EXCEPT
              ![w].shutdown = FALSE,
              ![w].manager = RecordSuccess(@, Cardinality(logs),
                                           job[w].to - job[w].cur + 1)]
  BY DEF BatchFetched
<1>2. /\ job[w].cur \in Nat /\ job[w].to \in Nat /\ job[w].latest \in Int
      /\ job[w].cur <= job[w].to /\ job[w].to <= Target
  BY WorkerFacts DEF JobStates, JobSound, BatchFetched, Job
<1>3. logs = EventsIn(job[w].cur, job[w].to) /\ logs \subseteq EventBlocks
  BY <1>2, WorkerFacts, AnswersAreComplete DEF EventsIn
<1>4. Cardinality(logs) \in Nat
  BY <1>3, FS_Subset, FS_CardinalityType
<1> DEFINE m == RecordSuccess(crawler[w].manager, Cardinality(logs),
                              job[w].to - job[w].cur + 1)
           j == [job[w] EXCEPT !.pc = "process", !.todo = logs]
           c == [crawler[w] EXCEPT !.shutdown = FALSE, !.manager = m]
<1>5. WellSized(m) /\ m \in ManagerStates
  <2>1. job[w].to - job[w].cur + 1 \in Nat
    BY <1>2
  <2>2. WellSized(crawler[w].manager)
    BY WorkerFacts DEF CrawlerSound
  <2> QED
    BY <1>4, <2>1, <2>2, SuccessKeepsBounds DEF WellSized
<1>6. job' = [job EXCEPT ![w] = j] /\ crawler' = [crawler EXCEPT ![w] = c]
  BY <1>1, WorkerFacts
<1> HIDE DEF m
<1>7. c \in CrawlerStates /\ CrawlerSound(c)
  BY <1>5, WorkerFacts DEF CrawlerStates, CrawlerSound
<1>8. /\ j \in JobStates /\ j.pc = "process" /\ j.cur = job[w].cur /\ j.to = job[w].to
      /\ j.latest = job[w].latest /\ j.todo = logs
  BY <1>3, WorkerFacts DEF JobStates
<1>9. JobSound(j, handled, Target)
  BY <1>3, <1>8, WorkerFacts DEF JobSound, BatchFetched, Job
<1> HIDE DEF j, c
<1> QED
  BY <1>6, <1>7, <1>8, <1>9, QuietStep DEF BatchFetched

\* getLogsByBatch is refused: the narrower range still starts at the same block.
LEMMA BatchTooWideStep ==
    ASSUME CrawlInvariant, NEW w \in Workers, BatchTooWide(w) PROVE CrawlInvariant'
<1> DEFINE m == RecordBatchSizeError(crawler[w].manager)
           stop == m.current <= 1
           off == crawler[w].shutdown \/ stop
           c == [crawler[w] EXCEPT !.manager = m, !.batch = m.current, !.shutdown = off]
           to == CalculateToBlock(job[w].cur, job[w].latest, m.current, crawler[w].runs)
           j == [job[w] EXCEPT !.to = to]
<1>1. crawler' = [crawler EXCEPT ![w] = c]
      /\ (LeaveCrawl(w) \/ job' = [job EXCEPT ![w].to = to])
  BY WorkerFacts DEF BatchTooWide
<1>2. WellSized(m) /\ m \in ManagerStates
  BY WorkerFacts, ErrorKeepsBounds DEF CrawlerSound, WellSized
<1>3. m.current \in Nat /\ 1 <= m.current
  BY <1>2, ConfiguredSizes DEF WellSized, InBounds, ManagerStates
<1>4. off \in BOOLEAN
  OBVIOUS
<1> HIDE DEF m, off
<1>5. c \in CrawlerStates /\ CrawlerSound(c)
  BY <1>2, <1>3, <1>4, WorkerFacts DEF CrawlerStates, CrawlerSound
<1> HIDE DEF c
<1>6. CASE LeaveCrawl(w)
  BY <1>1, <1>5, <1>6, LeaveStep DEF BatchTooWide
<1>7. CASE job' = [job EXCEPT ![w].to = to]
  <2>1. /\ job[w].cur \in Nat /\ job[w].latest \in Int /\ crawler[w].runs \in 0 .. 2
        /\ job[w].cur <= job[w].latest
    BY WorkerFacts DEF JobStates, CrawlerStates, JobSound, BatchTooWide, Job
  <2>2. to \in job[w].cur .. job[w].latest
    BY <1>3, <2>1, RangeEnds
  <2> HIDE DEF to
  <2>3. job' = [job EXCEPT ![w] = j]
    BY <1>7, WorkerFacts
  <2>4. /\ j \in JobStates /\ j.pc = job[w].pc /\ j.cur = job[w].cur /\ j.to = to
        /\ j.latest = job[w].latest
    BY <2>1, <2>2, WorkerFacts DEF JobStates
  <2>5. JobSound(j, handled, Target)
    BY <2>1, <2>2, <2>4, WorkerFacts DEF JobSound, BatchTooWide, Job
  <2> HIDE DEF j
  <2> QED
    BY <1>1, <1>5, <2>3, <2>4, <2>5, QuietStep DEF BatchTooWide
<1> QED
  BY <1>1, <1>6, <1>7

\* The failures that set shutdown and leave crawl().
LEMMA ShutdownStep ==
    ASSUME CrawlInvariant, NEW w \in Workers, BatchFails(w) \/ ReceiptsFail(w)
    PROVE  CrawlInvariant'
<1> DEFINE c == [crawler[w] EXCEPT !.shutdown = TRUE]
<1>1. crawler' = [crawler EXCEPT ![w] = c] /\ c \in CrawlerStates /\ CrawlerSound(c)
  BY WorkerFacts DEF BatchFails, ReceiptsFail, CrawlerStates, CrawlerSound
<1> HIDE DEF c
<1> QED
  BY <1>1, LeaveStep DEF BatchFails, ReceiptsFail

\* getLogsWithoutTopics and getLogsByBlockReceipts: the answer holds every event
\* of the range they end up with.
LEMMA RangeFetchedStep ==
    ASSUME CrawlInvariant, NEW w \in Workers, RangeFetched(w) PROVE CrawlInvariant'
<1>1. crawler' = [crawler EXCEPT ![w] = crawler[w]]
  BY WorkerFacts DEF RangeFetched
<1>5. PICK to \in {job[w].to,
                    WithoutTopicsToBlock(job[w].cur, job[w].latest, crawler[w].batch)} :
        \E logs \in Answers(job[w].cur, to) :
            \/ LeaveCrawl(w)
            \/ job' = [job EXCEPT ![w].pc = "process", ![w].to = to, ![w].todo = logs]
  BY DEF RangeFetched
<1>2. PICK logs \in Answers(job[w].cur, to) :
        \/ LeaveCrawl(w)
        \/ job' = [job EXCEPT ![w].pc = "process", ![w].to = to, ![w].todo = logs]
  BY <1>5
<1>3. CASE LeaveCrawl(w)
  BY <1>1, <1>3, WorkerFacts, LeaveStep DEF RangeFetched
<1>4. CASE job' = [job EXCEPT ![w].pc = "process", ![w].to = to, ![w].todo = logs]
  <2> DEFINE j == [job[w] EXCEPT !.pc = "process", !.to = to, !.todo = logs]
  <2>1. /\ job[w].cur \in Nat /\ job[w].to \in Nat /\ job[w].latest \in Int
        /\ job[w].cur <= job[w].to /\ job[w].to <= job[w].latest
        /\ job[w].latest <= Target
        /\ crawler[w].batch \in Nat /\ 1 <= crawler[w].batch
    BY WorkerFacts DEF JobStates, CrawlerStates, CrawlerSound, JobSound, RangeFetched, Job
  <2>2. WithoutTopicsToBlock(job[w].cur, job[w].latest, crawler[w].batch)
          \in job[w].cur .. job[w].latest
    BY <2>1 DEF WithoutTopicsToBlock, Lesser
  <2>3. to \in Nat /\ job[w].cur <= to /\ to <= job[w].latest /\ to <= Target
    BY <2>1, <2>2, WorkerFacts
  <2>4. logs = EventsIn(job[w].cur, to) /\ logs \subseteq EventBlocks
    BY <2>1, <2>3, WorkerFacts, AnswersAreComplete DEF EventsIn
  <2>5. job' = [job EXCEPT ![w] = j]
    BY <1>4, WorkerFacts
  <2>6. /\ j \in JobStates /\ j.pc = "process" /\ j.cur = job[w].cur /\ j.to = to
        /\ j.latest = job[w].latest /\ j.todo = logs
    BY <2>3, <2>4, WorkerFacts DEF JobStates
  <2>7. JobSound(j, handled, Target)
    BY <2>3, <2>4, <2>6, WorkerFacts DEF JobSound, RangeFetched, Job
  <2> HIDE DEF j
  <2> QED
    BY <1>1, <2>5, <2>6, <2>7, WorkerFacts, QuietStep DEF RangeFetched
<1> QED
  BY <1>2, <1>3, <1>4

\* The failures that reach the catch block of the loop.
LEMMA FailureStep ==
    ASSUME CrawlInvariant, NEW w \in Workers,
           RangeFails(w) \/ HandlerFails(w) \/ CreateConflicts(w) \/ SaveFails(w)
    PROVE  CrawlInvariant'
<1>1. job[w].pc \in {"fetch", "process", "update", "create"}
      /\ UNCHANGED <<head, lastSync, ended, handled>>
      /\ \E unknown \in BOOLEAN : Catch(w, unknown, 0)
  BY DEF RangeFails, HandlerFails, CreateConflicts, SaveFails, Job
<1>2. lastSync' \in Nat \cup {NoRow} /\ RowSound'
  BY <1>1, WorkerFacts DEF RowSound, Target
<1> QED
  BY <1>1, <1>2, CatchStep

\* processLogs: an event leaves the to-do set only when it is handled.
LEMMA HandleLogsStep ==
    ASSUME CrawlInvariant, NEW w \in Workers, HandleLogs(w) PROVE CrawlInvariant'
<1> DEFINE done == NextHandled(job[w].todo)
           rest == job[w].todo \ done
           j == [job[w] EXCEPT !.todo = rest]
<1>1. job' = [job EXCEPT ![w] = j] /\ crawler' = [crawler EXCEPT ![w] = crawler[w]]
      /\ handled' = handled \cup done
      /\ head' = head /\ lastSync' = lastSync /\ ended' = ended
  BY WorkerFacts DEF HandleLogs
<1>2. done \subseteq job[w].todo /\ job[w].todo \subseteq EventBlocks
  BY NextHandledIsFetched, WorkerFacts DEF JobStates
<1> HIDE DEF done
<1>3. /\ j \in JobStates /\ j.pc = "process" /\ j.cur = job[w].cur /\ j.to = job[w].to
      /\ j.latest = job[w].latest /\ j.todo = rest
  BY <1>2, WorkerFacts DEF JobStates, HandleLogs, Job
<1>4. JobSound(j, handled', Target)
  BY <1>1, <1>2, <1>3, WorkerFacts DEF JobSound, HandledBelow, HandleLogs, Job
<1>5. RowSound'
  BY <1>1, WorkerFacts DEF RowSound, HandledBelow, Target
<1>6. handled \subseteq handled' /\ handled' \subseteq EventBlocks
  BY <1>1, <1>2, WorkerFacts
<1> HIDE DEF j
<1> QED
  BY <1>1, <1>3, <1>4, <1>5, <1>6, WorkerFacts, WorkerStep

\* saveProgress starts once nothing of the range is left to do.
LEMMA FindRowStep ==
    ASSUME CrawlInvariant, NEW w \in Workers, FindRow(w) PROVE CrawlInvariant'
<1> DEFINE pc == IF lastSync = NoRow THEN "create" ELSE "update"
           j == [job[w] EXCEPT !.pc = pc]
<1>1. job' = [job EXCEPT ![w] = j] /\ crawler' = [crawler EXCEPT ![w] = crawler[w]]
  BY WorkerFacts DEF FindRow
<1>2. pc \in {"create", "update"}
  OBVIOUS
<1> HIDE DEF pc
<1>3. /\ j \in JobStates /\ j.pc = pc /\ j.cur = job[w].cur /\ j.to = job[w].to
      /\ j.latest = job[w].latest
  BY <1>2, WorkerFacts DEF JobStates
<1>4. JobSound(j, handled, Target)
  BY <1>2, <1>3, WorkerFacts DEF JobSound, FindRow, Job
<1> HIDE DEF j
<1> QED
  BY <1>1, <1>3, <1>4, WorkerFacts, QuietStep DEF FindRow

\* The row takes the end of a range whose events are all handled.
LEMMA SavedRow ==
    ASSUME CrawlInvariant, NEW w \in Workers, job[w].pc \in {"update", "create"},
           lastSync' \in {lastSync, job[w].to + 1}, UNCHANGED <<head, handled>>
    PROVE  lastSync' \in Nat \cup {NoRow} /\ RowSound'
<1> DEFINE next == job[w].to + 1
<1>1. /\ job[w].cur \in Nat /\ job[w].to \in Nat /\ job[w].latest \in Int
      /\ FromBlock <= job[w].cur /\ job[w].cur <= job[w].to
      /\ job[w].to <= job[w].latest /\ job[w].latest <= Target
      /\ HandledBelow(job[w].cur, handled)
      /\ EventsIn(job[w].cur, job[w].to) \subseteq handled
  BY WorkerFacts DEF JobStates, JobSound
<1>2. next \in Nat /\ FromBlock <= next /\ next <= Target + 1 /\ HandledBelow(next, handled)
  BY <1>1, WorkerFacts, RangeExtends
<1>3. CASE lastSync' = lastSync
  BY <1>3, WorkerFacts DEF RowSound, Target
<1>4. CASE lastSync' = next
  BY <1>2, <1>4 DEF RowSound, Target, HandledBelow
<1> QED
  BY <1>3, <1>4

\* saveProgress that went through: the crawl is past the range, too.
LEMMA SaveStep ==
    ASSUME CrawlInvariant, NEW w \in Workers, UpdateRow(w) \/ CreateRow(w)
    PROVE  CrawlInvariant'
<1> DEFINE next == job[w].to + 1
           m == ResetForNextRange(crawler[w].manager)
           c == [crawler[w] EXCEPT !.manager = m, !.batch = m.current]
           j == [job[w] EXCEPT !.pc = "loop", !.cur = next]
<1>1. /\ job[w].cur \in Nat /\ job[w].to \in Nat /\ job[w].latest \in Int
      /\ FromBlock <= job[w].cur /\ job[w].cur <= job[w].to
      /\ job[w].to <= job[w].latest /\ job[w].latest <= Target
      /\ HandledBelow(job[w].cur, handled)
      /\ EventsIn(job[w].cur, job[w].to) \subseteq handled
  BY WorkerFacts DEF JobStates, JobSound, UpdateRow, CreateRow, Job
<1>2. next \in Nat /\ FromBlock <= next /\ next <= Target + 1 /\ HandledBelow(next, handled)
  BY <1>1, WorkerFacts, RangeExtends
<1>3. lastSync' \in {lastSync, next} /\ lastSync' \in Nat \cup {NoRow}
  BY <1>2, WorkerFacts DEF UpdateRow, CreateRow, Greater
<1>4. head' = head /\ handled' = handled /\ ended' = ended
  BY DEF UpdateRow, CreateRow
<1>5. RowSound'
  BY <1>3, <1>4, SavedRow DEF UpdateRow, CreateRow, Job
<1>6. crawler' = [crawler EXCEPT ![w] = c]
      /\ (LeaveCrawl(w) \/ job' = [job EXCEPT ![w].pc = "loop", ![w].cur = next])
  BY WorkerFacts DEF UpdateRow, CreateRow, NextRange
<1>7. WellSized(m) /\ m \in ManagerStates
  BY WorkerFacts, ResetKeepsBounds DEF CrawlerSound, WellSized
<1>8. m.current \in Nat /\ 1 <= m.current
  BY <1>7, ConfiguredSizes DEF WellSized, InBounds, ManagerStates
<1> HIDE DEF m
<1>9. c \in CrawlerStates /\ CrawlerSound(c)
  BY <1>7, <1>8, WorkerFacts DEF CrawlerStates, CrawlerSound
<1> HIDE DEF c, next
<1>10. CASE LeaveCrawl(w)
  <2>1. job' = [job EXCEPT ![w] = Left(job[w].latest)]
    BY <1>10 DEF LeaveCrawl
  <2> QED
    BY <1>1, <1>3, <1>4, <1>5, <1>6, <1>9, <2>1, WorkerFacts, RestingStates, WorkerStep
<1>11. CASE job' = [job EXCEPT ![w].pc = "loop", ![w].cur = next]
  <2>1. job' = [job EXCEPT ![w] = j]
    BY <1>11, WorkerFacts
  <2>2. j \in JobStates /\ j.pc = "loop" /\ j.cur = next /\ j.latest = job[w].latest
    BY <1>2, WorkerFacts DEF JobStates
  <2>3. JobSound(j, handled', Target)
    BY <1>1, <1>2, <1>4, <2>2 DEF JobSound
  <2> HIDE DEF j
  <2> QED
    BY <1>3, <1>4, <1>5, <1>6, <1>9, <2>1, <2>2, <2>3, WorkerFacts, WorkerStep
<1> QED
  BY <1>6, <1>10, <1>11

\* saveProgress that went through unknown to the crawl, which is back at the range.
LEMMA SaveUnansweredStep ==
    ASSUME CrawlInvariant, NEW w \in Workers, SaveUnanswered(w)
    PROVE  CrawlInvariant'
<1>1. job[w].pc \in {"update", "create"} /\ job[w].to + 1 \in Nat
  BY WorkerFacts DEF SaveUnanswered, Job, JobStates
<1>2. lastSync' \in {lastSync, job[w].to + 1} /\ UNCHANGED <<head, ended, handled>>
  BY DEF SaveUnanswered, Greater
<1>3. lastSync' \in Nat \cup {NoRow} /\ RowSound'
  BY <1>1, <1>2, SavedRow
<1>4. PICK unknown \in BOOLEAN : Catch(w, unknown, job[w].to + 1)
  BY DEF SaveUnanswered
<1> QED
  BY <1>1, <1>2, <1>3, <1>4, CatchStep

\* end() touches the flag of the row only.
LEMMA MarkAsEndedStep ==
    ASSUME CrawlInvariant, NEW w \in Workers, MarkAsEnded(w) PROVE CrawlInvariant'
<1>1. job' = [job EXCEPT ![w] = NoJob] /\ crawler' = [crawler EXCEPT ![w] = crawler[w]]
      /\ head' = head /\ handled' = handled /\ lastSync' = lastSync
  BY WorkerFacts DEF MarkAsEnded
<1>2. ended' \in BOOLEAN
  BY DEF MarkAsEnded
<1>3. RowSound'
  BY <1>1, WorkerFacts DEF RowSound, Target
<1>4. JobSound(NoJob, handled', Target)
  BY DEF JobSound, NoJob
<1> QED
  BY <1>1, <1>2, <1>3, <1>4, WorkerFacts, RestingStates, WorkerStep

\* The chain grows: every job and the row stay behind its new head.
LEMMA MineStep ==
    ASSUME CrawlInvariant, Mine PROVE CrawlInvariant'
<1>1. /\ head \in Nat /\ head' \in FromBlock .. MaxBlock
      /\ Target \in Int /\ Target' = Target + 1
      /\ lastSync' = lastSync /\ handled' = handled /\ ended' = ended
      /\ job' = job /\ crawler' = crawler
  BY DEF CrawlInvariant, TypeOK, Mine, Target
<1>2. TypeOK'
  BY <1>1 DEF CrawlInvariant, TypeOK
<1>3. RowSound'
  BY <1>1 DEF CrawlInvariant, TypeOK, RowSound, HandledBelow
<1>4. ASSUME NEW w \in Workers PROVE JobSound(job[w], handled, Target)'
  <2>1. job[w].latest \in Int
    BY DEF CrawlInvariant, TypeOK, JobStates
  <2>2. JobSound(job[w], handled, Target)
    BY DEF CrawlInvariant
  <2> QED
    BY <1>1, <2>1, <2>2 DEF JobSound
<1>5. ASSUME NEW w \in Workers PROVE CrawlerSound(crawler[w])'
  BY <1>1 DEF CrawlInvariant
<1> QED
  BY <1>2, <1>3, <1>4, <1>5 DEF CrawlInvariant

-----------------------------------------------------------------------------
(* The theorems *)

\* The invariant holds before any crawl.
LEMMA InitSound == Init => CrawlInvariant
<1> SUFFICES ASSUME Init PROVE CrawlInvariant
  OBVIOUS
<1>1. TypeOK
  <2>1. head \in FromBlock .. MaxBlock /\ lastSync \in Nat \cup {NoRow}
    BY DEF Init
  <2>2. ended \in BOOLEAN /\ handled \subseteq EventBlocks
    BY DEF Init
  <2>3. job \in [Workers -> JobStates] /\ crawler \in [Workers -> CrawlerStates]
    BY RestingStates, Zenon DEF Init
  <2> QED
    BY <2>1, <2>2, <2>3 DEF TypeOK
<1>2. RowSound
  BY DEF Init, RowSound
<1>3. ASSUME NEW w \in Workers
      PROVE  JobSound(job[w], handled, Target) /\ CrawlerSound(crawler[w])
  <2>1. job[w] = NoJob /\ crawler[w] = NewCrawler
    BY DEF Init
  <2> QED
    BY <2>1, RestingStates DEF JobSound, NoJob
<1> QED
  BY <1>1, <1>2, <1>3 DEF CrawlInvariant

\* Every step of every worker, and every new block, keeps the invariant.
LEMMA NextSound == CrawlInvariant /\ [Next]_vars => CrawlInvariant'
<1> SUFFICES ASSUME CrawlInvariant, [Next]_vars PROVE CrawlInvariant'
  OBVIOUS
<1>1. CASE Mine
  BY <1>1, MineStep
<1>2. ASSUME NEW w \in Workers, Step(w) PROVE CrawlInvariant'
  <2>1. CASE Control(w)
    BY <2>1, ReadProgressStep, ReadHeadStep, BeginRangeStep, LoopEndsStep, FindRowStep
    DEF Control
  <2>2. CASE StartFails(w) \/ Crash(w)
    BY <2>2, NoJobStep
  <2>3. CASE Fetch(w)
    BY <2>3, BatchFetchedStep, RangeFetchedStep DEF Fetch
  <2>4. CASE FetchFails(w)
    BY <2>4, BatchTooWideStep, ShutdownStep, FailureStep DEF FetchFails
  <2>5. CASE HandleLogs(w)
    BY <2>5, HandleLogsStep
  <2>6. CASE HandlerFails(w) \/ SaveFails(w)
    BY <2>6, FailureStep
  <2>7. CASE Save(w) \/ SaveUnanswered(w)
    BY <2>7, SaveStep, SaveUnansweredStep, FailureStep DEF Save
  <2>8. CASE MarkAsEnded(w)
    BY <2>8, MarkAsEndedStep
  <2> QED
    BY <1>2, <2>1, <2>2, <2>3, <2>4, <2>5, <2>6, <2>7, <2>8 DEF Step
<1>3. CASE UNCHANGED vars
  BY <1>3 DEF vars, CrawlInvariant, TypeOK, RowSound, HandledBelow, JobSound, CrawlerSound,
              Target
<1> QED
  BY <1>1, <1>2, <1>3 DEF Next

\* The inductive invariant holds in every behaviour, for every number of
\* workers, every placement of the events and every batch configuration.
THEOREM CrawlInvariantHolds == Spec => []CrawlInvariant
<1> QED
  BY InitSound, NextSound, PTL DEF Spec

\* No event is lost: the checkpoint never passes an event no handler completed.
THEOREM NoEventIsLost == Spec => []NoGap
<1>1. CrawlInvariant => NoGap
  BY DEF CrawlInvariant, TypeOK, RowSound, HandledBelow, NoGap, NoRow
<1> QED
  BY <1>1, CrawlInvariantHolds, PTL

\* The checkpoint never gets ahead of the block the crawl may reach.
THEOREM CheckpointStaysBehindHead == Spec => []CheckpointBehindHead
<1>1. CrawlInvariant => CheckpointBehindHead
  BY DEF CrawlInvariant, RowSound, CheckpointBehindHead
<1> QED
  BY <1>1, CrawlInvariantHolds, PTL

\* No step of any worker moves the checkpoint back.
THEOREM CheckpointIsMonotone == Spec => CheckpointNeverRegresses
<1>1. CrawlInvariant /\ [Next]_vars => [lastSync <= lastSync']_lastSync
  <2> SUFFICES ASSUME CrawlInvariant, Next, lastSync' # lastSync PROVE lastSync <= lastSync'
    BY DEF vars
  <2>1. PICK w \in Workers : UpdateRow(w) \/ CreateRow(w) \/ SaveUnanswered(w)
    BY DEF Next, Mine, Step, Control, ReadProgress, ReadHead, BeginRange, LoopEnds, FindRow,
           StartFails, Fetch, BatchFetched, RangeFetched, FetchFails, BatchTooWide,
           BatchFails, RangeFails, ReceiptsFail, HandleLogs, HandlerFails, Save,
           CreateConflicts, SaveFails, MarkAsEnded, Crash
  <2>2. job[w].to \in Nat
    BY WorkerFacts DEF JobStates
  <2> QED
    BY <2>1, <2>2, WorkerFacts DEF UpdateRow, CreateRow, SaveUnanswered, Greater, NoRow
<1> QED
  BY <1>1, InitSound, NextSound, PTL DEF Spec, CheckpointNeverRegresses

-----------------------------------------------------------------------------
\* Only saveProgress writes the row's lastSync, and only processLogs completes
\* handlers, never both in one step.
LEMMA WhatChanges ==
    ASSUME Next
    PROVE  \/ lastSync' = lastSync /\ handled' = handled
           \/ \E w \in Workers : HandleLogs(w)
           \/ \E w \in Workers : UpdateRow(w) \/ CreateRow(w) \/ SaveUnanswered(w)
BY DEF Next, Mine, Step, Control, ReadProgress, ReadHead, BeginRange, LoopEnds, FindRow,
       StartFails, Fetch, BatchFetched, RangeFetched, FetchFails, BatchTooWide,
       BatchFails, RangeFails, ReceiptsFail, HandlerFails, Save,
       CreateConflicts, SaveFails, MarkAsEnded, Crash

\* Every step of the crawlers is a step of the checkpoint or leaves it alone.
LEMMA StepsMap ==
    ASSUME CrawlInvariant, CrawlInvariant', [Next]_vars
    PROVE  [Checkpoint!Handle \/ Checkpoint!Advance]_<<lastSync, handled>>
<1>1. CASE UNCHANGED vars
  BY <1>1 DEF vars
<1>2. ASSUME NEW w \in Workers, HandleLogs(w)
      PROVE  Checkpoint!Handle
  <2>1. job[w].todo \in SUBSET EventBlocks
    BY WorkerFacts DEF JobStates
  <2>2. NextHandled(job[w].todo) \in SUBSET EventBlocks
    BY <2>1, NextHandledIsFetched
  <2> QED
    BY <1>2, <2>2 DEF HandleLogs, Checkpoint!Handle
<1>3. ASSUME NEW w \in Workers, UpdateRow(w) \/ CreateRow(w) \/ SaveUnanswered(w),
             lastSync' # lastSync
      PROVE  Checkpoint!Advance
  <2>1. job[w].to \in Nat /\ lastSync \in Nat \cup {NoRow}
    BY WorkerFacts DEF JobStates
  <2>2. lastSync' \in Nat /\ lastSync < lastSync' /\ handled' = handled
    BY <1>3, <2>1 DEF UpdateRow, CreateRow, SaveUnanswered, Greater, NoRow
  <2>3. HandledBelow(lastSync', handled')
    <3>1. lastSync' # NoRow
      BY <2>2 DEF NoRow
    <3>2. RowSound'
      BY DEF CrawlInvariant
    <3> QED
      BY <3>1, <3>2, Zenon DEF RowSound
  <2> QED
    BY <2>2, <2>3 DEF Checkpoint!Advance, HandledBelow
<1>4. ASSUME NEW w \in Workers, UpdateRow(w) \/ CreateRow(w) \/ SaveUnanswered(w),
             lastSync' = lastSync
      PROVE  UNCHANGED <<lastSync, handled>>
  BY <1>4 DEF UpdateRow, CreateRow, SaveUnanswered
<1> QED
  BY <1>1, <1>2, <1>3, <1>4, WhatChanges

\* The crawlers of a row implement ReliableCheckpoint, for any number of them and
\* whatever requests, handlers, writes and processes fail.
THEOREM CrawlersImplementCheckpoint == Spec => ImplementsCheckpoint
<1>1. Init => Checkpoint!Init
  BY DEF Init, Checkpoint!Init
<1>2. CrawlInvariant /\ CrawlInvariant' /\ [Next]_vars
        => [Checkpoint!Handle \/ Checkpoint!Advance]_<<lastSync, handled>>
  BY StepsMap
<1> QED
  BY <1>1, <1>2, CrawlInvariantHolds, PTL DEF Spec, ImplementsCheckpoint, Checkpoint!Spec

-----------------------------------------------------------------------------
(* A lone crawler *)

\* The row is not ahead of a crawl, but for a save whose answer was lost, and a
\* range's events are not behind the crawl.
NotBehind(j, sync) ==
    /\ j.pc \notin {"idle", "ending"} => sync <= j.cur \/ sync <= j.asked
    /\ j.pc = "process" => \A b \in j.todo : j.cur <= b

\* A step of the only worker keeps its crawl from falling behind the row it wrote.
LEMMA LoneStep ==
    ASSUME CrawlInvariant, NEW w \in Workers, Step(w), NotBehind(job[w], lastSync)
    PROVE  NotBehind(job'[w], lastSync')
<1>. USE WorkerFacts
<1>1. job[w] \in JobStates /\ lastSync \in Nat \cup {NoRow} /\ job[w].cur \in Nat /\ job[w].to \in Nat
      /\ job[w].asked \in Nat
  BY DEF JobStates
<1>2. ASSUME LeaveCrawl(w) \/ job' = [job EXCEPT ![w] = NoJob] \/ job' = [job EXCEPT ![w] = Left(Target)]
      PROVE  NotBehind(job'[w], lastSync')
  <2>1. NoJob.pc = "idle" /\ \A latest : Left(latest).pc \in {"idle", "ending"}
    BY DEF Left, NoJob
  <2>2. job'[w] = NoJob \/ \E latest : job'[w] = Left(latest)
    BY <1>2, Zenon DEF LeaveCrawl
  <2>3. job'[w].pc \in {"idle", "ending"}
    BY <2>1, <2>2
  <2>. QED
    BY <2>3 DEF NotBehind
<1>3. CASE ReadProgress(w)
  <2>1. /\ job'[w].pc = "started" /\ lastSync' = lastSync
        /\ job'[w].cur = IF lastSync = NoRow THEN FromBlock ELSE lastSync
    BY <1>1, <1>3 DEF ReadProgress, JobStates
  <2>. QED
    BY <1>1, <2>1 DEF NotBehind, NoRow
<1>4. ASSUME lastSync' = lastSync, job'[w].cur = job[w].cur, job'[w].asked = job[w].asked,
             job[w].pc \notin {"idle", "ending"},
             job'[w].pc = "process" => \A b \in job'[w].todo : job[w].cur <= b
      PROVE  NotBehind(job'[w], lastSync')
  BY <1>4 DEF NotBehind
<1>5. CASE ReadHead(w) \/ BeginRange(w) \/ LoopEnds(w) \/ FindRow(w) \/ StartFails(w)
  <2>1. CASE ReadHead(w)
    BY <1>1, <1>2, <1>4, <2>1 DEF ReadHead, Job, JobStates
  <2>2. CASE BeginRange(w)
    <3>1. job'[w].pc = "fetch" /\ job'[w].cur = job[w].cur /\ job'[w].asked = job[w].asked
      BY <1>1, <2>2 DEF BeginRange, JobStates
    <3>. QED
      BY <1>4, <2>2, <3>1 DEF BeginRange, Job
  <2>3. CASE LoopEnds(w) \/ StartFails(w)
    BY <1>2, <2>3 DEF LoopEnds, StartFails
  <2>4. CASE FindRow(w)
    BY <1>1, <1>4, <2>4 DEF FindRow, Job, JobStates
  <2>. QED
    BY <1>5, <2>1, <2>2, <2>3, <2>4
<1>6. ASSUME NEW unknown \in BOOLEAN, NEW asked \in Nat, Catch(w, unknown, asked),
             lastSync' = lastSync \/ (lastSync' \in Nat /\ lastSync' <= asked),
             job[w].pc \notin {"idle", "ending"}
      PROVE  NotBehind(job'[w], lastSync')
  <2> DEFINE most == Greater(job[w].asked, asked)
             j == [job[w] EXCEPT !.pc = "loop", !.retried = TRUE, !.todo = {}, !.asked = most]
  <2>1. LeaveCrawl(w) \/ job' = [job EXCEPT ![w] = j]
    BY <1>6 DEF Catch
  <2>2. job[w].asked <= most /\ asked <= most /\ most \in Nat
    BY <1>1 DEF Greater
  <2> HIDE DEF most
  <2>3. j.pc = "loop" /\ j.cur = job[w].cur /\ j.asked = most
    BY DEF JobStates
  <2>4. lastSync' <= job[w].cur \/ lastSync' <= most
    <3>1. lastSync <= job[w].cur \/ lastSync <= job[w].asked
      BY <1>6 DEF NotBehind
    <3> QED
      BY <1>1, <1>6, <2>2, <3>1 DEF NoRow
  <2> HIDE DEF j
  <2>5. CASE job' = [job EXCEPT ![w] = j]
    BY <1>1, <2>3, <2>4, <2>5 DEF NotBehind
  <2>. QED
    BY <1>2, <2>1, <2>5
<1>7. ASSUME NEW from \in Nat, NEW to, NEW logs \in Answers(from, to)
      PROVE  \A b \in logs : from <= b
  BY <1>7 DEF Answers, EventsIn
<1>8. CASE Fetch(w)
  <2>1. lastSync' = lastSync /\ job[w].pc = "fetch"
    BY <1>8 DEF Fetch, BatchFetched, RangeFetched, Job
  <2>2. CASE LeaveCrawl(w)
    BY <1>2, <2>2
  <2>3. ASSUME NEW to, NEW logs \in Answers(job[w].cur, to), job'[w].cur = job[w].cur,
               job'[w].asked = job[w].asked, job'[w].todo = logs
        PROVE  NotBehind(job'[w], lastSync')
    BY <1>1, <1>4, <1>7, <2>1, <2>3
  <2>4. CASE BatchFetched(w)
    <3>1. PICK logs \in Answers(job[w].cur, job[w].to) :
            job' = [job EXCEPT ![w].pc = "process", ![w].todo = logs]
      BY <2>4 DEF BatchFetched
    <3>. QED
      BY <1>1, <2>3, <3>1 DEF JobStates
  <2>5. CASE RangeFetched(w)
    <3>1. PICK to \in {job[w].to, WithoutTopicsToBlock(job[w].cur, job[w].latest, crawler[w].batch)} :
            \E logs \in Answers(job[w].cur, to) :
                \/ LeaveCrawl(w)
                \/ job' = [job EXCEPT ![w].pc = "process", ![w].to = to, ![w].todo = logs]
      BY <2>5 DEF RangeFetched
    <3>2. PICK logs \in Answers(job[w].cur, to) :
            \/ LeaveCrawl(w)
            \/ job' = [job EXCEPT ![w].pc = "process", ![w].to = to, ![w].todo = logs]
      BY <3>1
    <3>. QED
      BY <1>1, <2>2, <2>3, <3>2 DEF JobStates
  <2>. QED
    BY <1>8, <2>4, <2>5 DEF Fetch
<1>9. CASE FetchFails(w)
  <2>1. lastSync' = lastSync /\ job[w].pc = "fetch"
    BY <1>9 DEF FetchFails, BatchTooWide, BatchFails, RangeFails, ReceiptsFail, Job
  <2>2. CASE BatchTooWide(w)
    <3>1. LeaveCrawl(w) \/ (job'[w].cur = job[w].cur /\ job'[w].asked = job[w].asked
                             /\ job'[w].pc = job[w].pc)
      BY <1>1, <2>2 DEF BatchTooWide, JobStates
    <3>. QED
      BY <1>2, <1>4, <2>1, <3>1
  <2>3. CASE BatchFails(w) \/ ReceiptsFail(w)
    BY <1>2, <2>3 DEF BatchFails, ReceiptsFail
  <2>4. CASE RangeFails(w)
    BY <1>6, <2>1, <2>4 DEF RangeFails
  <2>. QED
    BY <1>9, <2>2, <2>3, <2>4 DEF FetchFails
<1>10. CASE HandleLogs(w)
  <2>1. /\ lastSync' = lastSync /\ job[w].pc = "process" /\ job'[w].cur = job[w].cur
        /\ job'[w].asked = job[w].asked
        /\ job'[w].todo = job[w].todo \ NextHandled(job[w].todo)
    BY <1>1, <1>10 DEF HandleLogs, Job, JobStates
  <2>2. \A b \in job[w].todo : job[w].cur <= b
    BY <2>1 DEF NotBehind
  <2>. QED
    BY <1>4, <2>1, <2>2
<1>11. CASE HandlerFails(w) \/ SaveFails(w) \/ CreateConflicts(w)
  BY <1>6, <1>11 DEF HandlerFails, SaveFails, CreateConflicts, Job
<1>14. CASE SaveUnanswered(w)
  <2>1. job[w].pc \in {"update", "create"} /\ lastSync' \in {lastSync, job[w].to + 1}
    BY <1>14 DEF SaveUnanswered, Job, Greater
  <2>2. PICK unknown \in BOOLEAN : Catch(w, unknown, job[w].to + 1)
    BY <1>14 DEF SaveUnanswered
  <2>. QED
    BY <1>1, <1>6, <2>1, <2>2
<1>12. CASE UpdateRow(w) \/ CreateRow(w)
  <2>1. NextRange(w) /\ job[w].pc \in {"update", "create"}
    BY <1>12 DEF UpdateRow, CreateRow, Job
  <2>2. lastSync' = job[w].to + 1 \/ (lastSync' = lastSync /\ lastSync' <= job[w].asked)
    BY <1>1, <1>12, <2>1 DEF UpdateRow, CreateRow, Greater, NotBehind, JobSound, NoRow
  <2>3. CASE LeaveCrawl(w)
    BY <1>2, <2>3
  <2>4. CASE job' = [job EXCEPT ![w].pc = "loop", ![w].cur = job[w].to + 1]
    BY <1>1, <2>2, <2>4 DEF NotBehind, JobStates
  <2>. QED
    BY <2>1, <2>3, <2>4 DEF NextRange
<1>13. CASE MarkAsEnded(w) \/ Crash(w)
  BY <1>2, <1>13 DEF MarkAsEnded, Crash
<1>. QED
  BY <1>3, <1>5, <1>8, <1>9, <1>10, <1>11, <1>12, <1>13, <1>14
  DEF Step, Control, Save

\* A crawler that is alone on its row runs no handler for an event below the
\* checkpoint, whatever requests and handlers fail and whenever it restarts, but for
\* the blocks of a save of the same crawl whose answer was lost.
THEOREM LoneCrawlerReplaysNothing ==
    ASSUME \A v, w \in Workers : v = w
    PROVE  Spec => []NothingSavedIsReplayed
<1>. DEFINE Lone == CrawlInvariant /\ \A w \in Workers : NotBehind(job[w], lastSync)
<1>1. Init => Lone
  <2>1. Init => \A w \in Workers : job[w].pc = "idle"
    BY DEF Init, NoJob
  <2>. QED
    BY <2>1, InitSound DEF NotBehind
<1>2. Lone /\ [Next]_vars => Lone'
  <2>. SUFFICES ASSUME Lone, [Next]_vars, NEW w \in Workers PROVE NotBehind(job'[w], lastSync')
    BY NextSound
  <2>1. CASE Mine \/ UNCHANGED vars
    BY <2>1 DEF Mine, vars
  <2>2. ASSUME NEW v \in Workers, Step(v) PROVE NotBehind(job'[w], lastSync')
    BY <2>2, LoneStep
  <2>. QED
    BY <2>1, <2>2 DEF Next
<1>3. Lone => NothingSavedIsReplayed
  <2>. SUFFICES ASSUME Lone, NEW w \in Workers, Job(w, "process"), NEW b \in job[w].todo
                 PROVE  lastSync <= b \/ b < job[w].asked
    BY DEF NothingSavedIsReplayed
  <2>1. b \in Nat /\ job[w].cur \in Nat /\ job[w].asked \in Nat /\ lastSync \in Nat \cup {NoRow}
    BY WorkerFacts DEF JobStates
  <2>. QED
    BY <2>1 DEF NotBehind, Job, NoRow
<1>. HIDE DEF Lone
<1>. QED
  BY <1>1, <1>2, <1>3, PTL DEF Spec

=============================================================================
