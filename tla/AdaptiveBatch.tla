--------------------------- MODULE AdaptiveBatch ---------------------------
(***************************************************************************)
(* AdaptiveBatchSizeManager: the width, in blocks, of the next eth_getLogs *)
(* query.  Every method of the class that changes its state is an operator *)
(* from one manager state to the next, so that the module can be checked   *)
(* on its own (AdaptiveBatchAlone) and inside the crawler (LogCrawler).    *)
(*                                                                         *)
(* Sizes are in blocks: a day count of the configuration, divided by the   *)
(* network's block time, is one constant here.  Densities are compared in  *)
(* tenths of an event per block, without rounding.  The counters stop      *)
(* where the code no longer tells their values apart (10, 3 and 5).        *)
(***************************************************************************)
EXTENDS Integers

CONSTANTS
    InitialBlocks,    \* initialBatchDays, in blocks
    MinBlocks,        \* minBatchDays
    MaxBlocks,        \* maxBatchDays
    HeuristicBlocks,  \* per density bucket: 365, 90, 30, 7 and 1 days
    MaxBlockRange,    \* the RPC's widest query, 0 when unlimited
    ReductionFactor,
    GrowthPercent,    \* growthFactor 1.5 is 50
    SuccessThreshold, \* successThresholdForGrowth
    DensityTenths     \* lower edge of the buckets 1..4

Buckets == 0 .. 4

Lesser(a, b) == IF a <= b THEN a ELSE b
Greater(a, b) == IF a >= b THEN a ELSE b

CapToMaxBlockRange(blocks) ==
    IF MaxBlockRange <= 0 THEN blocks ELSE Lesser(blocks, MaxBlockRange)

InitialBatch == CapToMaxBlockRange(InitialBlocks)
MinBatch == CapToMaxBlockRange(MinBlocks)
MaxBatch == CapToMaxBlockRange(MaxBlocks)
Heuristic(bucket) == CapToMaxBlockRange(HeuristicBlocks[bucket])

\* The widest batch any sequence of calls can produce: the sparse-region jump
\* may reach twice the configured maximum.
Ceiling == CapToMaxBlockRange(2 * MaxBlocks)

ASSUME AdaptiveBatchAssumption ==
    /\ InitialBlocks \in Nat /\ MinBlocks \in Nat /\ MaxBlocks \in Nat
    /\ 1 <= MinBlocks /\ MinBlocks <= InitialBlocks /\ InitialBlocks <= MaxBlocks
    /\ HeuristicBlocks \in [Buckets -> Nat]
    /\ \A b \in Buckets : MinBlocks <= HeuristicBlocks[b]
    /\ MaxBlockRange \in Nat
    /\ ReductionFactor \in Nat \ {0}
    /\ GrowthPercent \in Nat
    /\ SuccessThreshold \in 1 .. 10
    /\ DensityTenths \in [1 .. 4 -> Nat]

-----------------------------------------------------------------------------
NewManager ==
    [current        |-> InitialBatch,
     successes      |-> 0,
     errors         |-> 0,
     empties        |-> 0,
     highActivity   |-> FALSE,
     lastSuccessful |-> InitialBatch,
     eventful       |-> FALSE,            \* lastEventDensity > 0
     bucket         |-> 0,                \* the bucket of lastEventDensity
     learned        |-> [b \in Buckets |-> 0]]   \* 0: no entry in the map

\* getDensityBucket of events / blocks.
DensityBucket(events, blocks) ==
    LET Above(b) == 10 * events > DensityTenths[b] * blocks
    IN IF Above(4) THEN 4
       ELSE IF Above(3) THEN 3
       ELSE IF Above(2) THEN 2
       ELSE IF Above(1) THEN 1 ELSE 0

LearnOptimalBatchSize(learned, bucket, size) ==
    [learned EXCEPT ![bucket] = Greater(@, size)]

PredictOptimalBatchSize(m) ==
    IF m.learned[m.bucket] > 0 THEN m.learned[m.bucket] ELSE Heuristic(m.bucket)

ShouldGrowBatchSize(m) ==
    /\ m.current < InitialBatch
    /\ ~m.highActivity
    /\ m.successes >= SuccessThreshold

\* growthFactor = 1 + (g - 1) * min(successes / 10, 1), applied and floored.
GrownBatchSize(m) ==
    Lesser((m.current * (1000 + GrowthPercent * m.successes)) \div 1000, MaxBatch)

\* Mutation: the jump forgets the network's ceiling.
JumpSizeUncapped(m) == Lesser(2 * MaxBatch, 4 * m.current)

JumpSize(m) == CapToMaxBlockRange(Lesser(2 * MaxBatch, 4 * m.current))

\* What recordSuccess has updated before it decides on the batch size.
Observed(m, events, blocks) ==
    LET successes == Lesser(m.successes + 1, 10)
        bucket == DensityBucket(events, blocks)
        calm == 10 * events < DensityTenths[2] * blocks
    IN [m EXCEPT !.successes = successes,
                 !.errors = 0,
                 !.empties = IF events = 0 THEN Lesser(@ + 1, 5) ELSE 0,
                 !.highActivity = @ /\ ~(calm /\ successes >= 3),
                 !.lastSuccessful = m.current,
                 !.eventful = events > 0,
                 !.bucket = bucket,
                 !.learned = LearnOptimalBatchSize(@, bucket, m.current)]

RecordSuccess(m, events, blocks) ==
    LET o == Observed(m, events, blocks)
    IN [o EXCEPT !.current =
          IF o.empties >= 5 /\ ~o.highActivity THEN JumpSize(o)
          ELSE IF ShouldGrowBatchSize(o) THEN GrownBatchSize(o) ELSE o.current]

\* Mutation: the reduction starts from the configured size.
RecordBatchSizeErrorFromInitial(m) ==
    LET errors == Lesser(m.errors + 1, 3)
    IN [m EXCEPT !.errors = errors,
                 !.successes = 0,
                 !.empties = 0,
                 !.highActivity = @ \/ errors >= 2,
                 !.current = Greater(InitialBatch \div (ReductionFactor * errors), MinBatch)]

RecordBatchSizeError(m) ==
    LET errors == Lesser(m.errors + 1, 3)
    IN [m EXCEPT !.errors = errors,
                 !.successes = 0,
                 !.empties = 0,
                 !.highActivity = @ \/ errors >= 2,
                 !.current = Greater(@ \div (ReductionFactor * errors), MinBatch)]

CalculateTargetBatchSize(m) ==
    IF m.lastSuccessful > 0 /\ m.eventful
    THEN Lesser(2 * PredictOptimalBatchSize(m), InitialBatch)
    ELSE (10 * m.lastSuccessful + (InitialBatch - m.lastSuccessful) * m.successes)
           \div 10

\* Mutation: a high activity zone is reset like any other.
ResetForNextRangeEverywhere(m) ==
    [m EXCEPT !.current = CalculateTargetBatchSize(m), !.successes = 0, !.errors = 0]

ResetForNextRange(m) ==
    [m EXCEPT !.current = IF m.highActivity
                          THEN Lesser(m.lastSuccessful, PredictOptimalBatchSize(m))
                          ELSE CalculateTargetBatchSize(m),
              !.successes = 0,
              !.errors = 0]

\* getSkipAheadBatchSize, a query: no state changes.
SkipAheadBatchSize(m) ==
    IF m.empties >= 3 /\ ~m.highActivity
    THEN LET multiplier == CASE m.empties = 3 -> 2 [] m.empties = 4 -> 4 [] OTHER -> 8
         IN CapToMaxBlockRange(Lesser(m.current * multiplier, Ceiling))
    ELSE m.current

-----------------------------------------------------------------------------
ManagerStates ==
    [current : Nat, successes : 0 .. 10, errors : 0 .. 3, empties : 0 .. 5,
     highActivity : BOOLEAN, lastSuccessful : Nat, eventful : BOOLEAN,
     bucket : Buckets, learned : [Buckets -> Nat]]

InBounds(size) == MinBatch <= size /\ size <= Ceiling

\* The current size and every size the manager remembers are within bounds.
WellSized(m) ==
    /\ m \in ManagerStates
    /\ InBounds(m.current)
    /\ InBounds(m.lastSuccessful)
    /\ \A b \in Buckets : m.learned[b] > 0 => InBounds(m.learned[b])

=============================================================================
