------------------------ MODULE AdaptiveBatchAlone -------------------------
(***************************************************************************)
(* One AdaptiveBatchSizeManager whose methods are called in any order, as  *)
(* the class allows: what it guarantees whoever drives it.                 *)
(***************************************************************************)
EXTENDS AdaptiveBatch

CONSTANT MaxEvents      \* bound on the events one query returns
ASSUME MaxEventsAssumption == MaxEvents \in Nat

VARIABLE manager

ManagerInit == manager = NewManager

\* A successful query is at most one block wider than the batch: the crawler
\* adds the batch to the first block without subtracting one on its first run.
Success(events, blocks) ==
    /\ blocks <= manager.current + 1
    /\ manager' = RecordSuccess(manager, events, blocks)

BatchSizeError == manager' = RecordBatchSizeError(manager)

Reset == manager' = ResetForNextRange(manager)

ManagerNext ==
    \/ \E events \in 0 .. MaxEvents, blocks \in 1 .. Ceiling + 1 : Success(events, blocks)
    \/ BatchSizeError
    \/ Reset

ManagerSpec == ManagerInit /\ [][ManagerNext]_manager

-----------------------------------------------------------------------------
ManagerTypeOK == manager \in ManagerStates

\* Growth, the sparse-region jump, the learned sizes and the reductions never
\* leave the configured range, in whatever order successes, errors and resets
\* come: never under the minimum batch, never over the network's
\* MAX_BLOCK_RANGE (capToMaxBlockRange) or twice the configured maximum.
BatchWithinBounds ==
    WellSized(manager) /\ SkipAheadBatchSize(manager) <= Ceiling

\* recordBatchSizeError is called because the RPC refused the range: it never
\* answers with a wider one, so that retrying converges to the minimum.
ErrorNeverWidens ==
    [][BatchSizeError => manager'.current <= manager.current]_manager

\* In a high activity zone only a reset may widen the batch, and then never
\* beyond the last size the RPC accepted.
HighActivityIsConservative ==
    [][manager.highActivity /\ manager'.highActivity =>
         \/ manager'.current <= manager.current
         \/ manager'.current <= manager.lastSuccessful]_manager

=============================================================================
