-------------------------- MODULE MCAdaptiveBatch --------------------------
(* Small values for the manager's constants. *)
EXTENDS AdaptiveBatchAlone

\* Buckets 0 (sparse) .. 4 (very dense): 365, 90, 30, 7 and 1 days shrink here
\* to sizes on both sides of the initial and of the maximal batch.
MCHeuristicBlocks == [b \in Buckets |-> <<8, 5, 3, 2, 1>>[b + 1]]
MCDensityTenths == <<1, 3, 20, 30>>
=============================================================================
