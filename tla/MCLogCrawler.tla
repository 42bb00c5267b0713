--------------------------- MODULE MCLogCrawler ----------------------------
(* Small values for the crawler's constants. *)
EXTENDS LogCrawler, TLC

\* Every range is sparser than the heuristics' buckets 3 and 4.
MCHeuristicBlocks == [b \in Buckets |-> <<6, 5, 4, 2, 2>>[b + 1]]
MCDensityTenths == <<1, 4, 20, 30>>

Symmetry == Permutations(Workers)
=============================================================================
