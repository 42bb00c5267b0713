---------------------------- MODULE MCProposals ----------------------------
EXTENDS Proposals, TLC

\* One crash, or one operation that fails.
MCFaults == {<<1, 0>>, <<0, 1>>}

\* Bound: after a crash or a failure only chains of at most four events go on.
MCBound == crashes + losses > 0 => Len(chain) <= 4

Symmetry == Permutations(Voters) \cup Permutations(Crawlers)

=============================================================================
