CONSTANTS
    Voters = {v1, v2}
    NoOne = NoOne
    Crawlers = {c1, c2}
    Kinds = {"token", "multisig", "objection"}
    MaxTxs = 2
    MaxQueue = 1
    Faults <- MCFaults
CONSTRAINT MCBound
SYMMETRY Symmetry
SPECIFICATION Spec
INVARIANTS VotesInvariant StoreFollowsTheChain MetricsFollowVotes
CHECK_DEADLOCK FALSE
