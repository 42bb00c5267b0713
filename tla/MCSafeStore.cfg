CONSTANTS
    t1 = t1
    t2 = t2
    w1 = w1
    w2 = w2
    Txs <- MCTxs
    Nonce <- MCNonce
    Jobs <- MCJobs
    PageSize = 1
    MaxTime = 2
    MaxSyncs = 2
    MaxEvents = 1
SPECIFICATION Spec
INVARIANTS StoreInvariant BackfillRepairs
PROPERTIES SettledIsFinal StampAdvertisesRows
CONSTRAINT MCBound
SYMMETRY MCSymmetry
CHECK_DEADLOCK FALSE
