CONSTANTS
    Txs <- MCTxs
    Nonce <- MCNonce
    Limit = 3
    Orderings = {"descending", "ascending"}
    MaxScans = 1
SPECIFICATION Spec
INVARIANTS ScanInvariant NextNonceIsFree HolesAreFilled SpentOnlyInWindow
CHECK_DEADLOCK FALSE
