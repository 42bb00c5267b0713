----------------------------- MODULE MCSafeStore ----------------------------
(* Two rivals for one nonce. *)
EXTENDS SafeStore, TLC

CONSTANTS t1, t2, w1, w2

MCTxs == {t1, t2}
MCNonce == t1 :> 0 @@ t2 :> 0
MCJobs == {w1, w2}

\* Bound: one older page at a time waits for its job.
MCBound == \E w \in Jobs : cached[w] = NoPage

MCSymmetry == Permutations(MCTxs) \cup Permutations(MCJobs)
=============================================================================
