----------------------------- MODULE MCSafeReads ----------------------------
(* Two page readers of one process, one of which skips the cache, and the  *)
(* next-nonce reads of another process.                                    *)
EXTENDS SafeReads

MCPageReaders == {"poll", "backfill"}
MCBypassReaders == {"backfill"}
MCNonceReaders == {"nonce"}
MCProcessOf == [poll |-> "dao", backfill |-> "dao", nonce |-> "gateway"]
MCHourBucket == [t \in 0 .. 2 |-> IF t < 2 THEN "T14" ELSE "T15"]
=============================================================================
