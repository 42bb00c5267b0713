-------------------------- MODULE MCSafeNextNonce ---------------------------
(* Six transactions: rivals at nonces 1 and 2, a hole at nonce 3. *)
EXTENDS SafeNextNonce

MCTxs == 1 .. 6
MCNonce == <<0, 1, 1, 2, 2, 4>>
=============================================================================
