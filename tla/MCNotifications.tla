-------------------------- MODULE MCNotifications --------------------------
(* Two messages of one organisation; one user wants both, the other one. *)
EXTENDS Notifications

CONSTANTS m1, m2, u1, u2

MCWants == [u \in Users |-> IF u = u1 THEN {m1, m2} ELSE {m1}]

=============================================================================
