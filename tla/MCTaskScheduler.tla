-------------------------- MODULE MCTaskScheduler --------------------------
(* Three runs of two processes on one machine, or on two. *)
EXTENDS TaskScheduler, TLC

CONSTANTS p1, p2, r1, r2, r3

MCProc == [r \in {r1, r2, r3} |-> IF r = r3 THEN p2 ELSE p1]
MCProc2 == [r \in {r1, r2} |-> IF r = r2 THEN p2 ELSE p1]
MCPid == [p \in {p1, p2} |-> IF p = p1 THEN 1 ELSE 2]
MCSamePid == [p \in {p1, p2} |-> 1]
MCOneHost == [p \in {p1, p2} |-> "a"]
MCTwoHosts == [p \in {p1, p2} |-> IF p = p1 THEN "a" ELSE "b"]

\* The two runs of the first process are alike.
MCSymmetry == Permutations({r1, r2})
=============================================================================
