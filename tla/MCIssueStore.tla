---------------------------- MODULE MCIssueStore ----------------------------
(***************************************************************************)
(* IssueStore for TLC: two processes, one of them with two tasks, which    *)
(* are interchangeable.                                                    *)
(***************************************************************************)
EXTENDS IssueStore, TLC

CONSTANTS p1, p2, t1, t2, t3

MCProcessOf == [t \in Tasks |-> IF t = t3 THEN p2 ELSE p1]

Symmetry == Permutations({t1, t2})
=============================================================================
