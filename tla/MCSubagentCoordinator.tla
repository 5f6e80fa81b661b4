----------------------- MODULE MCSubagentCoordinator -----------------------
(***************************************************************************)
(* SubagentCoordinator for TLC: callers, trackers, ids and handles are     *)
(* interchangeable among themselves.                                       *)
(***************************************************************************)
EXTENDS SubagentCoordinator, TLC

Symmetry == Permutations(Callers) \cup Permutations(Trackers)
              \cup Permutations(Ids) \cup Permutations(Handles)
=============================================================================
