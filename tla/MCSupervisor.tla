---------------------------- MODULE MCSupervisor ----------------------------
(***************************************************************************)
(* Supervisor for TLC: callers, ids and handles are interchangeable.       *)
(***************************************************************************)
EXTENDS Supervisor, TLC

Symmetry ==
  Permutations(Actors) \cup Permutations(Ids) \cup Permutations(Handles)
=============================================================================
