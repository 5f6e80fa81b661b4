---------------------------- MODULE MCAgentLoop ----------------------------
(***************************************************************************)
(* AgentLoop for TLC: messages of one queue are interchangeable.           *)
(***************************************************************************)
EXTENDS AgentLoop, TLC

Symmetry == Permutations(SessionSteers) \cup Permutations(SessionFollows)
============================================================================
