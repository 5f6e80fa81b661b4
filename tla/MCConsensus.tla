---------------------------- MODULE MCConsensus -----------------------------
(***************************************************************************)
(* Consensus for TLC: the name of one option contains that of another, and *)
(* all steps have questions of one length and ask for one vote.            *)
(***************************************************************************)
EXTENDS Consensus

CONSTANTS no, unknown, yes, id

ListedOptions == <<no, unknown, yes>>
ContainedOptions ==
  [r \in {no, unknown, yes} |-> IF r = unknown THEN {no, unknown} ELSE {r}]
OneId == [s \in Steps |-> id]
OneVote == [s \in Steps |-> 1]
=============================================================================
