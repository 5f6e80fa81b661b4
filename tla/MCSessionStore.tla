--------------------------- MODULE MCSessionStore ---------------------------
(***************************************************************************)
(* SessionStore for TLC: managers are interchangeable, and so are the      *)
(* files that are not an older version's.                                  *)
(***************************************************************************)
EXTENDS SessionStore, TLC

Symmetry == Permutations(Managers) \cup Permutations(Files \ OldFiles)
=============================================================================
