------------------------ MODULE MCFileMutationQueue -------------------------
(***************************************************************************)
(* FileMutationQueue for TLC: one file with one path, another with two,    *)
(* and tasks that are interchangeable.                                     *)
(***************************************************************************)
EXTENDS FileMutationQueue, TLC

CONSTANTS f, g, plain, canonical, given

FileOfPath == [p \in {plain, canonical, given} |-> IF p = plain THEN f ELSE g]
CanonicalPath == [x \in {f, g} |-> IF x = f THEN plain ELSE canonical]

Symmetry == Permutations(Tasks)
=============================================================================
