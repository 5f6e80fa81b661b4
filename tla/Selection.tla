----------------------------- MODULE Selection ------------------------------
(***************************************************************************)
(* Iterator::filter and Vec::retain. What stays is given by its places,    *)
(* and the recursion is that of a function: SelectSeq and its test would   *)
(* be out of the provers' reach.                                           *)
(***************************************************************************)
EXTENDS Integers, Sequences

\* The elements of the sequence at these places, in their order.
Picked(seq, places) ==
  LET upTo[n \in 0..Len(seq)] ==
        IF n = 0 THEN <<>>
        ELSE IF n \in places THEN Append(upTo[n - 1], seq[n]) ELSE upTo[n - 1]
  IN  upTo[Len(seq)]
=============================================================================
