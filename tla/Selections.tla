----------------------------- MODULE Selections -----------------------------
(***************************************************************************)
(* What a loop that pushes some of the elements of an array into another   *)
(* one makes.                                                              *)
(***************************************************************************)
EXTENDS Sequences, SequencesExt

\* The elements of s that are in T, in their order.
Those(s, T) == FoldLeft(LAMBDA r, x : IF x \in T THEN Append(r, x) ELSE r, <<>>, s)
=============================================================================
