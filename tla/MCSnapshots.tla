---------------------------- MODULE MCSnapshots ----------------------------
(* Small instances of Snapshots. *)
EXTENDS Snapshots, TLC

CONSTANTS r1, r2

\* Readers all do the same.
ReaderSymmetry == Permutations(Readers)
=============================================================================
