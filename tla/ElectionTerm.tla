---------------------------- MODULE ElectionTerm ----------------------------
(***************************************************************************)
(* The option that the elections and the nodes of DPOS and dBFT chains     *)
(* read: globalOptions.reSelectionBlocks.                                  *)
(***************************************************************************)
EXTENDS Integers

CONSTANT ReSelectionBlocks  \* the blocks of a term

\* A term has a block: numbers are taken modulo it.
ASSUME TermAssumption == ReSelectionBlocks \in Nat \ {0}
=============================================================================
