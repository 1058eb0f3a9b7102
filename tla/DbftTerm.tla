------------------------------ MODULE DbftTerm ------------------------------
(***************************************************************************)
(* The two functions of src/src/core/dbft_chain/context.ts that the nodes  *)
(* (DbftContext) and the elections (DbftElection) of a dBFT chain share.   *)
(***************************************************************************)
EXTENDS ElectionTerm

\* The height of the block whose election governs block n.
GetElectionBlockNumber(n) ==
    IF n = 0 THEN 0 ELSE ((n - 1) \div ReSelectionBlocks) * ReSelectionBlocks

IsElectionBlockNumber(n) == n % ReSelectionBlocks = 0
=============================================================================
