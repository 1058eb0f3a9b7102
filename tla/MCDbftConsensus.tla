-------------------------- MODULE MCDbftConsensus --------------------------
(* Small instances of DbftConsensus. *)
EXTENDS DbftConsensus

CONSTANTS n1, n2, n3

FullMesh == Node \X Node

\* n1 and n3 only have n2 in common.
Chain3 == {<<n1, n2>>, <<n2, n1>>, <<n2, n3>>, <<n3, n2>>}

\* n2 and n3 only have the first proposer in common.
Star3 == {<<n1, n2>>, <<n2, n1>>, <<n1, n3>>, <<n3, n1>>}

\* One list of validators for the whole chain.
MCLists3 == [n \in {0} |-> <<n1, n2, n3>>]

\* n3 leaves the validators with the election of block 1.
MCListsLeave == [n \in 0 .. 2 |-> IF n = 0 THEN <<n1, n2, n3>> ELSE <<n1, n2>>]
=============================================================================
