---------------------------- MODULE MCChainSync ----------------------------
(* Small instances of ChainSync. *)
EXTENDS ChainSync

CONSTANTS p1, p2, a1, a2, a3, a4, b2

\* A chain a1 - a2 - a3 - a4, and b2 beside a2.
MCParent == [b \in Blocks |-> CASE b = a1 -> Genesis [] b \in {a2, b2} -> a1 [] b = a3 -> a2 [] b = a4 -> a3]

\* p1 follows the first branch, p2 the second one.
MCKnown == [p \in Peers |-> IF p = p1 THEN Blocks \ {b2} ELSE Blocks \cap {a1, b2}]

\* A peer that may start with nothing.
MCKnownAll == [p \in Peers |-> Blocks \cup {Genesis}]
=============================================================================
