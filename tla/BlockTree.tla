----------------------------- MODULE BlockTree -----------------------------
(***************************************************************************)
(* What the dBFT chain promises, without messages, timers or miners: a     *)
(* tree of certified blocks grows, with at most one child of a block for   *)
(* each view, and every node's chain climbs from certified block to higher *)
(* certified block.                                                        *)
(***************************************************************************)
EXTENDS Integers

CONSTANTS Node, Genesis

VARIABLES
    decided,   \* certified blocks: [id, pre, number, view]
    tip        \* tip[i]: id of the block node i's chain ends with

\* Block d takes a free place below a certified block.
MayDecide(d, others) ==
    /\ \A e \in others : e.pre = d.pre /\ e.view = d.view => e = d
    /\ \E p \in others : p.id = d.pre /\ d.number = p.number + 1

NumberOf(id, blocks) == (CHOOSE d \in blocks : d.id = id).number

Init ==
    /\ decided = {[id |-> Genesis, pre |-> 0, number |-> 0, view |-> 0]}
    /\ tip = [i \in Node |-> Genesis]

\* A block is certified and the chains of some nodes climb.
Grow ==
    /\ decided \subseteq decided'
    /\ \A d \in decided' \ decided : MayDecide(d, decided')
    /\ \A i \in Node :
          tip'[i] # tip[i] =>
             /\ \E d \in decided' : d.id = tip'[i]
             /\ NumberOf(tip'[i], decided') > NumberOf(tip[i], decided')

Spec == Init /\ [][Grow]_<<decided, tip>>
=============================================================================
