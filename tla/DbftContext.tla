---------------------------- MODULE DbftContext ----------------------------
(***************************************************************************)
(* The static functions of src/src/core/dbft_chain/context.ts and the two  *)
(* queries of header_storage.ts that every part of the dBFT chain shares:  *)
(* which block heights elect validators, who proposes in a view, and when  *)
(* a number of agreeing validators is enough.  The validator lists the     *)
(* elections produced are a parameter here.                                *)
(***************************************************************************)
EXTENDS DbftTerm, Sequences, FiniteSets

CONSTANTS
    Node,                  \* addresses of the nodes, validators or not
    MinerLists,            \* MinerLists[n]: validators elected by block n
    AgreeRateNumerator,    \* globalOptions.agreeRateNumerator
    AgreeRateDenominator   \* globalOptions.agreeRateDenominator

ASSUME ContextAssumption ==
    /\ IsFiniteSet(Node)
    /\ ReSelectionBlocks \in Nat \ {0}
    /\ AgreeRateNumerator \in Nat \ {0}
    /\ AgreeRateDenominator \in Nat \ {0}
    /\ DOMAIN MinerLists \subseteq Nat
    /\ \A n \in DOMAIN MinerLists :
          /\ MinerLists[n] \in Seq(Node) \ {<<>>}
          /\ \A j, k \in DOMAIN MinerLists[n] :
                MinerLists[n][j] = MinerLists[n][k] => j = k

MembersOf(miners) == {miners[k] : k \in DOMAIN miners}

\* agree >= count * numerator / denominator, without the division.
IsAgreeRateReached(minerCount, agreeCount) ==
    agreeCount * AgreeRateDenominator >= minerCount * AgreeRateNumerator

\* Mutant: the validators of the block itself, not of the next one.
SameMinersAt(n) == MinerLists[GetElectionBlockNumber(n)]

\* The validators that decide the block after a block of height n.
NextMinersAt(n) == MinerLists[GetElectionBlockNumber(n + 1)]

\* Mutant: the view does not move the turn on.
StuckDueNextMiner(pre, miners, view) ==
    LET behind == {k \in DOMAIN miners : miners[k] = pre.miner}
        offset == IF IsElectionBlockNumber(pre.number) \/ behind = {}
                  THEN 0
                  ELSE CHOOSE k \in behind : TRUE
    IN  miners[(offset % Len(miners)) + 1]

\* Who proposes the child of the block with header pre in the given view:
\* the list is taken from its start after an election, and from the member
\* behind the last proposer otherwise.
GetDueNextMiner(pre, miners, view) ==
    LET behind == {k \in DOMAIN miners : miners[k] = pre.miner}
        offset == IF IsElectionBlockNumber(pre.number) \/ behind = {}
                  THEN view
                  ELSE view + (CHOOSE k \in behind : TRUE)
    IN  miners[(offset % Len(miners)) + 1]
=============================================================================
