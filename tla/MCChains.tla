------------------------------ MODULE MCChains ------------------------------
(***************************************************************************)
(* What the kinds of chains add, one part at a time: the elections of a    *)
(* DPOS chain (DposElection) and its miners (DposChain), the execution of  *)
(* a block (ValueExecutor), the validators of a dBFT chain (DbftElection), *)
(* the difficulty of a POW chain (PowChain), and the routines of a miner   *)
(* (BlockRoutines).  The parts share nothing; part says which one runs.    *)
(***************************************************************************)
EXTENDS BlockRoutines, DposElection, DposChain, DbftElection, ValueExecutor

CONSTANTS p1, p2, p3, v1, v2, n1, n2, u1, u2,
          d1, d2, d3, admin, other,
          m1, m2, m3, w1

VARIABLES part,
          headers, known, executed, best

powVars == <<headers, known, executed, best>>

\* An election keeps both miners of DposChain, or leaves n1 out.
MCInitialMiners == <<p1, p2>>
MCGenesisMiners == <<n1, n2>>
MCLists == {<<n1, n2>>, <<n2>>}
\* Two of three addresses are the genesis validators.
MCOrder == <<d1, d2, d3>>
MCGenesisValidators == <<d1, d2>>

Difficulty == INSTANCE PowChain WITH
    Nodes <- {n1, n2}, Byte <- 4, RetargetInterval <- 3, TargetTimespan <- 4, Limit <- 40,
    BasicBits <- [exponent |-> 3, mantissa |-> 30], MaxHeaders <- 6, Steps <- {-1, 5}

ChainsInit ==
    /\ part \in {"election", "chain", "value", "validators", "difficulty", "routines"}
    /\ ElectionInit /\ DposInit /\ ValueInit /\ ValidatorsInit /\ Difficulty!Init /\ RoutinesInit
    /\ part = "routines" \/ ~inChild

ChainsNext ==
    \/ part = "election" /\ ElectionNext
          /\ UNCHANGED <<part, chainVars, valueVars, dbftVars, powVars, routineVars>>
    \/ part = "chain" /\ DposNext
          /\ UNCHANGED <<part, electionVars, valueVars, dbftVars, powVars, routineVars>>
    \/ part = "value" /\ ValueNext
          /\ UNCHANGED <<part, electionVars, chainVars, dbftVars, powVars, routineVars>>
    \/ part = "validators" /\ ValidatorsNext
          /\ UNCHANGED <<part, electionVars, chainVars, valueVars, powVars, routineVars>>
    \/ part = "difficulty" /\ Difficulty!Next
          /\ UNCHANGED <<part, electionVars, chainVars, valueVars, dbftVars, routineVars>>
    \/ part = "routines" /\ RoutinesNext
          /\ UNCHANGED <<part, electionVars, chainVars, valueVars, dbftVars, powVars>>

ChainsSpec == ChainsInit /\ [][ChainsNext]_<<part, electionVars, chainVars, valueVars, dbftVars, powVars, routineVars>>

\* The property of the part that is an instance.
DifficultyAgreed == Difficulty!DifficultyAgreed
=============================================================================
