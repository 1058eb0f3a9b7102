---------------------------- MODULE DbftElection ----------------------------
(***************************************************************************)
(* dbft_chain/context.ts, executor.ts, chain.ts and header_storage.ts: how *)
(* the blocks of a dBFT chain make the lists of validators and where nodes *)
(* read them again.  A block is one step: its transactions, the election   *)
(* after them, and the row it gets in the table of headers once verified.  *)
(* The chain has no branches here; DbftConsensus has what decides on them. *)
(***************************************************************************)
EXTENDS DbftTerm, Sequences, Selections

CONSTANTS
    Order,              \* the addresses, as hgetall lists them
    GenesisValidators,
    SuperAdmin, Callers,
    MinWaitBlocksToMiner, MinValidator, MaxValidator,
    MaxView, MaxNumber, MaxLosses,      \* bounds on views, blocks and rows that are not written
    Absent

VARIABLES
    kv,     \* the key value "dbft" after each block, from the genesis: [candidate, miners]
    view,   \* of each block
    written,    \* of each block in the table "miners": [miners, totalView], or Absent
    losses

dbftVars == <<kv, view, written, losses>>

ValidatorAddresses == {Order[i] : i \in DOMAIN Order}

\* There is a genesis validator, and an election that changes the list elects somebody.
ASSUME ValidatorsAssumption ==
    /\ Order \in Seq(ValidatorAddresses)
    /\ GenesisValidators \in Seq(ValidatorAddresses) /\ GenesisValidators # <<>>
    /\ MinValidator \in Nat \ {0} /\ {MinWaitBlocksToMiner, MaxValidator} \subseteq Nat

Members(list) == {list[i] : i \in DOMAIN list}
Number == Len(kv) - 1
StateAfter(n) == kv[n + 1]
Row(n) == written[n + 1]

\* init of the context: a genesis validator is a candidate from height 0 on
GenesisState ==
    [candidate |-> [a \in ValidatorAddresses |-> IF a \in Members(GenesisValidators) THEN 0 ELSE Absent],
     miners |-> GenesisValidators]

ValidatorsInit ==
    /\ kv = <<GenesisState>>
    /\ view = <<0>>
    /\ written = <<[miners |-> GenesisValidators, totalView |-> 1]>>
    /\ losses = 0

-----------------------------------------------------------------------------
(* What a block does to the state.                                          *)

\* registering again starts the wait again
RegisterAsCandidate(s, caller, address, n) ==
    IF caller # SuperAdmin THEN s ELSE [s EXCEPT !.candidate[address] = n]
UnRegisterAsCandidate(s, caller, address) ==
    IF caller # SuperAdmin THEN s ELSE [s EXCEPT !.candidate[address] = Absent]

AfterCall(s, n) ==
    {s} \cup UNION {{RegisterAsCandidate(s, c, a, n), UnRegisterAsCandidate(s, c, a)} :
                        c \in Callers, a \in ValidatorAddresses}

\* Mutant: one block less of waiting.
WaitedButOne(s, n, a) == s.candidate[a] # Absent /\ n - s.candidate[a] + 1 >= MinWaitBlocksToMiner
Waited(s, n, a) == s.candidate[a] # Absent /\ n - s.candidate[a] >= MinWaitBlocksToMiner

\* slice(maxValidator) leaves what is behind the first maxValidator
Limited(list) == IF Len(list) > MaxValidator THEN SubSeq(list, MaxValidator + 1, Len(list)) ELSE list

\* updateMiners: too few candidates leave the list as it is
UpdateMiners(s, n) ==
    LET waited == Those(Order, {a \in ValidatorAddresses : Waited(s, n, a)})
    IN  IF Len(waited) < MinValidator THEN s ELSE [s EXCEPT !.miners = Limited(waited)]

AfterElection(s, n) == IF IsElectionBlockNumber(n) THEN UpdateMiners(s, n) ELSE s

-----------------------------------------------------------------------------
(* The table of headers.                                                    *)

\* The views spent on a block: 2 ^ (view + 1) - 1.
Cost(v) == 2^(v + 1) - 1

\* addHeader: only an election block names its list, and none is added after a missing one
AddHeader(n, s, v) ==
    IF Row(n - 1) = Absent THEN Absent
    ELSE [miners |-> IF IsElectionBlockNumber(n) THEN s.miners ELSE <<>>, totalView |-> Row(n - 1).totalView + Cost(v)]

\* Whatever keeps the row from being written (an error, which _addVerifiedBlock drops, or a
\* crash), the block stays the tip.
ElectingBlock ==
    LET n == Number + 1
    IN  /\ n <= MaxNumber
        /\ \E s \in AfterCall(StateAfter(n - 1), n), v \in 0 .. MaxView, lost \in {0, 1} :
              /\ losses + lost <= MaxLosses
              /\ kv' = Append(kv, AfterElection(s, n))
              /\ view' = Append(view, v)
              /\ written' = Append(written, IF lost = 1 THEN Absent ELSE AddHeader(n, AfterElection(s, n), v))
              /\ losses' = losses + lost

ValidatorsNext == ElectingBlock
ValidatorsSpec == ValidatorsInit /\ [][ValidatorsNext]_dbftVars

\* getMiners and isMiner of the context, which handlers and views read
GetMiners(n) == StateAfter(n).miners
IsMiner(n, a) == a \in Members(StateAfter(n).miners)

\* getNextMiners of the table, by which headers are verified and blocks proposed
ElectionOf(n) == GetElectionBlockNumber(n + 1)
GetNextMiners(n) == Row(ElectionOf(n)).miners

-----------------------------------------------------------------------------
\* The list by which a node verifies the child of a block is the list that handlers see in the
\* state of that block, for every block whose election has its row; nobody is on it who is
\* no miner there.
ListsAgree == \A n \in 0 .. Number : Row(ElectionOf(n)) # Absent =>
    /\ GetNextMiners(n) = GetMiners(n)
    /\ \A a \in ValidatorAddresses : IsMiner(n, a) = (a \in Members(GetNextMiners(n)))

\* The rows end at the first that is missing, and the total of one counts every view up to it.
TotalsAddUp == \A n \in 1 .. Number : Row(n) # Absent =>
    Row(n - 1) # Absent /\ Row(n).totalView = Row(n - 1).totalView + Cost(view[n + 1])

\* A validator that an election puts on the list had been a candidate, without a break, for as
\* many blocks as it must wait (tool_host.md:288), whoever registered and left meanwhile;
\* the list never runs empty.
ValidatorsWaited == \A n \in 1 .. Number :
    /\ StateAfter(n).miners # <<>>
    /\ IsElectionBlockNumber(n) =>
          \/ StateAfter(n).miners = StateAfter(n - 1).miners
          \/ \A a \in Members(StateAfter(n).miners), k \in 0 .. n :
                n - k <= MinWaitBlocksToMiner => StateAfter(k).candidate[a] # Absent

\* What nodes believe of the validators.
ValidatorsKnown == ListsAgree /\ TotalsAddUp /\ ValidatorsWaited
=============================================================================
