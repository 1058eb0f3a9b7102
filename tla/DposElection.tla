---------------------------- MODULE DposElection ----------------------------
(***************************************************************************)
(* dpos_chain/consensus.ts and dpos_chain/executor.ts: what the blocks of  *)
(* one DPOS chain do to stakes, votes, candidates and the list of miners.  *)
(* A block is one step: its transactions, then what executePostBlockEvent  *)
(* does.  Maps are total functions: None, 0 and {} stand for a missing     *)
(* entry of candidate and newblocktime, of stake and vote, of producers.   *)
(***************************************************************************)
EXTENDS ElectionTerm, Selections, FiniteSetsExt

CONSTANTS
    Voters,                 \* who has stakes
    Producers,              \* who may produce blocks
    GenesisCandidates, InitialMiners,
    StakeAmounts,           \* of a mortgage
    MaxStake,               \* bound on the stake of a voter
    MaxVotes,               \* dposVoteMaxProducers
    MinCreator, MaxCreator, \* the options finishElection reads, or Undefined
    UnbanBlocks, TimeOffsetToLastBlock, TimeBan,
    MaxBlocks, Steps,       \* bound on the blocks, and the times between two of them
    None, Undefined

\* A stake is mortgaged by a positive amount (asserted), a block is later than its parent, the
\* chain begins with miners, and its options leave a miner to be elected (tool_host.md:210).
ASSUME ElectionAssumption ==
    /\ IsFiniteSet(Voters) /\ StakeAmounts \subseteq Nat \ {0}
    /\ Steps \subseteq Nat \ {0} /\ TimeBan \in Nat /\ None \notin Int
    /\ IsFiniteSet(Producers)
    /\ InitialMiners \in Seq(Producers) \ {<<>>} /\ IsInjective(InitialMiners)
    /\ MinCreator \in Nat \cup {Undefined} /\ MaxCreator \in (Nat \ {0}) \cup {Undefined} /\ Undefined \notin Nat
    /\ Undefined \in {MinCreator, MaxCreator} \/ MinCreator <= MaxCreator

VARIABLES
    number, time,   \* of the last block
    dpos            \* the key value "dpos" after it

electionVars == <<number, time, dpos>>

ElectionInit ==
    /\ number = 0
    /\ time = 0
    /\ dpos = [candidate |-> [p \in Producers |-> IF p \in GenesisCandidates THEN 0 ELSE None],
               vote |-> [p \in Producers |-> 0],
               stake |-> [v \in Voters |-> 0],
               producers |-> [v \in Voters |-> {}],
               newblocktime |-> [p \in Producers |-> None],
               miners |-> InitialMiners]

-----------------------------------------------------------------------------
(* Votes.                                                                   *)

\* _updatevote
UpdateVote(d, voter, amount) ==
    [d EXCEPT !.vote = [p \in Producers |-> IF p \in d.producers[voter] THEN @[p] + amount ELSE @[p]]]

ValidCandidates(d) == {p \in Producers : d.candidate[p] = 0}

Mortgage(d, from, amount) == UpdateVote([d EXCEPT !.stake[from] = @ + amount], from, amount)

\* Mutant: the whole stake is withdrawn together with the votes' receivers, before the votes.
UnmortgageProducersFirst(d, from, amount) ==
    IF d.stake[from] = 0 \/ d.stake[from] < amount THEN d
    ELSE LET less == [d EXCEPT !.stake[from] = @ - amount,
                               !.producers[from] = IF d.stake[from] = amount THEN {} ELSE @]
         IN  UpdateVote(less, from, -amount)

\* The handler fails without a stake, and returns a code when it is too small.
Unmortgage(d, from, amount) ==
    IF d.stake[from] = 0 \/ d.stake[from] < amount THEN d
    ELSE LET less == UpdateVote([d EXCEPT !.stake[from] = @ - amount], from, -amount)
         IN  [less EXCEPT !.producers[from] = IF less.stake[from] = 0 THEN {} ELSE @]

Vote(d, from, candidates) ==
    IF ~(candidates \subseteq ValidCandidates(d)) \/ d.stake[from] = 0 THEN d
    ELSE LET withdrawn == UpdateVote(d, from, -d.stake[from])
         IN  UpdateVote([withdrawn EXCEPT !.producers[from] = candidates], from, d.stake[from])

\* Mutant: whoever registers is a candidate without a ban.
RegisterAnew(d, candidate) == [d EXCEPT !.candidate[candidate] = 0]

RegisterToCandidate(d, candidate) ==
    [d EXCEPT !.candidate[candidate] = IF @ = None THEN 0 ELSE @]

\* What a transaction may leave of the state d.
AfterTransaction(d) ==
    UNION {
        {d},
        {Mortgage(d, v, a) : v \in {w \in Voters : d.stake[w] < MaxStake}, a \in StakeAmounts},
        {Unmortgage(d, v, a) : v \in Voters, a \in StakeAmounts},
        {Vote(d, v, ps) : v \in Voters, ps \in kSubset(1, Producers) \cup kSubset(MaxVotes, Producers)},
        {RegisterToCandidate(d, p) : p \in Producers}}

-----------------------------------------------------------------------------
(* After the transactions.                                                  *)

UpdateProducerTime(d, producer, t) == [d EXCEPT !.newblocktime[producer] = t]

Banned(d, p) == d.candidate[p] \notin {0, None}

UnbanProducer(d, t) ==
    [d EXCEPT !.candidate = [p \in Producers |-> IF Banned(d, p) /\ @[p] <= t THEN 0 ELSE @[p]]]

BanProducer(d, t) ==
    LET late == {m \in ToSet(d.miners) : d.newblocktime[m] # None /\ t - d.newblocktime[m] >= TimeOffsetToLastBlock}
    IN  [d EXCEPT !.candidate = [p \in Producers |-> IF p \in late THEN t + TimeBan ELSE @[p]]]

\* Mutant: whoever has votes, banned or not.
VotedIgnoringBans(d) == {p \in Producers : d.vote[p] > 0}
\* getVote: the candidates that count
Voted(d) == {p \in ValidCandidates(d) : d.vote[p] > 0}
\* The orders in which the sort may leave them: equal votes in any order.
ByVotes(d) ==
    {s \in SetToSeqs(Voted(d)) : \A i, j \in DOMAIN s : i < j => d.vote[s[i]] >= d.vote[s[j]]}

TooFew(s) == MinCreator # Undefined /\ Len(s) < MinCreator
Creators(s) == IF MaxCreator = Undefined \/ Len(s) <= MaxCreator THEN s ELSE SubSeq(s, 1, MaxCreator)

\* The list finishElection makes of the sorted candidates, before it is shuffled (DposChain).
Elected(d, sorted) ==
    LET creators == Creators(sorted)
        staying == Those(d.miners, {m \in Producers : ~Banned(d, m)})
        joining == Those(creators, Producers \ ToSet(staying))
        filled == staying \o SubSeq(joining, 1, Min({Len(joining), MinCreator - Len(staying)}))
    IN  CASE creators = <<>> -> d.miners
          [] creators # <<>> /\ ~TooFew(creators) -> creators
          [] OTHER -> IF ~TooFew(staying) THEN staying
                      ELSE IF TooFew(filled) THEN d.miners ELSE filled

FinishElection(d) == {[d EXCEPT !.miners = Elected(d, s)] : s \in ByVotes(d)}

\* Mutant: who has left the list keeps a time.
MaintainProducerAddingOnly(d, t) ==
    [d EXCEPT !.newblocktime = [p \in Producers |-> IF p \in ToSet(d.miners) /\ @[p] = None THEN t ELSE @[p]]]

MaintainProducer(d, t) ==
    [d EXCEPT !.newblocktime = [p \in Producers |->
        IF p \notin ToSet(d.miners) THEN None ELSE IF @[p] = None THEN t ELSE @[p]]]

Reselects(n) == n % ReSelectionBlocks = 0

\* executePostBlockEvent of block n, made by miner at t
AfterBlock(d, n, t, miner) ==
    LET timed == UpdateProducerTime(d, miner, t)
        unbanned == IF n % UnbanBlocks = 0 THEN UnbanProducer(timed, t) ELSE timed
        elected == IF Reselects(n) THEN FinishElection(BanProducer(unbanned, t)) ELSE {unbanned}
    IN  IF n = 1 \/ Reselects(n) THEN {MaintainProducer(e, t) : e \in elected} ELSE elected

-----------------------------------------------------------------------------
Block ==
    /\ number < MaxBlocks
    /\ number' = number + 1
    /\ \E step \in Steps : time' = time + step
    /\ \E miner \in ToSet(dpos.miners), d \in AfterTransaction(dpos) :
          dpos' \in AfterBlock(d, number', time', miner)

ElectionNext == Block
ElectionSpec == ElectionInit /\ [][ElectionNext]_electionVars

-----------------------------------------------------------------------------
\* The votes of a candidate are the stakes of those that vote for it, after any sequence of
\* mortgages, withdrawals, votes and bans; so no withdrawal finds a vote missing, which
\* _updatevote (consensus.ts:549) asserts.
VotesAddUp == \A p \in Producers :
    dpos.vote[p] = MapThenSumSet(LAMBDA v : dpos.stake[v], {v \in Voters : p \in dpos.producers[v]})

\* The list of miners never runs empty and names nobody twice, and the times of the last blocks
\* are kept for exactly the miners of the list (maintain_producer), so nobody is banned for the
\* time of an earlier term.
MinersTimed ==
    /\ dpos.miners # <<>> /\ IsInjective(dpos.miners)
    /\ number > 0 => {p \in Producers : dpos.newblocktime[p] # None} = ToSet(dpos.miners)

\* After an election a banned producer is a miner only if there are no votes to elect by or too
\* few producers without a ban.
BannedLeave == number > 0 /\ Reselects(number) =>
    \/ \A m \in ToSet(dpos.miners) : ~Banned(dpos, m)
    \/ Voted(dpos) = {}
    \/ TooFew(SetToSeq({m \in ToSet(dpos.miners) : ~Banned(dpos, m)} \cup Voted(dpos)))

\* Who may be a miner, and since when.
MinersInOffice == MinersTimed /\ BannedLeave

\* A ban ends when its time has come and not before, whatever the producer registers or is
\* elected to meanwhile.
BanHolds == [][\A p \in Producers :
    Banned(dpos, p) /\ ~Banned(dpos', p) => dpos'.candidate[p] = 0 /\ dpos.candidate[p] <= time']_electionVars
=============================================================================
