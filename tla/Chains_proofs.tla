---------------------------- MODULE Chains_proofs ----------------------------
(***************************************************************************)
(* Proofs about what the kinds of chains add.                              *)
(*                                                                         *)
(* DposElection, for any voters, producers, amounts, times and options:    *)
(* the votes of a producer are the stakes behind it, a ban ends at its     *)
(* time and not before, and the list of miners is never empty and names    *)
(* nobody twice, whatever is elected.  DposChain, for any miners, any      *)
(* lists the elections may make, any length of a term, any forks and any   *)
(* crashes, and timers that end late or a little early: along a chain the  *)
(* index grows, but for the miner whose turn it is, which needs a timeout  *)
(* for each block, and without a crash no timer of a miner ends.           *)
(*                                                                         *)
(* ValueExecutor: for any users, amounts and wages, and any calls of the   *)
(* listeners, no coins are made or lost, and the receipts tell what was    *)
(* paid and how often a nonce was used.                                    *)
(*                                                                         *)
(* DbftElection: the validators a node reads in its table are those in the *)
(* state, for any elections, and whoever they elect has waited.            *)
(*                                                                         *)
(* BlockRoutines: routines of a miner do not disturb each other, for any   *)
(* number of tips, of blocks to verify and of faults, and for both kinds   *)
(* of routines.  The argument is about names.  Whoever loses the miner is  *)
(* in taken for good, and a name holds the miner at most once, so          *)
(* CheckCancel never takes one in taken for the holder again.  And the one *)
(* routine that the miner's state names is always at a place where         *)
(* somebody will call setIdle for it; a child is only alive while its      *)
(* routine waits for it.                                                   *)
(***************************************************************************)
EXTENDS DposElection, DposChain, DbftElection, ValueExecutor, BlockRoutines, DataFacts

-----------------------------------------------------------------------------
(* The elections.  A transaction changes what one voter has staked and     *)
(* voted for.  What the others stand behind a producer does not move, so   *)
(* the votes are right if they move by what that voter adds or takes back. *)

Fields == {"candidate", "vote", "stake", "producers", "newblocktime", "miners"}

State(d) ==
    /\ DOMAIN d = Fields
    /\ d.candidate \in [Producers -> Int \cup {None}]
    /\ d.vote \in [Producers -> Int]
    /\ d.stake \in [Voters -> Nat]
    /\ d.producers \in [Voters -> SUBSET Producers]

\* Who votes for p.
Behind(d, p) == {v \in Voters : p \in d.producers[v]}

Others(d, p, v) == Behind(d, p) \ {v}

\* What voter v adds to the votes of p.
Part(d, v, p) == IF p \in d.producers[v] THEN d.stake[v] ELSE 0

Tallied(d) == State(d) /\ \A p \in Producers : d.vote[p] = Total(d.stake, Behind(d, p))

\* Nothing of stakes and votes has changed.
Keeps(d, e) == State(e) /\ e.vote = d.vote /\ e.stake = d.stake /\ e.producers = d.producers

\* The miners and the times of their blocks have not changed.
SameMiners(d, e) == e.miners = d.miners /\ e.newblocktime = d.newblocktime

\* A ban that ends, ends as it should.
BansHold(d, e, t) == \A p \in Producers :
    Banned(d, p) /\ ~Banned(e, p) => e.candidate[p] = 0 /\ d.candidate[p] <= t

-----------------------------------------------------------------------------
(* Votes.                                                                  *)

LEMMA BehindFacts ==
    ASSUME NEW d, State(d), NEW p \in Producers, NEW v \in Voters
    PROVE  /\ Total(d.stake, Behind(d, p)) = Part(d, v, p) + Total(d.stake, Others(d, p, v))
           /\ Total(d.stake, Others(d, p, v)) \in Int
           /\ IsFiniteSet(Others(d, p, v)) /\ Others(d, p, v) \subseteq Voters \ {v}
<1> DEFINE S == Behind(d, p)
           R == Others(d, p, v)
<1>1. S \subseteq Voters /\ (v \in S <=> p \in d.producers[v]) /\ R = S \ {v}
  BY DEF Behind, Others
<1> HIDE DEF S, R
<1>2. IsFiniteSet(S) /\ IsFiniteSet(R) /\ R \subseteq Voters \ {v}
  BY <1>1, FS_Subset, ElectionAssumption
<1>3. \A w \in Voters : d.stake[w] \in Int
  BY DEF State
<1>4. Total(d.stake, R) \in Int
  BY <1>2, <1>3, TotalType
<1>5. Total(d.stake, S) = Part(d, v, p) + Total(d.stake, R)
  <2>1. CASE v \in S
    <3>1. Total(d.stake, S) = d.stake[v] + Total(d.stake, R)
      BY <1>1, <1>2, <1>3, <2>1, TotalRemove
    <3> QED
      BY <1>1, <2>1, <3>1 DEF Part
  <2>2. CASE v \notin S
    <3>1. R = S
      BY <1>1, <2>2
    <3>2. Part(d, v, p) = 0
      BY <1>1, <2>2 DEF Part
    <3> QED
      BY <1>4, <3>1, <3>2
  <2> QED
    BY <2>1, <2>2
<1> QED
  BY <1>2, <1>4, <1>5 DEF S, R

\* The votes stay right when one voter's part in them moves as they do.
LEMMA OneVoter ==
    ASSUME NEW d, NEW e, Tallied(d), State(e), NEW v \in Voters,
           \A w \in Voters \ {v} : e.stake[w] = d.stake[w] /\ e.producers[w] = d.producers[w],
           \A p \in Producers : e.vote[p] = d.vote[p] - Part(d, v, p) + Part(e, v, p)
    PROVE  Tallied(e)
<1> SUFFICES ASSUME NEW p \in Producers PROVE e.vote[p] = Total(e.stake, Behind(e, p))
  BY DEF Tallied
<1>1. State(d) /\ d.vote[p] = Total(d.stake, Behind(d, p))
  BY DEF Tallied
<1>2. /\ Total(d.stake, Behind(d, p)) = Part(d, v, p) + Total(d.stake, Others(d, p, v))
      /\ Total(d.stake, Others(d, p, v)) \in Int
      /\ IsFiniteSet(Others(d, p, v)) /\ Others(d, p, v) \subseteq Voters \ {v}
  BY <1>1, BehindFacts
<1>3. Total(e.stake, Behind(e, p)) = Part(e, v, p) + Total(e.stake, Others(e, p, v))
  BY BehindFacts
<1>4. Others(e, p, v) = Others(d, p, v)
  BY DEF Others, Behind
<1>5. Total(e.stake, Others(d, p, v)) = Total(d.stake, Others(d, p, v))
  BY <1>2, TotalSame
<1>6. Part(d, v, p) \in Int /\ Part(e, v, p) \in Int
  BY <1>1 DEF State, Part
<1>7. e.vote[p] = d.vote[p] - Part(d, v, p) + Part(e, v, p)
  OBVIOUS
<1> QED
  BY <1>1, <1>2, <1>3, <1>4, <1>5, <1>6, <1>7

LEMMA UpdateVoteFacts ==
    ASSUME NEW d, State(d), NEW v \in Voters, NEW amount \in Int
    PROVE  /\ State(UpdateVote(d, v, amount))
           /\ UpdateVote(d, v, amount).stake = d.stake
           /\ UpdateVote(d, v, amount).producers = d.producers
           /\ UpdateVote(d, v, amount).candidate = d.candidate
           /\ SameMiners(d, UpdateVote(d, v, amount))
           /\ \A p \in Producers : UpdateVote(d, v, amount).vote[p]
                                     = d.vote[p] + (IF p \in d.producers[v] THEN amount ELSE 0)
<1> DEFINE votes == [p \in Producers |-> IF p \in d.producers[v] THEN d.vote[p] + amount ELSE d.vote[p]]
           e == [d EXCEPT !.vote = votes]
<1>1. UpdateVote(d, v, amount) = e
  BY DEF UpdateVote
<1>2. \A p \in Producers : d.vote[p] \in Int
  BY DEF State
<1>3. /\ votes \in [Producers -> Int]
      /\ \A p \in Producers : votes[p] = d.vote[p] + (IF p \in d.producers[v] THEN amount ELSE 0)
  BY <1>2
<1> HIDE DEF votes
<1>4. /\ DOMAIN e = Fields /\ e.vote = votes /\ e.stake = d.stake
      /\ e.producers = d.producers /\ e.candidate = d.candidate /\ SameMiners(d, e)
  BY DEF State, Fields, SameMiners
<1> HIDE DEF e
<1>5. State(e)
  BY <1>3, <1>4 DEF State
<1> QED
  BY <1>1, <1>3, <1>4, <1>5

LEMMA StakeFacts ==
    ASSUME NEW d, State(d), NEW v \in Voters, NEW n \in Nat
    PROVE  LET e == [d EXCEPT !.stake[v] = n]
           IN  /\ State(e) /\ e.stake[v] = n /\ e.vote = d.vote
               /\ e.producers = d.producers /\ e.candidate = d.candidate /\ SameMiners(d, e)
               /\ \A w \in Voters \ {v} : e.stake[w] = d.stake[w]
<1> DEFINE s == [d.stake EXCEPT ![v] = n]
           e == [d EXCEPT !.stake = s]
<1>1. s \in [Voters -> Nat] /\ s[v] = n /\ \A w \in Voters \ {v} : s[w] = d.stake[w]
  BY DEF State
<1> HIDE DEF s
<1>2. /\ DOMAIN e = Fields /\ e.vote = d.vote /\ e.stake = s
      /\ e.producers = d.producers /\ e.candidate = d.candidate /\ SameMiners(d, e)
  BY DEF State, Fields, SameMiners
<1>3. [d EXCEPT !.stake[v] = n] = e
  BY DEF s
<1> HIDE DEF e
<1>4. State(e)
  BY <1>1, <1>2 DEF State
<1> QED
  BY <1>1, <1>2, <1>3, <1>4

LEMMA ProducersFacts ==
    ASSUME NEW d, State(d), NEW v \in Voters, NEW ps \in SUBSET Producers
    PROVE  LET e == [d EXCEPT !.producers[v] = ps]
           IN  /\ State(e) /\ e.producers[v] = ps /\ e.vote = d.vote
               /\ e.stake = d.stake /\ e.candidate = d.candidate /\ SameMiners(d, e)
               /\ \A w \in Voters \ {v} : e.producers[w] = d.producers[w]
<1> DEFINE s == [d.producers EXCEPT ![v] = ps]
           e == [d EXCEPT !.producers = s]
<1>1. /\ s \in [Voters -> SUBSET Producers] /\ s[v] = ps
      /\ \A w \in Voters \ {v} : s[w] = d.producers[w]
  BY DEF State
<1> HIDE DEF s
<1>2. /\ DOMAIN e = Fields /\ e.vote = d.vote /\ e.stake = d.stake
      /\ e.producers = s /\ e.candidate = d.candidate /\ SameMiners(d, e)
  BY DEF State, Fields, SameMiners
<1>3. [d EXCEPT !.producers[v] = ps] = e
  BY DEF s
<1> HIDE DEF e
<1>4. State(e)
  BY <1>1, <1>2 DEF State
<1> QED
  BY <1>1, <1>2, <1>3, <1>4

LEMMA MortgageFacts ==
    ASSUME NEW d, Tallied(d), NEW v \in Voters, NEW amount \in StakeAmounts
    PROVE  LET e == Mortgage(d, v, amount)
           IN  Tallied(e) /\ e.candidate = d.candidate /\ SameMiners(d, e)
<1> DEFINE m == [d EXCEPT !.stake[v] = d.stake[v] + amount]
           e == UpdateVote(m, v, amount)
<1>1. State(d) /\ amount \in Nat /\ d.stake[v] \in Nat /\ d.stake[v] + amount \in Nat
  BY ElectionAssumption DEF Tallied, State
<1>2. Mortgage(d, v, amount) = e
  BY DEF Mortgage
<1>3. /\ State(m) /\ m.stake[v] = d.stake[v] + amount /\ m.vote = d.vote
      /\ m.producers = d.producers /\ m.candidate = d.candidate /\ SameMiners(d, m)
      /\ \A w \in Voters \ {v} : m.stake[w] = d.stake[w]
  BY <1>1, StakeFacts, SMTT(25)
<1> HIDE DEF m
<1>4. /\ State(e) /\ e.stake = m.stake /\ e.producers = m.producers /\ e.candidate = m.candidate
      /\ SameMiners(m, e)
      /\ \A p \in Producers : e.vote[p] = m.vote[p] + (IF p \in m.producers[v] THEN amount ELSE 0)
  BY <1>1, <1>3, UpdateVoteFacts
<1> HIDE DEF e
<1>5. \A p \in Producers : e.vote[p] = d.vote[p] - Part(d, v, p) + Part(e, v, p)
  BY <1>1, <1>3, <1>4 DEF Part, State
<1>6. Tallied(e)
  BY <1>3, <1>4, <1>5, OneVoter
<1>7. e.candidate = d.candidate /\ SameMiners(d, e)
  BY <1>3, <1>4 DEF SameMiners
<1> QED
  BY <1>2, <1>6, <1>7

LEMMA UnmortgageFacts ==
    ASSUME NEW d, Tallied(d), NEW v \in Voters, NEW amount \in StakeAmounts
    PROVE  LET e == Unmortgage(d, v, amount)
           IN  Tallied(e) /\ e.candidate = d.candidate /\ SameMiners(d, e)
<1>1. CASE d.stake[v] = 0 \/ d.stake[v] < amount
  BY <1>1 DEF Unmortgage, SameMiners
<1>2. CASE ~(d.stake[v] = 0 \/ d.stake[v] < amount)
  <2> DEFINE m == [d EXCEPT !.stake[v] = d.stake[v] - amount]
             l == UpdateVote(m, v, -amount)
             ps == IF l.stake[v] = 0 THEN {} ELSE l.producers[v]
             e == [l EXCEPT !.producers[v] = ps]
  <2>1. State(d) /\ amount \in Nat /\ -amount \in Int /\ d.stake[v] \in Nat /\ d.stake[v] - amount \in Nat
    BY <1>2, ElectionAssumption DEF Tallied, State
  <2>2. Unmortgage(d, v, amount) = e
    BY <1>2 DEF Unmortgage
  <2>3. /\ State(m) /\ m.stake[v] = d.stake[v] - amount /\ m.vote = d.vote
        /\ m.producers = d.producers /\ m.candidate = d.candidate /\ SameMiners(d, m)
        /\ \A w \in Voters \ {v} : m.stake[w] = d.stake[w]
    BY <2>1, StakeFacts, ZenonT(40)
  <2> HIDE DEF m
  <2>4. /\ State(l) /\ l.stake = m.stake /\ l.producers = m.producers /\ l.candidate = m.candidate
        /\ SameMiners(m, l)
        /\ \A p \in Producers : l.vote[p] = m.vote[p] + (IF p \in m.producers[v] THEN -amount ELSE 0)
    BY <2>1, <2>3, UpdateVoteFacts
  <2> HIDE DEF l
  <2>5. ps \in SUBSET Producers
    BY <2>4 DEF State
  <2>6. ps = d.producers[v] \/ (ps = {} /\ d.stake[v] = amount)
    BY <2>1, <2>3, <2>4
  <2> HIDE DEF ps
  <2>7. /\ State(e) /\ e.producers[v] = ps /\ e.vote = l.vote
        /\ e.stake = l.stake /\ e.candidate = l.candidate /\ SameMiners(l, e)
        /\ \A w \in Voters \ {v} : e.producers[w] = l.producers[w]
    BY <2>4, <2>5, ProducersFacts
  <2> HIDE DEF e
  <2>8. \A p \in Producers : e.vote[p] = d.vote[p] - Part(d, v, p) + Part(e, v, p)
    <3> SUFFICES ASSUME NEW p \in Producers PROVE e.vote[p] = d.vote[p] - Part(d, v, p) + Part(e, v, p)
      OBVIOUS
    <3>1. d.vote[p] \in Int
      BY <2>1 DEF State
    <3>2. e.vote[p] = d.vote[p] + (IF p \in d.producers[v] THEN -amount ELSE 0)
      BY <2>3, <2>4, <2>7
    <3>3. e.stake[v] = d.stake[v] - amount
      BY <2>3, <2>4, <2>7
    <3> QED
      BY <2>1, <2>6, <2>7, <3>1, <3>2, <3>3 DEF Part
  <2>9. Tallied(e)
    BY <2>3, <2>4, <2>7, <2>8, OneVoter
  <2>10. e.candidate = d.candidate /\ SameMiners(d, e)
    BY <2>3, <2>4, <2>7 DEF SameMiners
  <2> QED
    BY <2>2, <2>9, <2>10
<1> QED
  BY <1>1, <1>2

LEMMA VoteFacts ==
    ASSUME NEW d, Tallied(d), NEW v \in Voters, NEW ps
    PROVE  LET e == Vote(d, v, ps)
           IN  Tallied(e) /\ e.candidate = d.candidate /\ SameMiners(d, e)
<1>1. CASE ~(ps \subseteq ValidCandidates(d)) \/ d.stake[v] = 0
  BY <1>1 DEF Vote, SameMiners
<1>2. CASE ~(~(ps \subseteq ValidCandidates(d)) \/ d.stake[v] = 0)
  <2> DEFINE w == UpdateVote(d, v, -d.stake[v])
             m == [w EXCEPT !.producers[v] = ps]
             e == UpdateVote(m, v, d.stake[v])
  <2>1. State(d) /\ d.stake[v] \in Int /\ -d.stake[v] \in Int /\ ps \in SUBSET Producers
    BY <1>2 DEF Tallied, State, ValidCandidates
  <2>2. Vote(d, v, ps) = e
    BY <1>2 DEF Vote
  <2>3. /\ State(w) /\ w.stake = d.stake /\ w.producers = d.producers /\ w.candidate = d.candidate
        /\ SameMiners(d, w)
        /\ \A p \in Producers : w.vote[p] = d.vote[p] + (IF p \in d.producers[v] THEN -d.stake[v] ELSE 0)
    BY <2>1, UpdateVoteFacts
  <2> HIDE DEF w
  <2>4. /\ State(m) /\ m.producers[v] = ps /\ m.vote = w.vote
        /\ m.stake = w.stake /\ m.candidate = w.candidate /\ SameMiners(w, m)
        /\ \A u \in Voters \ {v} : m.producers[u] = w.producers[u]
    <3>1. State(w) /\ ps \in SUBSET Producers
      BY <2>1, <2>3
    <3> QED
      BY <3>1, ProducersFacts
  <2> HIDE DEF m
  <2>5. /\ State(e) /\ e.stake = m.stake /\ e.producers = m.producers /\ e.candidate = m.candidate
        /\ SameMiners(m, e)
        /\ \A p \in Producers : e.vote[p] = m.vote[p] + (IF p \in m.producers[v] THEN d.stake[v] ELSE 0)
    BY <2>1, <2>4, UpdateVoteFacts
  <2> HIDE DEF e
  <2>6. \A p \in Producers : e.vote[p] = d.vote[p] - Part(d, v, p) + Part(e, v, p)
    <3> SUFFICES ASSUME NEW p \in Producers PROVE e.vote[p] = d.vote[p] - Part(d, v, p) + Part(e, v, p)
      OBVIOUS
    <3>1. d.vote[p] \in Int
      BY <2>1 DEF State
    <3>2. e.stake[v] = d.stake[v] /\ e.producers[v] = ps
      BY <2>3, <2>4, <2>5
    <3>3. e.vote[p] = (d.vote[p] + (IF p \in d.producers[v] THEN -d.stake[v] ELSE 0))
                        + (IF p \in ps THEN d.stake[v] ELSE 0)
      BY <2>3, <2>4, <2>5
    <3> QED
      BY <2>1, <3>1, <3>2, <3>3 DEF Part
  <2>7. Tallied(e)
    BY <2>3, <2>4, <2>5, <2>6, OneVoter
  <2>8. e.candidate = d.candidate /\ SameMiners(d, e)
    BY <2>3, <2>4, <2>5 DEF SameMiners
  <2> QED
    BY <2>2, <2>7, <2>8
<1> QED
  BY <1>1, <1>2

\* A change of the candidates alone.
LEMMA CandidateFacts ==
    ASSUME NEW d, State(d), NEW c \in [Producers -> Int \cup {None}]
    PROVE  LET e == [d EXCEPT !.candidate = c]
           IN  Keeps(d, e) /\ e.candidate = c /\ SameMiners(d, e)
<1> DEFINE e == [d EXCEPT !.candidate = c]
<1>1. /\ DOMAIN e = Fields /\ e.vote = d.vote /\ e.stake = d.stake
      /\ e.producers = d.producers /\ e.candidate = c /\ SameMiners(d, e)
  BY DEF State, Fields, SameMiners
<1> HIDE DEF e
<1>2. State(e)
  BY <1>1 DEF State
<1> QED
  BY <1>1, <1>2 DEF Keeps, e

LEMMA RegisterFacts ==
    ASSUME NEW d, State(d), NEW q \in Producers
    PROVE  /\ Keeps(d, RegisterToCandidate(d, q)) /\ SameMiners(d, RegisterToCandidate(d, q))
           /\ \A p \in Producers : \/ RegisterToCandidate(d, q).candidate[p] = d.candidate[p]
                                   \/ d.candidate[p] = None
<1> DEFINE c == [d.candidate EXCEPT ![q] = IF @ = None THEN 0 ELSE @]
<1>1. /\ c \in [Producers -> Int \cup {None}]
      /\ \A p \in Producers : c[p] = d.candidate[p] \/ d.candidate[p] = None
  BY DEF State
<1>2. RegisterToCandidate(d, q) = [d EXCEPT !.candidate = c]
  BY DEF RegisterToCandidate
<1> HIDE DEF c
<1> QED
  BY <1>1, <1>2, CandidateFacts

LEMMA KeepsTallied ==
    ASSUME NEW d, NEW e, Tallied(d), Keeps(d, e)
    PROVE  Tallied(e)
<1>1. \A p \in Producers : Behind(e, p) = Behind(d, p)
  BY DEF Keeps, Behind
<1> QED
  BY <1>1 DEF Keeps, Tallied

\* A transaction keeps the tally and the miners, and ends no ban.
LEMMA TransactionFacts ==
    ASSUME NEW d, Tallied(d), NEW e \in AfterTransaction(d)
    PROVE  /\ Tallied(e) /\ SameMiners(d, e)
           /\ \A p \in Producers : Banned(d, p) => e.candidate[p] = d.candidate[p]
<1>1. CASE e = d
  BY <1>1 DEF SameMiners
<1>2. ASSUME NEW v \in Voters, NEW a \in StakeAmounts, e = Mortgage(d, v, a) \/ e = Unmortgage(d, v, a)
      PROVE  Tallied(e) /\ SameMiners(d, e) /\ e.candidate = d.candidate
  BY <1>2, MortgageFacts, UnmortgageFacts
<1>3. ASSUME NEW v \in Voters, NEW ps, e = Vote(d, v, ps)
      PROVE  Tallied(e) /\ SameMiners(d, e) /\ e.candidate = d.candidate
  BY <1>3, VoteFacts
<1>4. ASSUME NEW q \in Producers, e = RegisterToCandidate(d, q)
      PROVE  /\ Tallied(e) /\ SameMiners(d, e)
             /\ \A p \in Producers : Banned(d, p) => e.candidate[p] = d.candidate[p]
  <2>1. /\ Keeps(d, e) /\ SameMiners(d, e)
        /\ \A p \in Producers : e.candidate[p] = d.candidate[p] \/ d.candidate[p] = None
    BY <1>4, RegisterFacts DEF Tallied
  <2> QED
    BY <2>1, KeepsTallied DEF Banned
<1>5. \/ e = d
      \/ \E v \in Voters, a \in StakeAmounts : e = Mortgage(d, v, a) \/ e = Unmortgage(d, v, a)
      \/ \E v \in Voters : \E ps : e = Vote(d, v, ps)
      \/ \E q \in Producers : e = RegisterToCandidate(d, q)
  BY DEF AfterTransaction
<1> QED
  BY <1>1, <1>2, <1>3, <1>4, <1>5

-----------------------------------------------------------------------------
(* After the transactions.                                                 *)

LEMMA TimeFacts ==
    ASSUME NEW d, State(d), NEW x
    PROVE  LET e == [d EXCEPT !.newblocktime = x]
           IN  Keeps(d, e) /\ e.candidate = d.candidate /\ e.newblocktime = x /\ e.miners = d.miners
<1> DEFINE e == [d EXCEPT !.newblocktime = x]
<1>1. /\ DOMAIN e = Fields /\ e.vote = d.vote /\ e.stake = d.stake
      /\ e.producers = d.producers /\ e.candidate = d.candidate /\ e.newblocktime = x /\ e.miners = d.miners
  BY DEF State, Fields
<1> HIDE DEF e
<1> QED
  BY <1>1 DEF Keeps, State, e

LEMMA MinersFacts ==
    ASSUME NEW d, State(d), NEW x
    PROVE  LET e == [d EXCEPT !.miners = x]
           IN  Keeps(d, e) /\ e.candidate = d.candidate /\ e.miners = x /\ e.newblocktime = d.newblocktime
<1> DEFINE e == [d EXCEPT !.miners = x]
<1>1. /\ DOMAIN e = Fields /\ e.vote = d.vote /\ e.stake = d.stake
      /\ e.producers = d.producers /\ e.candidate = d.candidate /\ e.miners = x /\ e.newblocktime = d.newblocktime
  BY DEF State, Fields
<1> HIDE DEF e
<1> QED
  BY <1>1 DEF Keeps, State, e

LEMMA UnbanFacts ==
    ASSUME NEW d, State(d), NEW t \in Nat
    PROVE  LET e == UnbanProducer(d, t)
           IN  Keeps(d, e) /\ SameMiners(d, e) /\ BansHold(d, e, t)
<1> DEFINE c == [p \in Producers |-> IF Banned(d, p) /\ d.candidate[p] <= t THEN 0 ELSE d.candidate[p]]
<1>1. c \in [Producers -> Int \cup {None}]
  BY DEF State
<1>2. \A p \in Producers : c[p] = d.candidate[p] \/ (c[p] = 0 /\ d.candidate[p] <= t)
  OBVIOUS
<1>3. UnbanProducer(d, t) = [d EXCEPT !.candidate = c]
  BY DEF UnbanProducer
<1> HIDE DEF c
<1>4. /\ Keeps(d, UnbanProducer(d, t)) /\ SameMiners(d, UnbanProducer(d, t))
      /\ UnbanProducer(d, t).candidate = c
  BY <1>1, <1>3, CandidateFacts
<1> QED
  BY <1>2, <1>4 DEF BansHold, Banned

LEMMA BanFacts ==
    ASSUME NEW d, State(d), NEW t \in Nat \ {0}
    PROVE  /\ Keeps(d, BanProducer(d, t)) /\ SameMiners(d, BanProducer(d, t))
           /\ \A p \in Producers : \/ BanProducer(d, t).candidate[p] = d.candidate[p]
                                   \/ Banned(BanProducer(d, t), p)
<1> DEFINE late == {m \in ToSet(d.miners) : /\ d.newblocktime[m] # None
                                            /\ t - d.newblocktime[m] >= TimeOffsetToLastBlock}
           c == [p \in Producers |-> IF p \in late THEN t + TimeBan ELSE d.candidate[p]]
<1>1. BanProducer(d, t) = [d EXCEPT !.candidate = c]
  BY DEF BanProducer
<1> HIDE DEF late
<1>2. t + TimeBan \in Nat \ {0} /\ t + TimeBan # None
  BY ElectionAssumption
<1>3. c \in [Producers -> Int \cup {None}]
  BY <1>2 DEF State
<1>4. \A p \in Producers : c[p] = d.candidate[p] \/ c[p] \notin {0, None}
  BY <1>2
<1> HIDE DEF c
<1>5. /\ Keeps(d, BanProducer(d, t)) /\ SameMiners(d, BanProducer(d, t))
      /\ BanProducer(d, t).candidate = c
  BY <1>1, <1>3, CandidateFacts
<1> QED
  BY <1>4, <1>5 DEF Banned

LEMMA AfterBlockFacts ==
    ASSUME NEW d, State(d), NEW n, NEW t \in Nat \ {0}, NEW miner, NEW e \in AfterBlock(d, n, t, miner)
    PROVE  Keeps(d, e) /\ BansHold(d, e, t)
<1> DEFINE timed == UpdateProducerTime(d, miner, t)
           unbanned == IF n % UnbanBlocks = 0 THEN UnbanProducer(timed, t) ELSE timed
           elected == IF Reselects(n) THEN FinishElection(BanProducer(unbanned, t)) ELSE {unbanned}
<1>1. Keeps(d, timed) /\ timed.candidate = d.candidate
  <2>1. timed = [d EXCEPT !.newblocktime = [d.newblocktime EXCEPT ![miner] = t]]
    BY DEF UpdateProducerTime
  <2> QED
    BY <2>1, TimeFacts
<1>2. PICK f \in elected : e = f \/ e = MaintainProducer(f, t)
  BY DEF AfterBlock
<1> HIDE DEF timed
<1>3. Keeps(timed, unbanned) /\ BansHold(timed, unbanned, t)
  <2>1. State(timed)
    BY <1>1 DEF Keeps
  <2>2. BansHold(timed, timed, t)
    BY DEF BansHold
  <2> QED
    BY <2>1, <2>2, UnbanFacts DEF Keeps
<1> HIDE DEF unbanned
<1>4. /\ Keeps(unbanned, f)
      /\ \A p \in Producers : f.candidate[p] = unbanned.candidate[p] \/ Banned(f, p)
  <2>1. State(unbanned)
    BY <1>3 DEF Keeps
  <2>2. CASE Reselects(n)
    <3> DEFINE b == BanProducer(unbanned, t)
    <3>1. /\ Keeps(unbanned, b)
          /\ \A p \in Producers : b.candidate[p] = unbanned.candidate[p] \/ Banned(b, p)
      BY <2>1, BanFacts
    <3>2. PICK s \in ByVotes(b) : f = [b EXCEPT !.miners = Elected(b, s)]
      BY <1>2, <2>2 DEF FinishElection
    <3> HIDE DEF b
    <3>3. Keeps(b, f) /\ f.candidate = b.candidate
      BY <3>1, <3>2, MinersFacts DEF Keeps
    <3> QED
      BY <3>1, <3>3 DEF Keeps, Banned
  <2>3. CASE ~Reselects(n)
    BY <1>2, <2>1, <2>3 DEF Keeps
  <2> QED
    BY <2>2, <2>3
<1> HIDE DEF elected
<1>5. Keeps(f, e) /\ e.candidate = f.candidate
  <2>1. State(f)
    BY <1>4 DEF Keeps
  <2>2. CASE e = f
    BY <2>1, <2>2 DEF Keeps
  <2>3. CASE e = MaintainProducer(f, t)
    <3>1. \E x : e = [f EXCEPT !.newblocktime = x]
      BY <2>3 DEF MaintainProducer
    <3> QED
      BY <2>1, <3>1, TimeFacts
  <2> QED
    BY <1>2, <2>2, <2>3
<1>6. Keeps(d, e)
  BY <1>1, <1>3, <1>4, <1>5 DEF Keeps
<1>7. BansHold(d, e, t)
  <2> SUFFICES ASSUME NEW p \in Producers, Banned(d, p), ~Banned(e, p)
               PROVE  e.candidate[p] = 0 /\ d.candidate[p] <= t
    BY DEF BansHold
  <2>1. Banned(timed, p) /\ ~Banned(f, p)
    BY <1>1, <1>5 DEF Banned
  <2>2. f.candidate[p] = unbanned.candidate[p] /\ ~Banned(unbanned, p)
    BY <1>4, <2>1 DEF Banned
  <2>3. unbanned.candidate[p] = 0 /\ timed.candidate[p] <= t
    BY <1>3, <2>1, <2>2 DEF BansHold
  <2> QED
    BY <1>1, <1>5, <2>2, <2>3
<1> QED
  BY <1>6, <1>7

-----------------------------------------------------------------------------
(* The theorems.                                                           *)

\* What the theorems rest on.
EInv == Tallied(dpos) /\ time \in Nat

LEMMA InitEInv == ElectionInit => EInv
<1> SUFFICES ASSUME ElectionInit PROVE EInv
  OBVIOUS
<1>1. /\ DOMAIN dpos = Fields
      /\ dpos.candidate \in [Producers -> Int \cup {None}]
      /\ dpos.vote = [p \in Producers |-> 0] /\ dpos.stake = [v \in Voters |-> 0]
      /\ dpos.producers = [v \in Voters |-> {}] /\ time = 0
  BY DEF ElectionInit, Fields
<1>2. State(dpos)
  BY <1>1 DEF State
<1>3. \A p \in Producers : Behind(dpos, p) = {}
  BY <1>1 DEF Behind
<1>4. Total(dpos.stake, {}) = 0
  BY FS_EmptySet, TotalFirst
<1> QED
  BY <1>1, <1>2, <1>3, <1>4 DEF EInv, Tallied

LEMMA BlockFacts ==
    ASSUME EInv, Block
    PROVE  EInv' /\ BansHold(dpos, dpos', time')
<1>1. PICK step \in Steps : time' = time + step
  BY DEF Block
<1>2. PICK miner \in ToSet(dpos.miners), d \in AfterTransaction(dpos) : dpos' \in AfterBlock(d, number', time', miner)
  BY DEF Block
<1>3. time' \in Nat \ {0}
  BY <1>1, ElectionAssumption DEF EInv
<1>4. /\ Tallied(d)
      /\ \A p \in Producers : Banned(dpos, p) => d.candidate[p] = dpos.candidate[p]
  BY <1>2, TransactionFacts DEF EInv
<1>5. Keeps(d, dpos') /\ BansHold(d, dpos', time')
  BY <1>2, <1>3, <1>4, AfterBlockFacts DEF Tallied
<1>6. Tallied(dpos')
  BY <1>4, <1>5, KeepsTallied
<1>7. BansHold(dpos, dpos', time')
  BY <1>4, <1>5 DEF BansHold, Banned
<1> QED
  BY <1>3, <1>6, <1>7 DEF EInv

LEMMA StepEInv == EInv /\ [ElectionNext]_electionVars => EInv'
<1>1. ASSUME EInv, Block PROVE EInv'
  BY <1>1, BlockFacts
<1>2. ASSUME EInv, UNCHANGED electionVars PROVE EInv'
  BY <1>2 DEF electionVars, EInv
<1> QED
  BY <1>1, <1>2 DEF ElectionNext

\* The votes of a candidate are the stakes behind it (consensus.ts:549), whatever is mortgaged,
\* withdrawn, voted and banned, for any number of voters.
THEOREM VotesAreStakes == ElectionSpec => []VotesAddUp
<1>1. EInv => VotesAddUp
  <2> SUFFICES ASSUME EInv, NEW p \in Producers
               PROVE  dpos.vote[p] = MapThenSumSet(LAMBDA v : dpos.stake[v],
                                                   {v \in Voters : p \in dpos.producers[v]})
    BY DEF VotesAddUp
  <2>1. dpos.vote[p] = Total(dpos.stake, Behind(dpos, p))
    BY DEF EInv, Tallied
  <2>2. Total(dpos.stake, Behind(dpos, p))
          = MapThenSumSet(LAMBDA v : dpos.stake[v], {v \in Voters : p \in dpos.producers[v]})
    BY DEF Total, MapThenSumSet, MapThenFoldSet, Behind
  <2> QED
    BY <2>1, <2>2
<1> QED
  BY <1>1, InitEInv, StepEInv, PTL DEF ElectionSpec

\* A ban ends when its time has come and not before (unbanProducer), whatever else happens in
\* the block.
THEOREM BansEndInTime == ElectionSpec => BanHolds
<1>1. ASSUME EInv, [ElectionNext]_electionVars
      PROVE  [\A p \in Producers :
                Banned(dpos, p) /\ ~Banned(dpos', p)
                  => dpos'.candidate[p] = 0 /\ dpos.candidate[p] <= time']_electionVars
  BY <1>1, BlockFacts DEF ElectionNext, BansHold
<1> QED
  BY <1>1, InitEInv, StepEInv, PTL DEF ElectionSpec, BanHolds

-----------------------------------------------------------------------------
(* Who is in office.                                                       *)

Listed(s) == s \in Seq(Producers) /\ s # <<>> /\ Distinct(s)

Office(d) == Listed(d.miners) /\ d.newblocktime \in [Producers -> Int \cup {None}]

\* The times are those of the miners.
Timed(d) == {p \in Producers : d.newblocktime[p] # None} = ToSet(d.miners)

\* The miners of d that may stay.
Allowed(d) == {m \in Producers : ~Banned(d, m)}

\* Of the list m no banned producer is a member, or there was no other choice.
Cleared(d, m) ==
    \/ \A p \in ToSet(m) : ~Banned(d, p)
    \/ Voted(d) = {}
    \/ TooFew(SetToSeq({p \in ToSet(m) : ~Banned(d, p)} \cup Voted(d)))

\* A list without repetition is as long as it has members.
LEMMA DistinctLength ==
    ASSUME NEW S, NEW s \in Seq(S), Distinct(s)
    PROVE  IsFiniteSet(ToSet(s)) /\ Cardinality(ToSet(s)) = Len(s)
<1> DEFINE T == ToSet(s)
<1>1. Len(s) \in Nat /\ DOMAIN s = 1 .. Len(s)
  OBVIOUS
<1>2. s \in [1 .. Len(s) -> T] /\ \A x \in T : \E i \in 1 .. Len(s) : s[i] = x
  BY <1>1 DEF ToSet
<1>3. s \in Bijection(1 .. Len(s), T)
  BY <1>1, <1>2 DEF Bijection, Injection, Surjection, IsInjective, Distinct
<1>4. ExistsBijection(1 .. Len(s), T)
  BY <1>3 DEF ExistsBijection
<1>5. IsFiniteSet(1 .. Len(s)) /\ Cardinality(1 .. Len(s)) = Len(s)
  BY <1>1, FS_Interval
<1> QED
  BY <1>4, <1>5, FS_Bijection

LEMMA SetToSeqLength ==
    ASSUME NEW S, IsFiniteSet(S)
    PROVE  Len(SetToSeq(S)) = Cardinality(S)
<1> DEFINE n == Cardinality(S)
<1>1. n \in Nat /\ ExistsBijection(1 .. n, S)
  BY FS_CardinalityType
<1>2. \E f \in [1 .. n -> S] : IsInjective(f)
  BY <1>1 DEF ExistsBijection, Bijection, Injection
<1>3. SetToSeq(S) \in [1 .. n -> S]
  BY <1>2 DEF SetToSeq
<1> QED
  BY <1>1, <1>3

\* What the sort leaves.
LEMMA SortedFacts ==
    ASSUME NEW d, NEW s \in ByVotes(d)
    PROVE  s \in Seq(Voted(d)) /\ Distinct(s) /\ ToSet(s) = Voted(d)
<1> DEFINE V == Voted(d)
           n == Cardinality(V)
<1>1. IsFiniteSet(V)
  BY FS_Subset, ElectionAssumption DEF Voted, ValidCandidates
<1>2. s \in [1 .. n -> V] /\ \A i, j \in 1 .. n : i # j => s[i] # s[j]
  BY DEF ByVotes, SetToSeqs
<1> HIDE DEF V
<1>3. n \in Nat
  BY <1>1, FS_CardinalityType
<1>4. IsFiniteSet(1 .. n) /\ Cardinality(1 .. n) = n
  BY <1>3, FS_Interval
<1>5. s \in Injection(1 .. n, V)
  BY <1>2 DEF Injection, IsInjective
<1>6. s \in Surjection(1 .. n, V)
  BY <1>1, <1>4, <1>5, FS_Injection
<1>7. s \in Seq(V) /\ DOMAIN s = 1 .. n
  BY <1>2, <1>3
<1>8. Distinct(s)
  BY <1>2, <1>7 DEF Distinct
<1>9. ToSet(s) = V
  BY <1>2, <1>6, <1>7 DEF Surjection, ToSet
<1> QED
  BY <1>7, <1>8, <1>9 DEF V

\* finishElection takes the first ones, or all where there are too few.
LEMMA CreatorsFacts ==
    ASSUME NEW V, NEW s \in Seq(V), Distinct(s)
    PROVE  LET c == Creators(s)
           IN  /\ c \in Seq(V) /\ Distinct(c)
               /\ c = <<>> => s = <<>>
               /\ TooFew(c) => c = s
<1> DEFINE c == Creators(s)
<1>1. CASE MaxCreator = Undefined \/ Len(s) <= MaxCreator
  BY <1>1 DEF Creators
<1>2. CASE ~(MaxCreator = Undefined \/ Len(s) <= MaxCreator)
  <2>1. Len(s) \in Nat /\ MaxCreator \in Nat \ {0} /\ MaxCreator < Len(s) /\ c = SubSeq(s, 1, MaxCreator)
    BY <1>2, ElectionAssumption DEF Creators
  <2>2. c \in Seq(V) /\ Len(c) = MaxCreator /\ \A i \in 1 .. MaxCreator : c[i] = s[i]
    BY <2>1
  <2> HIDE DEF c
  <2>3. DOMAIN c = 1 .. MaxCreator /\ \A i \in 1 .. MaxCreator : i \in DOMAIN s
    BY <2>1, <2>2
  <2>4. Distinct(c)
    BY <2>2, <2>3 DEF Distinct
  <2>5. ~TooFew(c)
    BY <2>1, <2>2, ElectionAssumption DEF TooFew
  <2>6. c # <<>>
    BY <2>1, <2>2
  <2> QED
    BY <2>2, <2>4, <2>5, <2>6 DEF c
<1> QED
  BY <1>1, <1>2

\* Those, by what is in it.
LEMMA ThoseSet ==
    ASSUME NEW S, NEW s \in Seq(S), NEW T, Distinct(s)
    PROVE  Those(s, T) \in Seq(S) /\ Distinct(Those(s, T)) /\ ToSet(Those(s, T)) = ToSet(s) \cap T
<1> DEFINE r == Those(s, T)
<1>1. Chosen(r, Len(s), s, T, S)
  BY ThoseFacts
<1> HIDE DEF r
<1>2. DOMAIN s = 1 .. Len(s)
  OBVIOUS
<1>3. r \in Seq(S) /\ Distinct(r)
  BY <1>1 DEF Chosen
<1>4. \A x \in ToSet(r) : x \in ToSet(s) \cap T
  BY <1>1, <1>2 DEF Chosen, ToSet
<1>5. \A x \in ToSet(s) \cap T : x \in ToSet(r)
  BY <1>1, <1>2 DEF Chosen, ToSet
<1> QED
  BY <1>3, <1>4, <1>5 DEF r

\* Two lists without a common member.
LEMMA JoinedFacts ==
    ASSUME NEW S, NEW s \in Seq(S), NEW r \in Seq(S), Distinct(s), Distinct(r),
           ToSet(s) \cap ToSet(r) = {}
    PROVE  /\ s \o r \in Seq(S) /\ Distinct(s \o r)
           /\ Len(s \o r) = Len(s) + Len(r) /\ ToSet(s \o r) = ToSet(s) \cup ToSet(r)
<1> DEFINE t == s \o r
           n == Len(s)
           k == Len(r)
<1>1. n \in Nat /\ k \in Nat /\ DOMAIN s = 1 .. n /\ DOMAIN r = 1 .. k
  OBVIOUS
<1>2. t \in Seq(S) /\ Len(t) = n + k
  OBVIOUS
<1>3. /\ \A i \in 1 .. n : t[i] = s[i]
      /\ \A i \in 1 .. k : t[n + i] = r[i]
  OBVIOUS
<1> HIDE DEF t, n, k
<1>4. DOMAIN t = 1 .. n + k
  BY <1>1, <1>2
<1>5. \A i \in DOMAIN t : i \in 1 .. n \/ (i - n \in 1 .. k /\ i = n + (i - n))
  BY <1>1, <1>4
<1>6. \A i \in 1 .. n : i \in DOMAIN t /\ t[i] \in ToSet(s)
  <2>1. \A i \in 1 .. n : i \in DOMAIN t
    BY <1>1, <1>4
  <2> QED
    BY <1>1, <1>3, <2>1 DEF ToSet
<1>7. \A i \in 1 .. k : n + i \in DOMAIN t /\ t[n + i] \in ToSet(r)
  <2>1. \A i \in 1 .. k : n + i \in DOMAIN t
    BY <1>1, <1>4
  <2> QED
    BY <1>1, <1>3, <2>1 DEF ToSet
<1>8. Distinct(t)
  <2> SUFFICES ASSUME NEW i \in DOMAIN t, NEW j \in DOMAIN t, t[i] = t[j] PROVE i = j
    BY DEF Distinct
  <2>1. CASE i \in 1 .. n /\ j \in 1 .. n
    BY <1>1, <1>3, <2>1 DEF Distinct
  <2>2. CASE i \in 1 .. n /\ j \notin 1 .. n
    BY <1>5, <1>6, <1>7, <2>2
  <2>3. CASE i \notin 1 .. n /\ j \in 1 .. n
    BY <1>5, <1>6, <1>7, <2>3
  <2>4. CASE i \notin 1 .. n /\ j \notin 1 .. n
    <3>1. i - n \in 1 .. k /\ j - n \in 1 .. k /\ t[i] = r[i - n] /\ t[j] = r[j - n]
      BY <1>3, <1>5, <2>4
    <3>2. i - n = j - n
      BY <1>1, <3>1 DEF Distinct
    <3> QED
      BY <1>1, <1>4, <3>2
  <2> QED
    BY <2>1, <2>2, <2>3, <2>4
<1>9. ToSet(t) = ToSet(s) \cup ToSet(r)
  <2>1. \A x \in ToSet(t) : x \in ToSet(s) \cup ToSet(r)
    BY <1>5, <1>6, <1>7 DEF ToSet
  <2>2. \A x \in ToSet(s) : x \in ToSet(t)
    BY <1>1, <1>3, <1>6 DEF ToSet
  <2>3. \A x \in ToSet(r) : x \in ToSet(t)
    BY <1>1, <1>3, <1>7 DEF ToSet
  <2> QED
    BY <2>1, <2>2, <2>3
<1> QED
  BY <1>2, <1>8, <1>9 DEF t, n, k

\* The list finishElection makes of a list of miners.
LEMMA ElectedFacts ==
    ASSUME NEW d, Listed(d.miners), NEW s \in ByVotes(d)
    PROVE  Listed(Elected(d, s)) /\ Cleared(d, Elected(d, s))
<1> DEFINE c == Creators(s)
           staying == Those(d.miners, Allowed(d))
           joining == Those(c, Producers \ ToSet(staying))
           k == Min({Len(joining), MinCreator - Len(staying)})
           filled == staying \o SubSeq(joining, 1, k)
           e == Elected(d, s)
<1>1. s \in Seq(Voted(d)) /\ Distinct(s) /\ ToSet(s) = Voted(d)
  BY SortedFacts
<1>2. /\ c \in Seq(Voted(d)) /\ Distinct(c)
      /\ c = <<>> => s = <<>>
      /\ TooFew(c) => c = s
  BY <1>1, CreatorsFacts
<1>3. Voted(d) \subseteq Allowed(d) /\ Voted(d) \subseteq Producers
  BY DEF Voted, ValidCandidates, Allowed, Banned
<1>4. /\ staying \in Seq(Producers) /\ Distinct(staying)
      /\ ToSet(staying) = ToSet(d.miners) \cap Allowed(d)
  BY ThoseSet DEF Listed
<1>5. /\ joining \in Seq(Voted(d)) /\ Distinct(joining)
      /\ ToSet(joining) = ToSet(c) \cap (Producers \ ToSet(staying))
  BY <1>2, ThoseSet
<1>6. /\ c = <<>> => e = d.miners
      /\ c # <<>> /\ ~TooFew(c) => e = c
      /\ c # <<>> /\ TooFew(c) /\ ~TooFew(staying) => e = staying
      /\ c # <<>> /\ TooFew(c) /\ TooFew(staying) => e = IF TooFew(filled) THEN d.miners ELSE filled
  BY DEF Elected, Allowed
<1> HIDE DEF e, filled, k, joining, staying, c
<1>7. ToSet(d.miners) \subseteq Producers
  BY DEF Listed, ToSet
<1>8. ASSUME NEW l, l \in Seq(Producers), Distinct(l), l # <<>>, ToSet(l) \subseteq Allowed(d)
      PROVE  Listed(l) /\ Cleared(d, l)
  BY <1>8 DEF Listed, Cleared, Allowed
<1>9. ASSUME c = <<>> PROVE Listed(e) /\ Cleared(d, e)
  <2>1. Voted(d) = {}
    BY <1>1, <1>2, <1>9 DEF ToSet
  <2> QED
    BY <1>6, <1>9, <2>1 DEF Cleared
<1>10. ASSUME c # <<>>, ~TooFew(c) PROVE Listed(e) /\ Cleared(d, e)
  <2>1. c \in Seq(Producers) /\ ToSet(c) \subseteq Allowed(d)
    BY <1>2, <1>3 DEF ToSet
  <2> QED
    BY <1>2, <1>6, <1>8, <1>10, <2>1
<1>11. ASSUME c # <<>>, TooFew(c) PROVE Listed(e) /\ Cleared(d, e)
  <2>1. MinCreator \in Nat \ {0} /\ Len(c) < MinCreator /\ c = s /\ MinCreator # Undefined
    <3>1. Len(c) \in Nat \ {0}
      BY <1>2, <1>11
    <3> QED
      BY <1>2, <1>11, <3>1, ElectionAssumption DEF TooFew
  <2>2. ToSet(staying) \subseteq Allowed(d)
    BY <1>4
  <2>3. CASE ~TooFew(staying)
    <3>1. staying # <<>>
      BY <2>1, <2>3 DEF TooFew
    <3> QED
      BY <1>4, <1>6, <1>8, <1>11, <2>2, <2>3, <3>1
  <2>4. CASE TooFew(staying)
    <3> DEFINE head == SubSeq(joining, 1, k)
               room == MinCreator - Len(staying)
    <3>1. Len(staying) \in Nat /\ Len(joining) \in Nat /\ room \in Nat \ {0}
      BY <1>4, <1>5, <2>1, <2>4 DEF TooFew
    <3>2. k \in Nat /\ k <= Len(joining) /\ k <= room /\ (k = Len(joining) \/ k = room)
      <4> HIDE DEF room
      <4>1. k = Min({Len(joining), room})
        BY DEF k, room
      <4>2. \E x \in {Len(joining), room} : \A y \in {Len(joining), room} : x <= y
        BY <3>1
      <4> QED
        BY <3>1, <4>1, <4>2 DEF Min
    <3>3. /\ head \in Seq(Voted(d)) /\ Len(head) = k
          /\ \A i \in 1 .. k : head[i] = joining[i]
      BY <1>5, <3>1, <3>2
    <3>4. filled = staying \o head
      BY DEF filled
    <3> HIDE DEF head, room
    <3>5. DOMAIN head = 1 .. k /\ DOMAIN joining = 1 .. Len(joining) /\ 1 .. k \subseteq 1 .. Len(joining)
      BY <1>5, <3>1, <3>2, <3>3
    <3>6. Distinct(head) /\ ToSet(head) \subseteq ToSet(joining)
      BY <1>5, <3>3, <3>5 DEF Distinct, ToSet
    <3>7. head \in Seq(Producers) /\ ToSet(staying) \cap ToSet(head) = {}
      BY <1>3, <1>5, <3>3, <3>6
    <3>8. /\ filled \in Seq(Producers) /\ Distinct(filled)
          /\ Len(filled) = Len(staying) + k /\ ToSet(filled) = ToSet(staying) \cup ToSet(head)
      <4>1. staying \in Seq(Producers) /\ Distinct(staying) /\ head \in Seq(Producers) /\ Distinct(head)
        BY <1>4, <3>6, <3>7
      <4>2. ToSet(staying) \cap ToSet(head) = {} /\ Len(head) = k
        BY <3>3, <3>7
      <4>3. LET t == staying \o head
            IN  /\ t \in Seq(Producers) /\ Distinct(t)
                /\ Len(t) = Len(staying) + Len(head) /\ ToSet(t) = ToSet(staying) \cup ToSet(head)
        BY <4>1, <4>2, JoinedFacts
      <4> QED
        BY <3>4, <4>2, <4>3
    <3>9. ToSet(head) \subseteq Allowed(d)
      BY <1>3, <3>3 DEF ToSet
    <3>10. CASE ~TooFew(filled)
      <4>1. filled # <<>>
        BY <2>1, <3>10 DEF TooFew
      <4> QED
        BY <1>6, <1>8, <1>11, <2>2, <2>4, <3>8, <3>9, <3>10, <4>1
    <3>11. CASE TooFew(filled)
      <4> DEFINE U == {p \in ToSet(e) : ~Banned(d, p)} \cup Voted(d)
      <4>1. e = d.miners
        BY <1>6, <1>11, <2>4, <3>11
      <4>2. k = Len(joining)
        BY <2>1, <3>1, <3>2, <3>8, <3>11 DEF TooFew, room
      <4>3. ToSet(head) = ToSet(joining)
        BY <3>3, <3>5, <4>2 DEF ToSet
      <4>4. ToSet(c) = Voted(d)
        BY <1>1, <2>1
      <4>5. ToSet(filled) = U
        BY <1>3, <1>4, <1>5, <1>7, <3>8, <4>1, <4>3, <4>4 DEF Allowed
      <4>6. IsFiniteSet(U) /\ Cardinality(U) = Len(filled)
        BY <3>8, <4>5, DistinctLength
      <4>7. Len(SetToSeq(U)) = Len(filled)
        BY <4>6, SetToSeqLength
      <4>8. TooFew(SetToSeq(U))
        BY <3>11, <4>7 DEF TooFew
      <4> QED
        BY <4>1, <4>8 DEF Cleared
    <3> QED
      BY <3>10, <3>11
  <2> QED
    BY <2>3, <2>4
<1> QED
  BY <1>9, <1>10, <1>11 DEF e

\* executePostBlockEvent leaves times for the miners, and an election clears their list.
LEMMA AfterBlockOffice ==
    ASSUME NEW d, State(d), Office(d), NEW n \in Nat \ {0}, NEW t \in Nat \ {0},
           NEW miner \in ToSet(d.miners), n # 1 => Timed(d), NEW e \in AfterBlock(d, n, t, miner)
    PROVE  Office(e) /\ Timed(e) /\ (Reselects(n) => Cleared(e, e.miners))
<1> DEFINE timed == UpdateProducerTime(d, miner, t)
           unbanned == IF n % UnbanBlocks = 0 THEN UnbanProducer(timed, t) ELSE timed
           elected == IF Reselects(n) THEN FinishElection(BanProducer(unbanned, t)) ELSE {unbanned}
           again == n = 1 \/ Reselects(n)
<1>1. PICK f \in elected : e = IF again THEN MaintainProducer(f, t) ELSE f
  BY DEF AfterBlock
<1>2. State(timed) /\ Office(timed) /\ (Timed(d) => Timed(timed))
  <2> DEFINE x == [d.newblocktime EXCEPT ![miner] = t]
  <2>1. timed = [d EXCEPT !.newblocktime = x]
    BY DEF UpdateProducerTime
  <2>2. miner \in Producers /\ t # None
    BY ElectionAssumption DEF Office, Listed, ToSet
  <2>3. /\ x \in [Producers -> Int \cup {None}] /\ x[miner] # None
        /\ \A p \in Producers \ {miner} : x[p] = d.newblocktime[p]
    BY <2>2 DEF Office
  <2> HIDE DEF x
  <2>4. State(timed) /\ timed.newblocktime = x /\ timed.miners = d.miners
    BY <2>1, TimeFacts DEF Keeps
  <2> HIDE DEF timed
  <2>5. Timed(d) => Timed(timed)
    BY <2>2, <2>3, <2>4 DEF Timed
  <2> QED
    BY <2>3, <2>4, <2>5 DEF Office
<1> HIDE DEF timed
<1>3. State(unbanned) /\ Office(unbanned) /\ (Timed(d) => Timed(unbanned))
  <2>1. LET u == UnbanProducer(timed, t) IN State(u) /\ SameMiners(timed, u)
    BY <1>2, UnbanFacts DEF Keeps
  <2> QED
    BY <1>2, <2>1 DEF SameMiners, Office, Timed
<1> HIDE DEF unbanned
<1>4. State(f) /\ Office(f) /\ (Reselects(n) => Cleared(f, f.miners)) /\ (~again => f = unbanned)
  <2>1. CASE Reselects(n)
    <3> DEFINE b == BanProducer(unbanned, t)
    <3>1. State(b) /\ SameMiners(unbanned, b)
      BY <1>3, BanFacts DEF Keeps
    <3>2. PICK s \in ByVotes(b) : f = [b EXCEPT !.miners = Elected(b, s)]
      BY <1>1, <2>1 DEF FinishElection
    <3> HIDE DEF b
    <3>3. Listed(b.miners) /\ b.newblocktime \in [Producers -> Int \cup {None}]
      BY <1>3, <3>1 DEF Office, SameMiners
    <3>4. Listed(Elected(b, s)) /\ Cleared(b, Elected(b, s))
      BY <3>3, ElectedFacts
    <3>5. /\ State(f) /\ f.vote = b.vote /\ f.candidate = b.candidate
          /\ f.miners = Elected(b, s) /\ f.newblocktime = b.newblocktime
      BY <3>1, <3>2, MinersFacts DEF Keeps
    <3>6. Voted(f) = Voted(b) /\ \A p : Banned(f, p) <=> Banned(b, p)
      BY <3>5 DEF Voted, ValidCandidates, Banned
    <3>7. Cleared(f, f.miners)
      BY <3>4, <3>5, <3>6 DEF Cleared
    <3> QED
      BY <2>1, <3>3, <3>4, <3>5, <3>7 DEF Office
  <2>2. CASE ~Reselects(n)
    BY <1>1, <1>3, <2>2
  <2> QED
    BY <2>1, <2>2
<1> HIDE DEF elected
<1>5. CASE again
  <2> DEFINE x == [p \in Producers |-> IF p \notin ToSet(f.miners) THEN None
                                       ELSE IF f.newblocktime[p] = None THEN t ELSE f.newblocktime[p]]
  <2>1. e = [f EXCEPT !.newblocktime = x]
    BY <1>1, <1>5 DEF MaintainProducer
  <2>2. t \in Int /\ t # None
    BY ElectionAssumption
  <2>3. /\ x \in [Producers -> Int \cup {None}]
        /\ \A p \in Producers : x[p] # None <=> p \in ToSet(f.miners)
    BY <1>4, <2>2 DEF Office
  <2> HIDE DEF x
  <2>4. e.newblocktime = x /\ e.miners = f.miners /\ e.candidate = f.candidate /\ e.vote = f.vote
    BY <1>4, <2>1, TimeFacts DEF Keeps
  <2>5. ToSet(f.miners) \subseteq Producers
    BY <1>4 DEF Office, Listed, ToSet
  <2>6. Timed(e)
    BY <2>3, <2>4, <2>5 DEF Timed
  <2>7. Voted(e) = Voted(f) /\ \A p : Banned(e, p) <=> Banned(f, p)
    BY <2>4 DEF Voted, ValidCandidates, Banned
  <2>8. Reselects(n) => Cleared(e, e.miners)
    BY <1>4, <2>4, <2>7 DEF Cleared
  <2> QED
    BY <1>4, <2>3, <2>4, <2>6, <2>8 DEF Office
<1>6. CASE ~again
  <2>1. e = unbanned /\ Timed(d) /\ ~Reselects(n)
    BY <1>1, <1>4, <1>6
  <2> QED
    BY <1>3, <2>1
<1> QED
  BY <1>5, <1>6

\* The inductive invariant: the terms of MinersInOffice for the number of the last block.
InOffice ==
    /\ EInv
    /\ number \in Nat
    /\ Office(dpos)
    /\ number > 0 => Timed(dpos) /\ (Reselects(number) => Cleared(dpos, dpos.miners))

LEMMA InitInOffice == ElectionInit => InOffice
<1> SUFFICES ASSUME ElectionInit PROVE InOffice
  OBVIOUS
<1>1. /\ dpos.miners = InitialMiners /\ dpos.newblocktime = [p \in Producers |-> None]
      /\ number = 0
  BY DEF ElectionInit
<1>2. Listed(InitialMiners)
  BY ElectionAssumption DEF Listed, Distinct, IsInjective
<1> QED
  BY <1>1, <1>2, InitEInv DEF InOffice, Office

LEMMA StepInOffice == InOffice /\ [ElectionNext]_electionVars => InOffice'
<1>1. ASSUME InOffice, Block PROVE InOffice'
  <2>1. number' = number + 1 /\ number' \in Nat \ {0}
    BY <1>1 DEF Block, InOffice
  <2>2. EInv' /\ time' \in Nat \ {0}
    <3>1. PICK step \in Steps : time' = time + step
      BY <1>1 DEF Block
    <3> QED
      BY <1>1, <3>1, BlockFacts, ElectionAssumption DEF InOffice, EInv
  <2>3. PICK miner \in ToSet(dpos.miners), d \in AfterTransaction(dpos) :
            dpos' \in AfterBlock(d, number', time', miner)
    BY <1>1 DEF Block
  <2>4. State(d) /\ SameMiners(dpos, d)
    BY <1>1, <2>3, TransactionFacts DEF InOffice, EInv, Tallied
  <2>5. Office(d) /\ miner \in ToSet(d.miners)
    BY <1>1, <2>3, <2>4 DEF InOffice, Office, SameMiners
  <2>6. number' # 1 => Timed(d)
    BY <1>1, <2>1, <2>4 DEF InOffice, Timed, SameMiners
  <2>7. /\ Office(dpos') /\ Timed(dpos')
        /\ Reselects(number') => Cleared(dpos', dpos'.miners)
    BY <2>1, <2>2, <2>3, <2>4, <2>5, <2>6, AfterBlockOffice
  <2> QED
    BY <2>1, <2>2, <2>7 DEF InOffice
<1>2. ASSUME InOffice, UNCHANGED electionVars PROVE InOffice'
  BY <1>2, StepEInv DEF electionVars, InOffice
<1> QED
  BY <1>1, <1>2 DEF ElectionNext

\* The list of miners is never empty and names nobody twice, the times are those of its members
\* (maintain_producer), and an election leaves a banned producer in it only where finishElection
\* had no votes or too few producers: for any number of producers and any bounds of the list.
THEOREM MinersAreInOffice == ElectionSpec => []MinersInOffice
<1>1. InOffice => MinersInOffice
  <2> SUFFICES ASSUME InOffice PROVE MinersInOffice
    OBVIOUS
  <2>1. MinersTimed
    BY DEF InOffice, Office, Listed, Distinct, IsInjective, Timed, MinersTimed
  <2>2. BannedLeave
    BY DEF InOffice, Cleared, BannedLeave
  <2> QED
    BY <2>1, <2>2 DEF MinersInOffice
<1> QED
  BY <1>1, InitInOffice, StepInOffice, PTL DEF ElectionSpec

-----------------------------------------------------------------------------
(* The miners.                                                             *)

Entry == [timestamp : Nat, miner : Nodes, list : Lists \cup {<<>>}]
Chains == Seq(Entry)

Types ==
    /\ clock \in Nat
    /\ timerSet \in [Nodes -> Nat]
    /\ mining \in [Nodes -> BOOLEAN]
    /\ verified \in [Nodes -> SUBSET Chains]
    /\ tip \in [Nodes -> Chains]
    /\ rows \in [Nodes -> SUBSET Chains]
    /\ banned \in [Nodes -> SUBSET Nodes]
    /\ crashes \in Nat

-----------------------------------------------------------------------------
(* Sequences and terms.                                                    *)

Parent(b) == SubSeq(b, 1, Len(b) - 1)
Prefix(b, i) == SubSeq(b, 1, i)

LEMMA PrefixFacts ==
    ASSUME NEW S, NEW b \in Seq(S), NEW i \in 0 .. Len(b)
    PROVE  /\ Prefix(b, i) \in Seq(S) /\ Len(Prefix(b, i)) = i
           /\ \A j \in 1 .. i : Prefix(b, i)[j] = b[j]
           /\ \A j \in 0 .. i : Prefix(Prefix(b, i), j) = Prefix(b, j)
<1>1. \A k \in 0 .. Len(b) : /\ Prefix(b, k) \in Seq(S) /\ Len(Prefix(b, k)) = k
                             /\ \A j \in 1 .. k : Prefix(b, k)[j] = b[j]
  <2> TAKE k \in 0 .. Len(b)
  <2>1. \A j \in 1 .. k : b[j] \in S
    BY ElementOfSeq
  <2> QED
    BY <2>1, SubSeqProperties, Z3 DEF Prefix
<1>2. ASSUME NEW j \in 0 .. i
      PROVE  Prefix(Prefix(b, i), j) = Prefix(b, j)
  <2> DEFINE p == Prefix(b, i)
  <2>1. p \in Seq(S) /\ Len(p) = i /\ \A k \in 1 .. i : p[k] = b[k]
    BY <1>1
  <2> HIDE DEF p
  <2>2. \A k \in 1 .. j : p[k] \in S
    BY <2>1, ElementOfSeq
  <2>3. /\ Prefix(p, j) \in Seq(S) /\ Len(Prefix(p, j)) = j
        /\ \A k \in 1 .. j : Prefix(p, j)[k] = p[k]
    BY <2>1, <2>2, SubSeqProperties, Z3 DEF Prefix
  <2>4. /\ Prefix(b, j) \in Seq(S) /\ Len(Prefix(b, j)) = j
        /\ \A k \in 1 .. j : Prefix(b, j)[k] = b[k]
    <3>1. j \in 0 .. Len(b)
      OBVIOUS
    <3> QED
      BY <1>1, <3>1
  <2>5. Prefix(p, j) = Prefix(b, j)
    <3>1. \A k \in 1 .. j : k \in 1 .. i
      OBVIOUS
    <3>2. \A k \in 1 .. j : Prefix(p, j)[k] = Prefix(b, j)[k]
      BY <2>1, <2>3, <2>4, <3>1
    <3> QED
      BY <2>3, <2>4, <3>2, SeqEqual
  <2> QED
    BY <2>5 DEF p
<1> QED
  BY <1>1, <1>2

(* What a division by a number that is not a literal is.                   *)
LEMMA Quotients ==
    ASSUME NEW R \in Nat \ {0}
    PROVE  /\ \A x, y \in Nat : x < y => R * x + R <= R * y
           /\ \A n \in Nat : \E q \in Nat, r \in 0 .. R - 1 : q = n \div R /\ r = n % R /\ n = R * q + r
           /\ \A q \in Nat, r \in 0 .. R - 1 : (R * q + r) \div R = q
           /\ \A m, n \in Nat : m <= n => m \div R <= n \div R
<1>1. R \in Nat /\ R > 0
  OBVIOUS
<1>2. \A x, y \in Nat : x < y => R * x + R <= R * y
  <2> SUFFICES ASSUME NEW x \in Nat, NEW y \in Nat, x < y PROVE R * x + R <= R * y
    OBVIOUS
  <2>1. PICK d \in Nat : y = x + 1 + d
    <3>1. y - x - 1 \in Nat /\ y = x + 1 + (y - x - 1)
      OBVIOUS
    <3> QED
      BY <3>1
  <2>2. R * y = R * x + R + R * d /\ R * d >= 0
    BY <1>1, <2>1
  <2> QED
    BY <1>1, <2>2
<1>3. ASSUME NEW n \in Nat
      PROVE  \E q \in Nat, r \in 0 .. R - 1 : q = n \div R /\ r = n % R /\ n = R * q + r
  <2> DEFINE q == n \div R
             r == n % R
  <2>1. q \in Nat /\ n = R * q + r /\ r \in 0 .. R - 1
    BY <1>1
  <2> HIDE DEF q, r
  <2>2. q = n \div R /\ r = n % R
    BY DEF q, r
  <2> QED
    BY <2>1, <2>2
<1>4. ASSUME NEW q \in Nat, NEW r \in 0 .. R - 1
      PROVE  (R * q + r) \div R = q
  <2> DEFINE n == R * q + r
  <2>1. n \in Nat /\ R * q <= n /\ n < R * q + R
    BY <1>1
  <2> HIDE DEF n
  <2>2. PICK p \in Nat, t \in 0 .. R - 1 : p = n \div R /\ n = R * p + t
    BY <1>3, <2>1
  <2>3. R * p <= n /\ n < R * p + R
    BY <1>1, <2>2
  <2>4. p = q
    BY <1>1, <1>2, <2>1, <2>3
  <2> QED
    BY <2>2, <2>4 DEF n
<1>5. ASSUME NEW m \in Nat, NEW n \in Nat, m <= n
      PROVE  m \div R <= n \div R
  <2>1. PICK q \in Nat, r \in 0 .. R - 1 : q = m \div R /\ m = R * q + r
    BY <1>3
  <2>2. PICK p \in Nat, t \in 0 .. R - 1 : p = n \div R /\ n = R * p + t
    BY <1>3
  <2>3. R * q <= m /\ n < R * p + R
    BY <1>1, <2>1, <2>2
  <2>4. ~(p < q)
    BY <1>1, <1>2, <1>5, <2>3
  <2> QED
    BY <2>1, <2>2, <2>4
<1> QED
  BY <1>2, <1>3, <1>4, <1>5

\* The blocks of a term have one first block, and it is the one whose number the term divides.
LEMMA Terms ==
    ASSUME NEW R \in Nat \ {0}
    PROVE  /\ \A n \in Nat : n % R # 0 => n # 0 /\ n \div R = (n - 1) \div R
           /\ \A n \in Nat : /\ (n \div R) * R \in 0 .. n
                             /\ ((n \div R) * R) % R = 0
                             /\ n % R = 0 <=> (n \div R) * R = n
<1>1. R \in Nat /\ R > 0
  OBVIOUS
<1>2. \A x, y \in Nat : x < y => R * x + R <= R * y
  BY Quotients
<1>3. ASSUME NEW n \in Nat
      PROVE  \E q \in Nat, r \in 0 .. R - 1 : q = n \div R /\ r = n % R /\ n = R * q + r
  BY Quotients
<1>4. ASSUME NEW n \in Nat, n % R # 0
      PROVE  n # 0 /\ n \div R = (n - 1) \div R
  <2>1. PICK q \in Nat, r \in 0 .. R - 1 : q = n \div R /\ r = n % R /\ n = R * q + r
    BY <1>3
  <2>2. n # 0 /\ r # 0
    BY <1>1, <1>4, <2>1
  <2>3. PICK p \in Nat, t \in 0 .. R - 1 : p = (n - 1) \div R /\ n - 1 = R * p + t
    BY <1>3, <2>2
  <2>4. R * q <= n - 1 /\ n - 1 < R * q + R
    BY <1>1, <2>1, <2>2
  <2>5. R * p <= n - 1 /\ n - 1 < R * p + R
    BY <1>1, <2>3
  <2>6. p = q
    BY <1>1, <1>2, <2>4, <2>5
  <2> QED
    BY <2>1, <2>2, <2>3, <2>6
<1>5. ASSUME NEW n \in Nat
      PROVE  /\ (n \div R) * R \in 0 .. n
             /\ ((n \div R) * R) % R = 0
             /\ n % R = 0 <=> (n \div R) * R = n
  <2>1. PICK q \in Nat, r \in 0 .. R - 1 : q = n \div R /\ r = n % R /\ n = R * q + r
    BY <1>3
  <2> DEFINE k == q * R
  <2>2. k = R * q /\ k \in Nat
    BY <1>1
  <2>3. k \in 0 .. n /\ (r = 0 <=> k = n)
    BY <1>1, <2>1, <2>2
  <2> HIDE DEF k
  <2>4. PICK p \in Nat, m \in 0 .. R - 1 : m = k % R /\ k = R * p + m
    BY <1>3, <2>2
  <2>5. p = q
    BY <1>1, <1>2, <2>2, <2>4
  <2>6. m = 0
    BY <1>1, <2>2, <2>4, <2>5
  <2>7. k = (n \div R) * R
    BY <2>1 DEF k
  <2> QED
    BY <2>1, <2>3, <2>4, <2>6, <2>7
<1> QED
  BY <1>4, <1>5

\* The blocks of a term have one election block.
LEMMA TermStart ==
    ASSUME NEW n \in Nat, ~Elects(n)
    PROVE  n # 0 /\ n \div ReSelectionBlocks = (n - 1) \div ReSelectionBlocks
  BY TermAssumption, Terms DEF Elects

LEMMA ElectionBlockFacts ==
    ASSUME NEW b \in Chains
    PROVE  /\ ElectionBlock(b) \in Chains
           /\ Elects(Len(b)) => ElectionBlock(b) = b
           /\ ~Elects(Len(b)) => /\ Len(b) # 0
                                 /\ ElectionBlock(Parent(b)) = ElectionBlock(b)
<1> DEFINE R == ReSelectionBlocks
           n == Len(b)
           k == (n \div R) * R
<1>1. R \in Nat /\ R > 0 /\ n \in Nat
  BY TermAssumption, LenProperties DEF Chains
<1>2. k \in 0 .. n /\ (Elects(n) <=> k = n)
  BY <1>1, TermAssumption, Terms DEF Elects
<1>3. ElectionBlock(b) = Prefix(b, k)
  BY DEF ElectionBlock, Prefix
<1> HIDE DEF k
<1>4. Prefix(b, k) \in Chains
  BY <1>2, PrefixFacts DEF Chains
<1>5. Elects(n) => Prefix(b, k) = b
  BY <1>2, SubSeqFull DEF Prefix, Chains
<1>6. ASSUME ~Elects(n)
      PROVE  n # 0 /\ ElectionBlock(Parent(b)) = ElectionBlock(b)
  <2>1. n # 0 /\ n \div R = (n - 1) \div R
    BY <1>1, <1>6, TermStart
  <2>2. Parent(b) = Prefix(b, n - 1) /\ Len(Parent(b)) = n - 1
    <3>1. n - 1 \in 0 .. Len(b)
      BY <1>1, <2>1
    <3> QED
      BY <3>1, PrefixFacts DEF Parent, Prefix, Chains
  <2>3. k # n
    BY <1>2, <1>6
  <2>4. k \in 0 .. n - 1
    BY <1>1, <1>2, <2>3
  <2>5. ElectionBlock(Parent(b)) = Prefix(Prefix(b, n - 1), k)
    BY <2>1, <2>2 DEF ElectionBlock, Prefix, k
  <2>6. n - 1 \in 0 .. Len(b)
    BY <1>1, <2>1
  <2>7. Prefix(Prefix(b, n - 1), k) = Prefix(b, k)
    BY <2>4, <2>6, PrefixFacts DEF Chains
  <2> QED
    BY <1>3, <2>1, <2>5, <2>7
<1> QED
  BY <1>3, <1>4, <1>5, <1>6

-----------------------------------------------------------------------------
(* Indexes and timers.                                                     *)

(* An interval has the index of its number until its end is close.          *)
LEMMA IndexFacts ==
    ASSUME NEW q \in Nat, NEW r \in 0 .. BlockInterval - 1
    PROVE  /\ BlockInterval * q + r \in Nat
           /\ IndexOf(BlockInterval * q + r) =
                 IF r + MaxBlockIntervalOffset >= BlockInterval /\ (r >= MaxBlockIntervalOffset \/ q = 0)
                 THEN q + 1 ELSE q
<1> DEFINE I == BlockInterval
           M == MaxBlockIntervalOffset
           t == I * q + r
<1>1. I \in Nat \ {0} /\ M \in 0 .. I - 1 /\ r \in 0 .. I - 1
  BY IntervalAssumption
<1>2. t \in Nat
  BY <1>1
<1>3. \A p \in Nat, u \in 0 .. I - 1 : (I * p + u) \div I = p
  BY <1>1, Quotients
<1>4. \A n \in Nat : Intervals(n) = n \div I
  BY DEF Intervals
<1>5. Intervals(t) = q
  BY <1>2, <1>3, <1>4
<1>6. Intervals(t + M) = IF r + M >= I THEN q + 1 ELSE q
  <2>1. t + M \in Nat
    BY <1>1, <1>2
  <2>2. CASE r + M >= I
    <3>1. t + M = I * (q + 1) + (r + M - I) /\ r + M - I \in 0 .. I - 1 /\ q + 1 \in Nat
      BY <1>1, <2>2
    <3>2. (I * (q + 1) + (r + M - I)) \div I = q + 1
      BY <1>3, <3>1
    <3> QED
      BY <1>4, <2>1, <2>2, <3>1, <3>2
  <2>3. CASE r + M < I
    <3>1. t + M = I * q + (r + M) /\ r + M \in 0 .. I - 1
      BY <1>1, <2>3
    <3>2. (I * q + (r + M)) \div I = q
      BY <1>3, <3>1
    <3> QED
      BY <1>1, <1>4, <2>1, <2>3, <3>1, <3>2
  <2> QED
    BY <1>1, <2>2, <2>3
<1>7. Intervals(t - M) = q <=> (r >= M \/ q = 0)
  <2>1. CASE r >= M
    <3>1. t - M = I * q + (r - M) /\ r - M \in 0 .. I - 1 /\ t - M \in Nat
      BY <1>1, <2>1
    <3>2. (I * q + (r - M)) \div I = q
      BY <1>3, <3>1
    <3> QED
      BY <1>4, <2>1, <3>1, <3>2
  <2>2. CASE r < M /\ q = 0
    <3>1. t = r
      BY <1>1, <2>2
    <3>2. t - M < 0 /\ -(t - M) = I * 0 + (M - r) /\ M - r \in 0 .. I - 1
      BY <1>1, <2>2, <3>1
    <3>3. (I * 0 + (M - r)) \div I = 0
      BY <1>3, <3>2
    <3>4. Intervals(t - M) = -0
      BY <3>2, <3>3 DEF Intervals
    <3> QED
      BY <2>2, <3>4
  <2>3. CASE r < M /\ q # 0
    <3>1. PICK p \in Nat : q = p + 1
      <4>1. q - 1 \in Nat /\ q = (q - 1) + 1
        BY <2>3
      <4> QED
        BY <4>1
    <3>2. t - M = I * p + (I + r - M) /\ I + r - M \in 0 .. I - 1
      BY <1>1, <2>3, <3>1
    <3>3. t - M \in Nat
      BY <1>1, <3>2
    <3>4. (I * p + (I + r - M)) \div I = p
      BY <1>3, <3>2
    <3>5. Intervals(t - M) = p
      BY <1>4, <3>2, <3>3, <3>4
    <3> QED
      BY <1>1, <2>3, <3>1, <3>5
  <2> QED
    BY <1>1, <2>1, <2>2, <2>3
<1> HIDE DEF t
<1>8. IndexOf(t) = IF q # Intervals(t - M) THEN q ELSE Intervals(t + M)
  BY <1>5 DEF IndexOf
<1>9. IndexOf(t) = IF r + M >= I /\ (r >= M \/ q = 0) THEN q + 1 ELSE q
  BY <1>6, <1>7, <1>8
<1> QED
  BY <1>2, <1>9 DEF t

(* Later times have later indexes.                                          *)
LEMMA IndexGrows ==
    ASSUME NEW t \in Nat, NEW u \in Nat, t <= u
    PROVE  /\ IndexOf(t) \in Nat /\ IndexOf(u) \in Nat
           /\ IndexOf(t) <= IndexOf(u)
<1> DEFINE I == BlockInterval
           M == MaxBlockIntervalOffset
<1>1. I \in Nat \ {0} /\ M \in 0 .. I - 1
  BY IntervalAssumption
<1>2. PICK q \in Nat, r \in 0 .. I - 1 : q = t \div I /\ t = I * q + r
  BY <1>1, Quotients
<1>3. PICK p \in Nat, v \in 0 .. I - 1 : p = u \div I /\ u = I * p + v
  BY <1>1, Quotients
<1>4. q <= p
  BY <1>1, <1>2, <1>3, Quotients
<1>5. q = p => r <= v
  BY <1>1, <1>2, <1>3
<1>6. IndexOf(t) = IF r + M >= I /\ (r >= M \/ q = 0) THEN q + 1 ELSE q
  BY <1>2, IndexFacts
<1>7. IndexOf(u) = IF v + M >= I /\ (v >= M \/ p = 0) THEN p + 1 ELSE p
  BY <1>3, IndexFacts
<1> HIDE DEF I, M
<1> QED
  BY <1>1, <1>4, <1>5, <1>6, <1>7

(* A handler runs only if a timeout came since the timer was set, and finds *)
(* an index.                                                                *)
LEMMA FiresLater ==
    ASSUME NEW n \in Nodes, Fires(n), timerSet[n] \in Nat, clock \in Nat, timerSet[n] <= clock
    PROVE  Timeouts(timerSet[n]) < Timeouts(clock) /\ IndexOf(clock) # 0
<1> DEFINE I == BlockInterval
           M == MaxBlockIntervalOffset
<1>1. I \in Nat \ {0} /\ M \in 0 .. I - 1 /\ Early \in 0 .. M
  BY IntervalAssumption
<1>2. PICK s \in Nat, now \in Nat : s = timerSet[n] /\ now = clock
  OBVIOUS
<1>3. PICK e \in Nat : e = Early
  BY <1>1
<1>4. \A t \in Nat : \E q \in Nat, r \in 0 .. I - 1 : q = t \div I /\ t = I * q + r
  BY <1>1, Quotients
<1>5. PICK q \in Nat, r \in 0 .. I - 1 : q = s \div I /\ s = I * q + r
  BY <1>4
<1>6. PICK p \in Nat, v \in 0 .. I - 1 : p = now \div I /\ now = I * p + v
  BY <1>4
<1>7. PICK k \in Nat, w \in 0 .. I - 1 : k = (s + e) \div I /\ s + e = I * k + w
  <2>1. s + e \in Nat
    OBVIOUS
  <2> QED
    BY <1>4, <2>1
<1>8. PICK j \in Nat, x \in 0 .. I - 1 : j = (now + e) \div I /\ now + e = I * j + x
  <2>1. now + e \in Nat
    OBVIOUS
  <2> QED
    BY <1>4, <2>1
<1>9. NextTime(s) = I * q + I
  <2>1. NextTime(s) = (q + 1) * I
    BY <1>5 DEF NextTime
  <2> HIDE DEF I
  <2> QED
    BY <1>1, <2>1
<1>10. s <= now /\ s + e <= now + e /\ s + e \in Nat /\ now + e \in Nat
  BY <1>2
<1>11. q <= p /\ k <= j
  BY <1>1, <1>5, <1>6, <1>7, <1>8, <1>10, Quotients
<1>12. \/ I * q + I <= now
       \/ s < I * q + I - e /\ I * q + I - e <= now
  <2>1. \/ NextTime(s) <= now
        \/ s < NextTime(s) - e /\ NextTime(s) - e <= now
    BY <1>2, <1>3, Zenon DEF Fires
  <2>2. PICK i \in Nat : i = I * q
    BY <1>1
  <2>3. NextTime(s) = i + I
    BY <1>9, <2>2, Zenon
  <2> QED
    BY <1>1, <2>1, <2>2, <2>3
<1> HIDE DEF I, M
<1>13. \A y, z \in Nat : y < z => I * y + I <= I * z
  BY <1>1, Quotients
<1>14. q < p \/ k < j
  <2>1. CASE I * q + I <= now
    <3>1. now < I * p + I
      BY <1>1, <1>6
    <3>2. p # q
      BY <1>1, <2>1, <3>1
    <3> QED
      BY <1>11, <3>2
  <2>2. CASE s < I * q + I - e /\ I * q + I - e <= now
    <3>1. I * k <= s + e /\ s + e < I * q + I
      <4>1. I * k \in Nat /\ I * q \in Nat
        BY <1>1
      <4> QED
        BY <1>1, <1>7, <2>2, <4>1
    <3>2. I * q + I <= now + e /\ now + e < I * j + I
      <4>1. I * j \in Nat /\ I * q \in Nat
        BY <1>1
      <4> QED
        BY <1>1, <1>8, <2>2, <4>1
    <3>3. k # j
      <4> SUFFICES ASSUME k = j PROVE FALSE
        OBVIOUS
      <4>1. ~(q < k)
        <5>1. q < k => I * q + I <= I * k
          BY <1>13
        <5>2. I * k \in Nat /\ I * q \in Nat
          BY <1>1
        <5> QED
          BY <1>1, <3>1, <5>1, <5>2
      <4>2. ~(j < q)
        <5>1. j < q => I * j + I <= I * q
          BY <1>13
        <5>2. I * j \in Nat /\ I * q \in Nat
          BY <1>1
        <5> QED
          BY <1>1, <3>2, <5>1, <5>2
      <4>3. j = q
        BY <4>1, <4>2
      <4> QED
        BY <1>1, <3>1, <3>2, <4>3
    <3> QED
      BY <1>11, <3>3
  <2> QED
    BY <1>12, <2>1, <2>2
<1>15. Timeouts(s) = q + k /\ Timeouts(now) = p + j
  BY <1>3, <1>5, <1>6, <1>7, <1>8 DEF Timeouts, I
<1>16. IndexOf(now) # 0
  <2>1. IndexOf(now) = IF v + M >= I /\ (v >= M \/ p = 0) THEN p + 1 ELSE p
    BY <1>6, IndexFacts DEF I, M
  <2>2. p = 0 => now = v
    BY <1>1, <1>6
  <2>3. I * q >= 0
    BY <1>1
  <2>4. I - e <= now
    BY <1>1, <1>12, <2>3
  <2> QED
    BY <1>1, <1>3, <2>1, <2>2, <2>4
<1> QED
  BY <1>2, <1>11, <1>14, <1>15, <1>16

LEMMA TimeoutsGrow ==
    ASSUME NEW t \in Nat, NEW u \in Nat, t <= u
    PROVE  Timeouts(t) \in Nat /\ Timeouts(u) \in Nat /\ Timeouts(t) <= Timeouts(u)
<1> DEFINE I == BlockInterval
<1>1. I \in Nat \ {0} /\ Early \in Nat
  BY IntervalAssumption
<1>2. t + Early \in Nat /\ u + Early \in Nat /\ t + Early <= u + Early
  BY <1>1
<1>3. \A n \in Nat : n \div I \in Nat
  BY <1>1, Quotients
<1>4. t \div I <= u \div I /\ (t + Early) \div I <= (u + Early) \div I
  BY <1>1, <1>2, Quotients
<1> QED
  BY <1>2, <1>3, <1>4 DEF Timeouts

-----------------------------------------------------------------------------
(* One chain.                                                              *)

InTurn(b, c, place) ==
    \/ IndexOf(b.timestamp) < IndexOf(c.timestamp)
    \/ IndexOf(b.timestamp) = IndexOf(c.timestamp) /\ IF b.miner = c.miner
           THEN Timeouts(b.timestamp) < Timeouts(c.timestamp)
           ELSE Elects(place)

Spaced(b) == \A i \in 1 .. Len(b) - 1 : InTurn(b[i], b[i + 1], i)

\* Every block was made by whom the blocks before it name.
ByDueMiner(b) == \A i \in 1 .. Len(b) : b[i].miner = DueMiner(Prefix(b, i - 1), IndexOf(b[i].timestamp))

\* Whoever made a block has set its timer since.
NotAhead(b, last) == \A i \in 1 .. Len(b) : b[i].timestamp <= last[b[i].miner]

ChainKept(b, last) == Spaced(b) /\ ByDueMiner(b) /\ NotAhead(b, last)

(* A block of a kept chain ends a kept chain.                               *)
LEMMA PrefixKept ==
    ASSUME NEW b \in Chains, NEW i \in 0 .. Len(b), NEW last, ChainKept(b, last)
    PROVE  ChainKept(Prefix(b, i), last)
<1> DEFINE p == Prefix(b, i)
<1>1. /\ Len(p) = i /\ \A j \in 1 .. i : p[j] = b[j]
      /\ \A j \in 0 .. i : Prefix(p, j) = Prefix(b, j)
  BY PrefixFacts DEF Chains
<1>2. Len(b) \in Nat
  BY LenProperties DEF Chains
<1> HIDE DEF p
<1>3. Spaced(p)
  <2> SUFFICES ASSUME NEW j \in 1 .. i - 1
               PROVE  InTurn(p[j], p[j + 1], j)
    BY <1>1 DEF Spaced
  <2>1. j \in 1 .. Len(b) - 1 /\ j \in 1 .. i /\ j + 1 \in 1 .. i
    BY <1>2
  <2> QED
    BY <1>1, <2>1 DEF ChainKept, Spaced
<1>4. ByDueMiner(p)
  <2> SUFFICES ASSUME NEW j \in 1 .. i
               PROVE  p[j].miner = DueMiner(Prefix(p, j - 1), IndexOf(p[j].timestamp))
    BY <1>1 DEF ByDueMiner
  <2>1. j \in 1 .. Len(b) /\ j - 1 \in 0 .. i
    BY <1>2
  <2> QED
    BY <1>1, <2>1 DEF ChainKept, ByDueMiner
<1>5. NotAhead(p, last)
  <2>1. \A j \in 1 .. i : j \in 1 .. Len(b)
    BY <1>2
  <2> QED
    BY <1>1, <2>1 DEF ChainKept, NotAhead
<1> QED
  BY <1>3, <1>4, <1>5 DEF ChainKept, p

(* Timers that are set later keep a chain kept.                             *)
LEMMA LaterKept ==
    ASSUME NEW b \in Chains, NEW last \in [Nodes -> Nat], NEW later \in [Nodes -> Nat],
           ChainKept(b, last), \A n \in Nodes : last[n] <= later[n]
    PROVE  ChainKept(b, later)
<1>1. NotAhead(b, later)
  <2> SUFFICES ASSUME NEW i \in 1 .. Len(b)
               PROVE  b[i].timestamp <= later[b[i].miner]
    BY DEF NotAhead
  <2>1. b[i] \in Entry
    BY ElementOfSeq DEF Chains
  <2>2. b[i].timestamp \in Nat /\ b[i].miner \in Nodes
    BY <2>1 DEF Entry
  <2>3. b[i].timestamp <= last[b[i].miner]
    BY DEF ChainKept, NotAhead
  <2> QED
    BY <2>2, <2>3
<1> QED
  BY <1>1 DEF ChainKept

(* The miner due extends a kept chain to a kept chain, if a timeout came    *)
(* since it set its timer.                                                  *)
LEMMA ExtendKept ==
    ASSUME NEW b \in Chains, NEW last \in [Nodes -> Nat], NEW now \in Nat, NEW e \in Entry,
           ChainKept(b, last),
           \A n \in Nodes : last[n] <= now,
           e.timestamp = now, DueMiner(b, IndexOf(now)) = e.miner, Timeouts(last[e.miner]) < Timeouts(now)
    PROVE  ChainKept(Append(b, e), [last EXCEPT ![e.miner] = now])
<1> DEFINE c == Append(b, e)
           L == Len(b)
           later == [last EXCEPT ![e.miner] = now]
<1>1. L \in Nat /\ c \in Chains /\ Len(c) = L + 1 /\ c[L + 1] = e /\ \A i \in 1 .. L : c[i] = b[i]
  BY LenProperties, AppendProperties DEF Chains
<1>2. \A i \in 1 .. L : /\ b[i] \in Entry /\ b[i].timestamp \in Nat /\ b[i].miner \in Nodes
                        /\ b[i].timestamp <= last[b[i].miner] /\ b[i].timestamp <= now
  <2> TAKE i \in 1 .. L
  <2>1. b[i] \in Entry
    BY ElementOfSeq DEF Chains
  <2>2. b[i].timestamp \in Nat /\ b[i].miner \in Nodes
    BY <2>1 DEF Entry
  <2>3. b[i].timestamp <= last[b[i].miner]
    BY DEF ChainKept, NotAhead
  <2> QED
    BY <2>1, <2>2, <2>3
<1>3. e.miner \in Nodes
  BY DEF Entry
<1>4. \A i \in 0 .. L : Prefix(c, i) = Prefix(b, i)
  <2> TAKE i \in 0 .. L
  <2>1. i \in 0 .. Len(c)
    BY <1>1
  <2>2. /\ Prefix(c, i) \in Seq(Entry) /\ Len(Prefix(c, i)) = i
        /\ \A j \in 1 .. i : Prefix(c, i)[j] = c[j]
    BY <1>1, <2>1, PrefixFacts DEF Chains
  <2>3. /\ Prefix(b, i) \in Seq(Entry) /\ Len(Prefix(b, i)) = i
        /\ \A j \in 1 .. i : Prefix(b, i)[j] = b[j]
    BY PrefixFacts DEF Chains
  <2>4. \A j \in 1 .. i : c[j] = b[j]
    BY <1>1
  <2> QED
    BY <2>2, <2>3, <2>4, SeqEqual
<1>5. Prefix(b, L) = b
  BY SubSeqFull DEF Prefix, Chains
<1> HIDE DEF c, L, later
<1>6. L # 0 => InTurn(b[L], e, L)
  <2> SUFFICES ASSUME L # 0 PROVE InTurn(b[L], e, L)
    OBVIOUS
  <2>1. L \in 1 .. L
    BY <1>1
  <2>2. PICK t \in Nat, m \in Nodes : t = b[L].timestamp /\ m = b[L].miner /\ t <= last[m] /\ t <= now
    BY <1>2, <2>1
  <2>3. IndexOf(t) \in Nat /\ IndexOf(now) \in Nat /\ IndexOf(t) <= IndexOf(now)
    BY <2>2, IndexGrows
  <2>4. CASE m = e.miner
    <3>1. last[m] \in Nat
      BY <2>2
    <3>2. Timeouts(t) \in Nat /\ Timeouts(last[m]) \in Nat /\ Timeouts(t) <= Timeouts(last[m])
      BY <2>2, <3>1, TimeoutsGrow
    <3>3. Timeouts(now) \in Nat
      BY TimeoutsGrow
    <3>4. Timeouts(t) < Timeouts(now)
      BY <2>4, <3>2, <3>3
    <3> QED
      BY <2>2, <2>3, <2>4, <3>4 DEF InTurn
  <2>5. CASE m # e.miner /\ IndexOf(t) = IndexOf(now)
    <3>1. m = DueMiner(Parent(b), IndexOf(now))
      BY <2>1, <2>2, <2>5 DEF ChainKept, ByDueMiner, Parent, Prefix, L
    <3>2. ElectionBlock(Parent(b)) # ElectionBlock(b)
      BY <2>5, <3>1 DEF DueMiner
    <3>3. Elects(L)
      BY <3>2, ElectionBlockFacts DEF L
    <3> QED
      BY <2>2, <2>5, <3>3 DEF InTurn
  <2>6. CASE IndexOf(t) < IndexOf(now)
    BY <2>2, <2>6 DEF InTurn
  <2> QED
    BY <2>3, <2>4, <2>5, <2>6
<1>7. Spaced(c)
  <2> SUFFICES ASSUME NEW i \in 1 .. L
               PROVE  InTurn(c[i], c[i + 1], i)
    BY <1>1 DEF Spaced
  <2>1. CASE i = L
    BY <1>1, <1>6, <2>1
  <2>2. CASE i # L
    <3>1. i \in 1 .. L - 1 /\ i + 1 \in 1 .. L
      BY <1>1, <2>2
    <3> QED
      BY <1>1, <3>1 DEF ChainKept, Spaced, L
  <2> QED
    BY <2>1, <2>2
<1>8. ByDueMiner(c)
  <2> SUFFICES ASSUME NEW i \in 1 .. L + 1
               PROVE  c[i].miner = DueMiner(Prefix(c, i - 1), IndexOf(c[i].timestamp))
    BY <1>1 DEF ByDueMiner
  <2>1. i - 1 \in 0 .. L
    BY <1>1
  <2>2. Prefix(c, i - 1) = Prefix(b, i - 1)
    BY <1>4, <2>1
  <2>3. CASE i = L + 1
    BY <1>1, <1>5, <2>2, <2>3
  <2>4. CASE i \in 1 .. L
    BY <1>1, <2>2, <2>4 DEF ChainKept, ByDueMiner, L
  <2> QED
    BY <1>1, <2>3, <2>4
<1>9. NotAhead(c, later)
  <2> SUFFICES ASSUME NEW i \in 1 .. L + 1
               PROVE  c[i].timestamp <= later[c[i].miner]
    BY <1>1 DEF NotAhead
  <2>1. CASE i = L + 1
    BY <1>1, <1>3, <2>1 DEF later
  <2>2. CASE i \in 1 .. L
    BY <1>1, <1>2, <1>3, <2>2 DEF later
  <2> QED
    BY <1>1, <2>1, <2>2
<1> QED
  BY <1>7, <1>8, <1>9 DEF ChainKept, c, later

-----------------------------------------------------------------------------
(* The steps.                                                              *)

LEMMA MissingFacts ==
    ASSUME Types, NEW n \in Nodes, NEW p \in Nodes, NEW b \in Missing(n, p)
    PROVE  /\ b \in Chains
           /\ \E i \in 0 .. Len(tip[p]) : b = Prefix(tip[p], i)
           /\ b # Genesis
<1>1. tip[p] \in Chains
  BY DEF Types
<1>2. PICK i \in DOMAIN tip[p] : b = Prefix(tip[p], i)
  BY DEF Missing, Prefix
<1>3. i \in 1 .. Len(tip[p]) /\ i \in 0 .. Len(tip[p])
  BY <1>1, LenProperties DEF Chains
<1>4. b \in Chains /\ Len(b) = i
  BY <1>1, <1>2, <1>3, PrefixFacts DEF Chains
<1>5. b # Genesis
  BY <1>3, <1>4, EmptySeq DEF Genesis
<1> QED
  BY <1>2, <1>3, <1>4, <1>5

LEMMA MineFacts ==
    ASSUME Types, NEW n \in Nodes, NEW crash \in BOOLEAN, Mine(n, crash)
    PROVE  \E e \in Entry :
              /\ Append(tip[n], e) \in Chains
              /\ AddVerifiedBlock(n, Append(tip[n], e), crash)
              /\ e.timestamp = clock /\ e.miner = n
              /\ Elects(Len(tip[n]) + 1) \/ e.list = <<>>
<1>1. PICK list \in IF Elects(Len(tip[n]) + 1) THEN Lists ELSE {<<>>} :
          AddVerifiedBlock(n, Append(tip[n], [timestamp |-> clock, miner |-> n, list |-> list]), crash)
  BY DEF Mine
<1> DEFINE e == [timestamp |-> clock, miner |-> n, list |-> list]
<1>2. e \in Entry
  BY <1>1 DEF Entry, Types
<1>3. e.timestamp = clock /\ e.miner = n /\ e.list = list
  OBVIOUS
<1> HIDE DEF e
<1>4. Append(tip[n], e) \in Chains
  BY <1>2, AppendProperties DEF Chains, Types
<1> QED
  BY <1>1, <1>2, <1>3, <1>4 DEF e

LEMMA AddedTypes ==
    ASSUME Types, NEW n \in Nodes, NEW b \in Chains, NEW crash \in BOOLEAN, AddVerifiedBlock(n, b, crash)
    PROVE  /\ verified' \in [Nodes -> SUBSET Chains]
           /\ tip' \in [Nodes -> Chains]
           /\ rows' \in [Nodes -> SUBSET Chains]
<1>1. verified' \in [Nodes -> SUBSET Chains]
  BY DEF AddVerifiedBlock, Types
<1>2. tip' \in [Nodes -> Chains]
  BY DEF AddVerifiedBlock, Types
<1>3. rows' \in [Nodes -> SUBSET Chains]
  BY DEF AddVerifiedBlock, Types
<1> QED
  BY <1>1, <1>2, <1>3

LEMMA CrashTypes ==
    ASSUME Types, NEW n \in Nodes, NEW crash \in BOOLEAN, Crash(n, crash)
    PROVE  mining' \in [Nodes -> BOOLEAN] /\ crashes' \in Nat
  BY DEF Crash, Types

LEMMA StepTypes ==
    Types /\ [DposNext]_chainVars => Types'
<1> SUFFICES ASSUME Types, [DposNext]_chainVars PROVE Types'
  OBVIOUS
<1>1. CASE UNCHANGED chainVars
  BY <1>1 DEF Types, chainVars
<1>2. CASE Tick
  BY <1>2 DEF Types, Tick
<1>3. ASSUME NEW n \in Nodes, TimerEnds(n) \/ Pass(n)
      PROVE  Types'
  BY <1>3 DEF Types, TimerEnds, Pass
<1>4. ASSUME NEW n \in Nodes, NEW crash \in BOOLEAN, Mine(n, crash)
      PROVE  Types'
  <2>1. PICK e \in Entry :
            Append(tip[n], e) \in Chains /\ AddVerifiedBlock(n, Append(tip[n], e), crash)
    BY <1>4, MineFacts
  <2>2. verified' \in [Nodes -> SUBSET Chains] /\ tip' \in [Nodes -> Chains]
        /\ rows' \in [Nodes -> SUBSET Chains]
    BY <2>1, AddedTypes
  <2>3. mining' \in [Nodes -> BOOLEAN] /\ crashes' \in Nat
    BY <1>4, CrashTypes DEF Mine
  <2>4. timerSet' \in [Nodes -> Nat] /\ UNCHANGED <<clock, banned>>
    BY <1>4 DEF Mine, Types
  <2> QED
    BY <2>2, <2>3, <2>4 DEF Types
<1>5. ASSUME NEW n \in Nodes, NEW p \in Nodes, Refuse(n, p)
      PROVE  Types'
  BY <1>5 DEF Types, Refuse
<1>6. ASSUME NEW n \in Nodes, NEW p \in Nodes, NEW crash \in BOOLEAN, Receive(n, p, crash)
      PROVE  Types'
  <2>1. PICK b \in Missing(n, p) : AddVerifiedBlock(n, b, crash)
    BY <1>6 DEF Receive
  <2>2. b \in Chains
    BY <2>1, MissingFacts
  <2>3. verified' \in [Nodes -> SUBSET Chains] /\ tip' \in [Nodes -> Chains]
        /\ rows' \in [Nodes -> SUBSET Chains]
    BY <2>1, <2>2, AddedTypes
  <2>4. mining' \in [Nodes -> BOOLEAN] /\ crashes' \in Nat
    BY <1>6, CrashTypes DEF Receive
  <2>5. timerSet' \in [Nodes -> Nat] /\ UNCHANGED <<clock, banned>>
    BY <1>6 DEF Receive, Types
  <2> QED
    BY <2>3, <2>4, <2>5 DEF Types
<1> QED
  BY <1>1, <1>2, <1>3, <1>4, <1>5, <1>6 DEF DposNext

LEMMA InitTypes ==
    DposInit => Types
<1> SUFFICES ASSUME DposInit PROVE Types
  OBVIOUS
<1>1. Genesis \in Chains
  BY EmptySeq DEF Genesis, Chains
<1> QED
  BY <1>1 DEF DposInit, Types

-----------------------------------------------------------------------------
(* Every best chain is kept.                                               *)

ChainsKept ==
    /\ \A n \in Nodes : timerSet[n] <= clock
    /\ \A n \in Nodes : ChainKept(tip[n], timerSet)

(* A step that sets timers keeps the chains that stay.                      *)
LEMMA TimersKeep ==
    ASSUME Types, Types', ChainsKept, NEW n \in Nodes,
           timerSet' \in {timerSet, [timerSet EXCEPT ![n] = clock]}
    PROVE  \A b \in Chains : ChainKept(b, timerSet) => ChainKept(b, timerSet')
<1>1. timerSet \in [Nodes -> Nat] /\ timerSet' \in [Nodes -> Nat]
  BY DEF Types
<1>2. \A m \in Nodes : timerSet[m] <= timerSet'[m]
  BY <1>1 DEF ChainsKept
<1> QED
  BY <1>1, <1>2, LaterKept

LEMMA MineKeeps ==
    ASSUME Types, Types', ChainsKept, NEW n \in Nodes, NEW crash \in BOOLEAN, Mine(n, crash)
    PROVE  ChainsKept'
<1>1. PICK e \in Entry :
          /\ AddVerifiedBlock(n, Append(tip[n], e), crash)
          /\ e.timestamp = clock /\ e.miner = n
  BY MineFacts
<1>2. Fires(n) /\ DueMiner(tip[n], IndexOf(clock)) = n /\ timerSet' = [timerSet EXCEPT ![n] = clock]
      /\ clock' = clock
  BY DEF Mine
<1>3. timerSet \in [Nodes -> Nat] /\ clock \in Nat /\ tip \in [Nodes -> Chains]
  BY DEF Types
<1>4. \A m \in Nodes : timerSet'[m] <= clock'
  BY <1>2, <1>3 DEF ChainsKept
<1>5. ChainKept(Append(tip[n], e), timerSet')
  <2>1. \A m \in Nodes : timerSet[m] <= clock
    BY DEF ChainsKept
  <2>2. tip[n] \in Chains /\ ChainKept(tip[n], timerSet)
    BY <1>3 DEF ChainsKept
  <2>3. Timeouts(timerSet[n]) < Timeouts(clock)
    <3>1. timerSet[n] \in Nat /\ timerSet[n] <= clock
      BY <1>3, <2>1
    <3> QED
      BY <1>2, <1>3, <3>1, FiresLater
  <2> QED
    BY <1>1, <1>2, <1>3, <2>1, <2>2, <2>3, ExtendKept
<1>6. \A m \in Nodes : tip'[m] = tip[m] \/ (m = n /\ tip'[m] = Append(tip[n], e))
  BY <1>1, <1>3 DEF AddVerifiedBlock
<1>7. \A m \in Nodes : ChainKept(tip[m], timerSet')
  BY <1>2, <1>3, TimersKeep DEF ChainsKept
<1> QED
  BY <1>4, <1>5, <1>6, <1>7 DEF ChainsKept

LEMMA StepKeeps ==
    Types /\ ChainsKept /\ [DposNext]_chainVars => ChainsKept'
<1> SUFFICES ASSUME Types, ChainsKept, [DposNext]_chainVars PROVE ChainsKept'
  OBVIOUS
<1>0. Types'
  BY StepTypes
<1>1. CASE UNCHANGED <<clock, timerSet, tip>>
  BY <1>1 DEF ChainsKept
<1>2. CASE UNCHANGED chainVars
  BY <1>1, <1>2 DEF chainVars
<1>3. CASE Tick
  BY <1>3 DEF ChainsKept, Tick, Types
<1>4. ASSUME NEW n \in Nodes, TimerEnds(n)
      PROVE  ChainsKept'
  BY <1>1, <1>4 DEF TimerEnds
<1>5. ASSUME NEW n \in Nodes, NEW p \in Nodes, Refuse(n, p)
      PROVE  ChainsKept'
  BY <1>1, <1>5 DEF Refuse
<1>6. ASSUME NEW n \in Nodes, NEW p \in Nodes, NEW crash \in BOOLEAN, Receive(n, p, crash)
      PROVE  ChainsKept'
  <2>1. PICK b \in Missing(n, p) : AddVerifiedBlock(n, b, crash)
    BY <1>6 DEF Receive
  <2>2. b \in Chains /\ \E i \in 0 .. Len(tip[p]) : b = Prefix(tip[p], i)
    BY <2>1, MissingFacts
  <2>3. ChainKept(b, timerSet)
    BY <2>2, PrefixKept DEF ChainsKept, Types
  <2>4. \A m \in Nodes : tip'[m] \in {tip[m], b}
    BY <2>1 DEF AddVerifiedBlock, Types
  <2>5. clock' = clock /\ timerSet' \in {timerSet, [timerSet EXCEPT ![n] = clock]}
    BY <1>6 DEF Receive, Types
  <2>6. \A m \in Nodes : tip'[m] \in Chains /\ ChainKept(tip'[m], timerSet')
    <3>1. \A m \in Nodes : tip'[m] \in Chains /\ ChainKept(tip'[m], timerSet)
      BY <2>2, <2>3, <2>4 DEF ChainsKept, Types
    <3> QED
      BY <1>0, <2>5, <3>1, TimersKeep
  <2>7. \A m \in Nodes : timerSet'[m] <= clock'
    BY <2>5 DEF ChainsKept, Types
  <2> QED
    BY <2>6, <2>7 DEF ChainsKept
<1>7. ASSUME NEW n \in Nodes, Pass(n)
      PROVE  ChainsKept'
  <2>1. tip' = tip /\ clock' = clock /\ timerSet' = [timerSet EXCEPT ![n] = clock]
    BY <1>7 DEF Pass
  <2>2. \A m \in Nodes : tip[m] \in Chains /\ ChainKept(tip[m], timerSet)
    BY DEF ChainsKept, Types
  <2>3. \A m \in Nodes : ChainKept(tip[m], timerSet')
    BY <1>0, <2>1, <2>2, TimersKeep
  <2>4. \A m \in Nodes : timerSet'[m] <= clock'
    BY <2>1 DEF ChainsKept, Types
  <2> QED
    BY <2>1, <2>3, <2>4 DEF ChainsKept
<1> QED
  BY <1>0, <1>2, <1>3, <1>4, <1>5, <1>6, <1>7, MineKeeps DEF DposNext

LEMMA InitKeeps ==
    DposInit => ChainsKept
<1> SUFFICES ASSUME DposInit PROVE ChainsKept
  OBVIOUS
<1>1. ChainKept(Genesis, timerSet)
  <2>1. Len(Genesis) = 0
    BY EmptySeq DEF Genesis
  <2> QED
    BY <2>1 DEF ChainKept, Spaced, ByDueMiner, NotAhead
<1> QED
  BY <1>1 DEF DposInit, ChainsKept

-----------------------------------------------------------------------------
(* Nobody's timer ends.                                                    *)

(* The child of a block whose miners are known, once it is the tip, has its *)
(* own miners known: it stores its row, or has the election block of its    *)
(* parent.                                                                  *)
LEMMA TipKnown ==
    ASSUME Types, NEW n \in Nodes, NEW b \in Chains, MoreWork(b, tip[n]),
           AddVerifiedBlock(n, b, FALSE), MinersKnown(n, Parent(b))
    PROVE  ElectionBlock(tip'[n]) \in rows'[n]
<1>1. tip'[n] = b
  BY DEF AddVerifiedBlock, Types
<1>2. rows[n] \subseteq rows'[n] /\ (Elects(Len(b)) => b \in rows'[n])
  BY DEF AddVerifiedBlock, Types
<1>3. CASE Elects(Len(b))
  BY <1>1, <1>2, <1>3, ElectionBlockFacts
<1>4. CASE ~Elects(Len(b))
  BY <1>1, <1>2, <1>4, ElectionBlockFacts DEF MinersKnown
<1> QED
  BY <1>3, <1>4

\* The other nodes, and a node whose tip stays.
LEMMA TipStays ==
    ASSUME Types, MinersGoOn, NEW n \in Nodes, NEW b \in Chains, NEW crash \in BOOLEAN,
           AddVerifiedBlock(n, b, crash), NEW m \in Nodes, MinersKnown(m, tip[m]),
           m = n => ~MoreWork(b, tip[n])
    PROVE  ElectionBlock(tip'[m]) \in rows'[m]
<1>1. tip'[m] = tip[m] /\ rows[m] \subseteq rows'[m]
  BY DEF AddVerifiedBlock, Types
<1> QED
  BY <1>1 DEF MinersKnown

LEMMA AddedGoOn ==
    ASSUME Types, MinersGoOn, NEW n \in Nodes, NEW b \in Chains, NEW crash \in BOOLEAN,
           AddVerifiedBlock(n, b, crash), Crash(n, crash), MinersKnown(n, Parent(b))
    PROVE  MinersGoOn'
<1> SUFFICES ASSUME crashes' = 0, NEW m \in Nodes
             PROVE  mining'[m] /\ ElectionBlock(tip'[m]) \in rows'[m]
  BY DEF MinersGoOn, MinersKnown
<1>1. crashes = 0 /\ crash = FALSE
  BY DEF Crash, Types
<1>2. mining[m] /\ MinersKnown(m, tip[m])
  BY <1>1 DEF MinersGoOn
<1>3. mining'[m]
  BY <1>2 DEF Crash, Types
<1>4. CASE m = n /\ MoreWork(b, tip[n])
  BY <1>1, <1>3, <1>4, TipKnown
<1>5. CASE ~(m = n /\ MoreWork(b, tip[n]))
  BY <1>2, <1>3, <1>5, TipStays
<1> QED
  BY <1>4, <1>5

LEMMA StepGoOn ==
    Types /\ ChainsKept /\ MinersGoOn /\ [DposNext]_chainVars => MinersGoOn'
<1> SUFFICES ASSUME Types, ChainsKept, MinersGoOn, [DposNext]_chainVars PROVE MinersGoOn'
  OBVIOUS
<1>1. CASE UNCHANGED <<mining, tip, rows, crashes>>
  BY <1>1 DEF MinersGoOn, MinersKnown
<1>2. CASE UNCHANGED chainVars
  BY <1>1, <1>2 DEF chainVars
<1>3. CASE Tick
  BY <1>1, <1>3 DEF Tick
<1>4. ASSUME NEW n \in Nodes, TimerEnds(n) \/ Pass(n)
      PROVE  MinersGoOn'
  <2>1. CASE Pass(n)
    BY <1>1, <2>1 DEF Pass
  <2>2. CASE TimerEnds(n)
    <3>1. timerSet[n] \in Nat /\ clock \in Nat /\ timerSet[n] <= clock
      BY DEF Types, ChainsKept
    <3>2. IndexOf(clock) # 0
      BY <2>2, <3>1, FiresLater DEF TimerEnds
    <3>3. crashes # 0
      BY <2>2, <3>2 DEF TimerEnds, Decides, MinersGoOn
    <3> QED
      BY <2>2, <3>3 DEF TimerEnds, MinersGoOn
  <2> QED
    BY <1>4, <2>1, <2>2
<1>5. ASSUME NEW n \in Nodes, NEW p \in Nodes, Refuse(n, p)
      PROVE  MinersGoOn'
  BY <1>1, <1>5 DEF Refuse
<1>6. ASSUME NEW n \in Nodes, NEW p \in Nodes, NEW crash \in BOOLEAN, Receive(n, p, crash)
      PROVE  MinersGoOn'
  <2>1. PICK b \in Missing(n, p) : Accepts(n, b) /\ AddVerifiedBlock(n, b, crash)
    BY <1>6 DEF Receive
  <2>2. b \in Chains
    BY <2>1, MissingFacts
  <2>3. MinersKnown(n, Parent(b))
    BY <2>1 DEF Accepts, Parent
  <2>4. Crash(n, crash)
    BY <1>6 DEF Receive
  <2> QED
    BY <2>1, <2>2, <2>3, <2>4, AddedGoOn
<1>7. ASSUME NEW n \in Nodes, NEW crash \in BOOLEAN, Mine(n, crash)
      PROVE  MinersGoOn'
  <2>1. PICK e \in Entry :
            Append(tip[n], e) \in Chains /\ AddVerifiedBlock(n, Append(tip[n], e), crash)
    BY <1>7, MineFacts
  <2>2. MinersKnown(n, tip[n]) /\ Crash(n, crash)
    BY <1>7 DEF Mine, Decides
  <2>3. Parent(Append(tip[n], e)) = tip[n]
    <3>1. tip[n] \in Seq(Entry)
      BY DEF Types, Chains
    <3> DEFINE c == Append(tip[n], e)
               L == Len(tip[n])
    <3>2. /\ c \in Seq(Entry) /\ L \in Nat /\ Len(c) = L + 1
          /\ \A i \in 1 .. L : c[i] = tip[n][i]
      BY <3>1, <2>1, AppendProperties, LenProperties
    <3> HIDE DEF c, L
    <3>3. L \in 0 .. Len(c)
      BY <3>2
    <3>4. /\ Prefix(c, L) \in Seq(Entry) /\ Len(Prefix(c, L)) = L
          /\ \A i \in 1 .. L : Prefix(c, L)[i] = c[i]
      BY <3>2, <3>3, PrefixFacts
    <3>5. Prefix(c, L) = tip[n]
      BY <3>1, <3>2, <3>4, SeqEqual DEF L
    <3>6. Len(c) - 1 = L
      BY <3>2
    <3> QED
      BY <3>5, <3>6 DEF Parent, Prefix, c
  <2> QED
    BY <2>1, <2>2, <2>3, AddedGoOn
<1> QED
  BY <1>2, <1>3, <1>4, <1>5, <1>6, <1>7 DEF DposNext

LEMMA InitGoOn ==
    DposInit => MinersGoOn
<1> SUFFICES ASSUME DposInit PROVE MinersGoOn
  OBVIOUS
<1>1. Genesis \in Chains /\ Len(Genesis) = 0
  BY EmptySeq DEF Genesis, Chains
<1>2. ElectionBlock(Genesis) = Genesis
  BY <1>1, ElectionBlockFacts
<1> QED
  BY <1>2 DEF DposInit, MinersGoOn, MinersKnown

-----------------------------------------------------------------------------
(* Theorems.                                                               *)

(* The best chain of a node has each block made by the miner that the       *)
(* election block before it names for its index, and whoever made a block   *)
(* set its timer after it (_verifyMiner, dpos_chain/block.ts:51, and the    *)
(* timer's handler, miner.ts:88).                                           *)
THEOREM Invariance ==
    DposSpec => [](Types /\ ChainsKept)
<1>1. DposInit => Types /\ ChainsKept
  BY InitTypes, InitKeeps
<1>2. Types /\ ChainsKept /\ [DposNext]_chainVars => (Types /\ ChainsKept)'
  BY StepTypes, StepKeeps
<1> QED
  BY <1>1, <1>2, PTL DEF DposSpec

(* Indexes grow along a best chain, but for a miner that a timeout calls    *)
(* again while its turn lasts, and behind an election block, whatever       *)
(* branches were followed and wherever nodes crashed.                       *)
THEOREM TurnsHold ==
    DposSpec => []TurnsTaken
<1>1. ChainsKept => TurnsTaken
  BY DEF ChainsKept, ChainKept, Spaced, InTurn, TurnsTaken
<1> QED
  BY <1>1, Invariance, PTL

(* Without a crash no miner's timer ends: the miners of the next block are  *)
(* known wherever the tip is, though not every verified election block gets *)
(* its row (dpos_chain/chain.ts:265).                                       *)
THEOREM TimersGoOn ==
    DposSpec => []MinersGoOn
<1>1. DposInit => Types /\ ChainsKept /\ MinersGoOn
  BY InitTypes, InitKeeps, InitGoOn
<1>2. Types /\ ChainsKept /\ MinersGoOn /\ [DposNext]_chainVars => (Types /\ ChainsKept /\ MinersGoOn)'
  BY StepTypes, StepKeeps, StepGoOn
<1> QED
  BY <1>1, <1>2, PTL DEF DposSpec

-----------------------------------------------------------------------------
(* ValueExecutor.                                                           *)

Balances == [Addresses -> Nat]
Tree == [balance : Balances, nonce : [Users -> Int]]
Receipt == [from : Users, succeeds : BOOLEAN, cost : Nat]
TransactionRun == [from : Users, fee : Nat, cost : Nat]
EventRun == [event : {"pre", "post"}]

ValueTypes ==
    /\ phase \in {"wage", "pre", "transactions", "post", "done", "failed", "unpaid"}
    /\ trees \in Seq(Tree)
    /\ root \in 1 .. Len(trees)
    /\ saved \in Tree \cup {Nothing}
    /\ running \in TransactionRun \cup EventRun \cup {Nothing}
    /\ opened \in 1 .. Len(trees)
    /\ calls \in Nat
    /\ receipts \in Seq(Receipt)
    /\ issued \in Nat
    /\ before \in Balances

\* What runs belongs to the phase, and has saved a tree.
Runs ==
    /\ phase = "transactions" => running \in TransactionRun \cup {Nothing}
    /\ phase \in {"pre", "post"} => running \in EventRun \cup {Nothing}
    /\ running # Nothing => saved # Nothing /\ phase \in {"transactions", "pre", "post"}
    /\ running = Nothing => saved = Nothing
    /\ phase = "wage" => issued = 0 /\ Len(trees) = 1

-----------------------------------------------------------------------------
(* Transfers.                                                              *)

LEMMA AddressFacts ==
    /\ IsFiniteSet(Addresses) /\ SysAddress \in Addresses /\ Users \subseteq Addresses
    /\ Coinbase \in Addresses /\ SysAddress \notin Users
<1>1. IsFiniteSet({SysAddress})
  BY FS_Singleton
<1>2. IsFiniteSet(Users \cup {SysAddress})
  BY <1>1, ValueAssumption, FS_Union
<1> QED
  BY <1>2, ValueAssumption DEF Addresses

LEMMA TransferFacts ==
    ASSUME NEW b \in Balances, NEW from \in Addresses, NEW to \in Addresses, NEW amount \in Nat
    PROVE  /\ TransferTo(b, from, to, amount) \in Balances
           /\ Total(TransferTo(b, from, to, amount), Addresses) = Total(b, Addresses)
           /\ \A a \in Addresses \ {from} : TransferTo(b, from, to, amount)[a] >= b[a]
           /\ amount = 0 => TransferTo(b, from, to, amount) = b
<1> DEFINE less == [b EXCEPT ![from] = @ - amount]
           t == [less EXCEPT ![to] = @ + amount]
<1>1. CASE b[from] < amount
  BY <1>1 DEF TransferTo, Balances
<1>2. CASE ~(b[from] < amount)
  <2>1. TransferTo(b, from, to, amount) = t
    BY <1>2 DEF TransferTo
  <2>2. less \in Balances /\ less[from] = b[from] - amount /\ \A a \in Addresses \ {from} : less[a] = b[a]
    BY <1>2 DEF Balances
  <2> HIDE DEF less
  <2>3. t \in Balances /\ t[to] = less[to] + amount /\ \A a \in Addresses \ {to} : t[a] = less[a]
    BY <2>2 DEF Balances
  <2> HIDE DEF t
  <2>4. \A a \in Addresses : b[a] \in Int /\ less[a] \in Int /\ t[a] \in Int
    BY <2>2, <2>3 DEF Balances
  <2>5. Total(less, Addresses) = Total(b, Addresses) + (less[from] - b[from])
    BY <2>2, <2>4, AddressFacts, TotalChange
  <2>6. Total(t, Addresses) = Total(less, Addresses) + (t[to] - less[to])
    BY <2>3, <2>4, AddressFacts, TotalChange
  <2>7. Total(b, Addresses) \in Int /\ Total(less, Addresses) \in Int /\ Total(t, Addresses) \in Int
    BY <2>4, AddressFacts, TotalType
  <2>8. less[from] - b[from] = -amount /\ t[to] - less[to] = amount
    BY <2>2, <2>3, <2>4
  <2>9. Total(t, Addresses) = Total(b, Addresses)
    BY <2>5, <2>6, <2>7, <2>8
  <2>10. \A a \in Addresses \ {from} : t[a] >= b[a]
    BY <2>2, <2>3, <2>4
  <2>11. amount = 0 => t = b
    <3> SUFFICES ASSUME amount = 0 PROVE t = b
      OBVIOUS
    <3>1. \A a \in Addresses : t[a] = b[a]
      BY <2>2, <2>3, <2>4
    <3> QED
      BY <2>3, <3>1 DEF Balances
  <2> QED
    BY <2>1, <2>3, <2>9, <2>10, <2>11
<1> QED
  BY <1>1, <1>2

-----------------------------------------------------------------------------
(* Trees.                                                                  *)

TInv == ValueTypes /\ Runs

LEMMA TreeFacts ==
    ASSUME ValueTypes, NEW i \in 1 .. Len(trees)
    PROVE  /\ trees[i] \in Tree
           /\ trees[i].balance \in Balances /\ trees[i].nonce \in [Users -> Int]
<1>1. trees[i] \in Tree
  BY ElementOfSeq DEF ValueTypes
<1> QED
  BY <1>1 DEF Tree

LEMMA ReplaceFacts ==
    ASSUME NEW ts \in Seq(Tree), NEW i \in 1 .. Len(ts), NEW t \in Tree
    PROVE  /\ [ts EXCEPT ![i] = t] \in Seq(Tree) /\ Len([ts EXCEPT ![i] = t]) = Len(ts)
           /\ [ts EXCEPT ![i] = t][i] = t
           /\ \A j \in 1 .. Len(ts) : j # i => [ts EXCEPT ![i] = t][j] = ts[j]
  BY ExceptSeq

LEMMA BalanceFacts ==
    ASSUME NEW t \in Tree, NEW b \in Balances
    PROVE  /\ [t EXCEPT !.balance = b] \in Tree
           /\ [t EXCEPT !.balance = b].balance = b /\ [t EXCEPT !.balance = b].nonce = t.nonce
  BY DEF Tree

LEMMA NonceFacts ==
    ASSUME NEW t \in Tree, NEW u \in Users
    PROVE  /\ DealNonce(t, u) \in Tree /\ DealNonce(t, u).balance = t.balance
           /\ DealNonce(t, u).nonce = [t.nonce EXCEPT ![u] = @ + 1]
  BY DEF Tree, DealNonce

\* Where a step writes one balance into one tree.
Written(i, b) == trees' = [trees EXCEPT ![i] = [trees[i] EXCEPT !.balance = b]]

LEMMA WrittenFacts ==
    ASSUME ValueTypes, NEW i \in 1 .. Len(trees), NEW b \in Balances, Written(i, b)
    PROVE  /\ trees' \in Seq(Tree) /\ Len(trees') = Len(trees)
           /\ trees'[i].balance = b /\ trees'[i].nonce = trees[i].nonce
           /\ \A j \in 1 .. Len(trees) : j # i => trees'[j] = trees[j]
<1>1. trees \in Seq(Tree) /\ trees[i] \in Tree
  BY TreeFacts DEF ValueTypes
<1> DEFINE t == [trees[i] EXCEPT !.balance = b]
<1>2. t \in Tree /\ t.balance = b /\ t.nonce = trees[i].nonce
  BY <1>1, BalanceFacts
<1>3. trees' = [trees EXCEPT ![i] = t]
  BY DEF Written
<1> HIDE DEF t
<1> QED
  BY <1>1, <1>2, <1>3, ReplaceFacts

LEMMA RolledFacts ==
    ASSUME NEW ts \in Seq(Tree), Len(ts) = Len(trees), ValueTypes, saved # Nothing
    PROVE  /\ Rolled(ts) \in Seq(Tree) /\ Len(Rolled(ts)) >= Len(ts)
           /\ RootAfterRollback \in 1 .. Len(Rolled(ts))
           /\ Rolled(ts)[RootAfterRollback] = saved
           /\ \A j \in 1 .. Len(Rolled(ts)) :
                  Rolled(ts)[j] = saved \/ (j \in 1 .. Len(ts) /\ Rolled(ts)[j] = ts[j])
<1>1. saved \in Tree /\ root \in 1 .. Len(ts) /\ Len(ts) \in Nat
  BY LenProperties DEF ValueTypes
<1>2. CASE RollbackReplacesTree
  <2>1. Rolled(ts) = Append(ts, saved) /\ RootAfterRollback = Len(ts) + 1
    BY <1>2 DEF Rolled, RootAfterRollback
  <2>2. /\ Append(ts, saved) \in Seq(Tree) /\ Len(Append(ts, saved)) = Len(ts) + 1
        /\ \A i \in 1 .. Len(ts) : Append(ts, saved)[i] = ts[i]
        /\ Append(ts, saved)[Len(ts) + 1] = saved
    BY <1>1, AppendProperties
  <2> QED
    BY <1>1, <2>1, <2>2
<1>3. CASE ~RollbackReplacesTree
  <2>1. Rolled(ts) = [ts EXCEPT ![root] = saved] /\ RootAfterRollback = root
    BY <1>3 DEF Rolled, RootAfterRollback
  <2> QED
    BY <1>1, <2>1, ReplaceFacts
<1> QED
  BY <1>2, <1>3

LEMMA Kinds ==
    Nothing \notin TransactionRun /\ Nothing \notin EventRun /\ Nothing \notin Tree
  BY ValueAssumption DEF TransactionRun, EventRun, Tree, Balances, Addresses

LEMMA CostFacts ==
    ASSUME NEW r \in TransactionRun, NEW fee \in Nat
    PROVE  LET s == [r EXCEPT !.cost = Min({@ + fee, r.fee})]
           IN  s \in TransactionRun /\ s.from = r.from /\ s.fee = r.fee /\ s.cost <= s.fee
<1> DEFINE c == Min({r.cost + fee, r.fee})
<1>1. r.cost + fee \in Nat /\ r.fee \in Nat
  BY DEF TransactionRun
<1>2. \E x \in {r.cost + fee, r.fee} : \A y \in {r.cost + fee, r.fee} : x <= y
  BY <1>1
<1>3. c \in {r.cost + fee, r.fee} /\ \A y \in {r.cost + fee, r.fee} : c <= y
  BY <1>2 DEF Min
<1>4. c \in Nat /\ c <= r.fee
  BY <1>1, <1>3
<1> HIDE DEF c
<1>5. LET s == [r EXCEPT !.cost = c]
      IN  s \in TransactionRun /\ s.from = r.from /\ s.fee = r.fee /\ s.cost <= s.fee
  BY <1>4 DEF TransactionRun
<1> QED
  BY <1>5 DEF c

LEMMA AmountFacts ==
    /\ Wages \subseteq Nat /\ Amounts \subseteq Nat
    /\ \A tx \in Transactions : /\ tx.from \in Users /\ tx.value \in Nat /\ tx.fee \in Nat
                                /\ Needed(tx) = tx.value + tx.fee
  BY ValueAssumption DEF Transactions, Needed

-----------------------------------------------------------------------------
(* What the actions do to the trees.                                       *)

LEMMA IssueFacts ==
    ASSUME NEW b \in Balances, NEW to \in Addresses, NEW amount \in Nat
    PROVE  /\ Issue(b, to, amount) \in Balances
           /\ Total(Issue(b, to, amount), Addresses) = Total(b, Addresses) + amount
           /\ Total(b, Addresses) \in Int
<1> DEFINE t == Issue(b, to, amount)
<1>1. t \in Balances /\ t[to] = b[to] + amount /\ \A a \in Addresses \ {to} : t[a] = b[a]
  BY DEF Issue, Balances
<1> HIDE DEF t
<1>2. \A a \in Addresses : b[a] \in Int /\ t[a] \in Int
  BY <1>1 DEF Balances
<1>3. Total(t, Addresses) = Total(b, Addresses) + (t[to] - b[to])
  BY <1>1, <1>2, AddressFacts, TotalChange
<1>4. Total(b, Addresses) \in Int
  BY <1>2, AddressFacts, TotalType
<1>5. t[to] - b[to] = amount
  BY <1>1, <1>2
<1> QED
  BY <1>1, <1>3, <1>4, <1>5 DEF t

LEMMA WageEffect ==
    ASSUME TInv, ExecuteMinerWageEvent
    PROVE  \E wage \in Nat : /\ issued' = wage
                             /\ Written(root, Issue(trees[root].balance, Coinbase, wage))
                             /\ Issue(trees[root].balance, Coinbase, wage) \in Balances
<1>1. PICK wage \in Wages :
          /\ trees' = [trees EXCEPT ![root].balance = Issue(@, Coinbase, wage)]
          /\ issued' = wage
  BY DEF ExecuteMinerWageEvent
<1>2. wage \in Nat
  BY AmountFacts
<1>3. root \in 1 .. Len(trees) /\ trees[root].balance \in Balances
  BY TreeFacts DEF TInv, ValueTypes
<1>4. Issue(trees[root].balance, Coinbase, wage) \in Balances
  BY <1>2, <1>3, AddressFacts, IssueFacts
<1>5. Written(root, Issue(trees[root].balance, Coinbase, wage))
  BY <1>1 DEF Written
<1> QED
  BY <1>1, <1>2, <1>4, <1>5

LEMMA ListenerEffect ==
    ASSUME TInv, ListenerTransfers
    PROVE  \E to \in Users, amount \in Nat :
              /\ Written(1, TransferTo(trees[1].balance, SysAddress, to, amount))
              /\ TransferTo(trees[1].balance, SysAddress, to, amount) \in Balances
              /\ 1 \in 1 .. Len(trees)
<1>1. PICK to \in Users, amount \in Amounts :
          trees' = [trees EXCEPT ![1].balance = TransferTo(@, SysAddress, to, amount)]
  BY DEF ListenerTransfers, BlockHandle
<1>2. amount \in Nat
  BY AmountFacts
<1>3. 1 \in 1 .. Len(trees)
  BY LenProperties DEF TInv, ValueTypes
<1>4. trees[1].balance \in Balances
  BY <1>3, TreeFacts DEF TInv
<1>5. TransferTo(trees[1].balance, SysAddress, to, amount) \in Balances
  BY <1>2, <1>4, AddressFacts, TransferFacts
<1>6. Written(1, TransferTo(trees[1].balance, SysAddress, to, amount))
  BY <1>1 DEF Written
<1> QED
  BY <1>2, <1>3, <1>5, <1>6

\* A tree takes the place of the current one.
Becomes(t) == trees' = [trees EXCEPT ![root] = t]

LEMMA BecomesFacts ==
    ASSUME ValueTypes, NEW t \in Tree, Becomes(t)
    PROVE  /\ trees' \in Seq(Tree) /\ Len(trees') = Len(trees) /\ trees'[root] = t
           /\ \A j \in 1 .. Len(trees) : j # root => trees'[j] = trees[j]
<1>1. trees \in Seq(Tree) /\ root \in 1 .. Len(trees)
  BY DEF ValueTypes
<1> QED
  BY <1>1, ReplaceFacts DEF Becomes

LEMMA ExecuteEffect ==
    ASSUME TInv, NEW tx \in Transactions, ExecuteTransaction(tx)
    PROVE  \E t \in Tree :
              /\ Becomes(t)
              /\ t.balance = TransferTo(trees[root].balance, tx.from, SysAddress, tx.value)
              /\ t.nonce = [trees[root].nonce EXCEPT ![tx.from] = @ + 1]
              /\ saved' = DealNonce(trees[root], tx.from)
              /\ DealNonce(trees[root], tx.from) \in Tree
<1> DEFINE d == DealNonce(trees[root], tx.from)
           b == TransferTo(d.balance, tx.from, SysAddress, tx.value)
           t == [d EXCEPT !.balance = b]
<1>1. trees[root] \in Tree /\ tx.from \in Users /\ tx.from \in Addresses /\ tx.value \in Nat
  BY TreeFacts, AmountFacts, AddressFacts DEF TInv, ValueTypes
<1>2. /\ d \in Tree /\ d.balance = trees[root].balance
      /\ d.nonce = [trees[root].nonce EXCEPT ![tx.from] = @ + 1]
  BY <1>1, NonceFacts
<1>3. saved' = d /\ Becomes(t)
  BY DEF ExecuteTransaction, AtBegin, Becomes
<1> HIDE DEF d
<1>4. d.balance \in Balances
  BY <1>2 DEF Tree
<1>5. b \in Balances
  BY <1>1, <1>4, AddressFacts, TransferFacts
<1>6. t \in Tree /\ t.balance = b /\ t.nonce = d.nonce
  BY <1>2, <1>5, BalanceFacts
<1>7. b = TransferTo(trees[root].balance, tx.from, SysAddress, tx.value)
  BY <1>2
<1> HIDE DEF b, t
<1> QED
  BY <1>2, <1>3, <1>6, <1>7 DEF d

LEMMA NotEnoughEffect ==
    ASSUME TInv, NEW tx \in Transactions, NotEnough(tx)
    PROVE  \E t \in Tree :
              /\ Becomes(t)
              /\ t.balance = trees[root].balance
              /\ t.nonce = [trees[root].nonce EXCEPT ![tx.from] = @ + 1]
<1> DEFINE d == DealNonce(trees[root], tx.from)
<1>1. trees[root] \in Tree /\ tx.from \in Users
  BY TreeFacts, AmountFacts DEF TInv, ValueTypes
<1>2. /\ d \in Tree /\ d.balance = trees[root].balance
      /\ d.nonce = [trees[root].nonce EXCEPT ![tx.from] = @ + 1]
  BY <1>1, NonceFacts
<1>3. Becomes(d)
  BY DEF NotEnough, Becomes
<1> QED
  BY <1>2, <1>3

\* The trees as the listener has left them, or as the rollback has.
Left(succeeds) == IF succeeds THEN trees ELSE Rolled(trees)

LEMMA LeftFacts ==
    ASSUME TInv, running # Nothing, NEW succeeds \in BOOLEAN
    PROVE  /\ Left(succeeds) \in Seq(Tree) /\ Len(Left(succeeds)) >= Len(trees)
           /\ (IF succeeds THEN root ELSE RootAfterRollback) \in 1 .. Len(Left(succeeds))
           /\ opened \in 1 .. Len(Left(succeeds))
           /\ \A j \in 1 .. Len(Left(succeeds)) :
                  Left(succeeds)[j] = saved \/ (j \in 1 .. Len(trees) /\ Left(succeeds)[j] = trees[j])
<1>1. /\ trees \in Seq(Tree) /\ root \in 1 .. Len(trees) /\ opened \in 1 .. Len(trees)
      /\ saved # Nothing /\ Len(trees) \in Nat /\ ValueTypes
  BY LenProperties DEF TInv, ValueTypes, Runs
<1>2. CASE succeeds
  BY <1>1, <1>2 DEF Left
<1>3. CASE ~succeeds
  <2>1. /\ Rolled(trees) \in Seq(Tree) /\ Len(Rolled(trees)) >= Len(trees)
        /\ RootAfterRollback \in 1 .. Len(Rolled(trees))
        /\ \A j \in 1 .. Len(Rolled(trees)) :
              Rolled(trees)[j] = saved \/ (j \in 1 .. Len(trees) /\ Rolled(trees)[j] = trees[j])
    BY <1>1, RolledFacts
  <2>2. Len(Rolled(trees)) \in Nat
    BY <2>1, LenProperties
  <2>3. opened \in 1 .. Len(Rolled(trees))
    BY <1>1, <2>1, <2>2
  <2> QED
    BY <1>3, <2>1, <2>3 DEF Left
<1> QED
  BY <1>2, <1>3

LEMMA EndEffect ==
    ASSUME TInv, NEW succeeds \in BOOLEAN, EndTransaction(succeeds)
    PROVE  LET ts == Left(succeeds)
               b  == TransferTo(ts[opened].balance, running.from, Coinbase, running.cost)
           IN  /\ trees' \in Seq(Tree) /\ Len(trees') = Len(ts)
               /\ ts[opened] \in Tree /\ b \in Balances
               /\ running.from \in Users /\ running.cost \in Nat
               /\ trees'[opened].balance = b /\ trees'[opened].nonce = ts[opened].nonce
               /\ \A j \in 1 .. Len(ts) : j # opened => trees'[j] = ts[j]
<1> DEFINE ts == Left(succeeds)
           b  == TransferTo(ts[opened].balance, running.from, Coinbase, running.cost)
           t == [ts[opened] EXCEPT !.balance = b]
<1>1. running # Nothing /\ running \in TransactionRun
  BY DEF EndTransaction, TInv, Runs
<1>2. running.from \in Users /\ running.cost \in Nat
  BY <1>1 DEF TransactionRun
<1>3. ts \in Seq(Tree) /\ opened \in 1 .. Len(ts)
  BY <1>1, LeftFacts
<1>4. trees' = [ts EXCEPT ![opened] = t]
  BY DEF EndTransaction, Settled, Paid, Left
<1> HIDE DEF ts
<1>5. ts[opened] \in Tree
  BY <1>3, ElementOfSeq
<1>6. ts[opened].balance \in Balances
  BY <1>5 DEF Tree
<1>7. b \in Balances
  BY <1>2, <1>6, AddressFacts, TransferFacts
<1> HIDE DEF b
<1>8. t \in Tree /\ t.balance = b /\ t.nonce = ts[opened].nonce
  BY <1>5, <1>7, BalanceFacts
<1> HIDE DEF t
<1>9. /\ trees' \in Seq(Tree) /\ Len(trees') = Len(ts) /\ trees'[opened] = t
      /\ \A j \in 1 .. Len(ts) : j # opened => trees'[j] = ts[j]
  BY <1>3, <1>4, <1>8, ReplaceFacts
<1> QED
  BY <1>2, <1>5, <1>7, <1>8, <1>9 DEF b, ts

-----------------------------------------------------------------------------
(* The types.                                                              *)

LEMMA InitValueTypes == ValueInit => TInv
<1> SUFFICES ASSUME ValueInit PROVE TInv
  OBVIOUS
<1> DEFINE b == [a \in Addresses |-> IF a \in Users THEN PreBalance ELSE 0]
           t == [balance |-> b, nonce |-> [u \in Users |-> -1]]
<1>1. b \in Balances
  BY ValueAssumption DEF Balances
<1>2. trees = <<t>> /\ before = trees[1].balance
  BY DEF ValueInit
<1> HIDE DEF b
<1>3. t \in Tree /\ t.balance = b
  BY <1>1 DEF Tree
<1> HIDE DEF t
<1>4. trees \in Seq(Tree) /\ Len(trees) = 1 /\ trees[1] = t
  BY <1>2, <1>3
<1>5. before \in Balances
  BY <1>1, <1>2, <1>3, <1>4
<1>6. ValueTypes
  BY <1>4, <1>5 DEF ValueInit, ValueTypes
<1>7. Runs
  BY <1>4 DEF ValueInit, Runs
<1> QED
  BY <1>6, <1>7 DEF TInv

LEMMA TypeStep == TInv /\ [ValueNext]_valueVars => TInv'
<1> SUFFICES ASSUME TInv, [ValueNext]_valueVars PROVE TInv'
  OBVIOUS
<1>t. /\ trees \in Seq(Tree) /\ root \in 1 .. Len(trees) /\ opened \in 1 .. Len(trees)
      /\ Len(trees) \in Nat
  BY LenProperties DEF TInv, ValueTypes
<1>1. ASSUME ExecuteMinerWageEvent PROVE TInv'
  <2>1. PICK wage \in Nat : /\ issued' = wage
                            /\ Written(root, Issue(trees[root].balance, Coinbase, wage))
                            /\ Issue(trees[root].balance, Coinbase, wage) \in Balances
    BY <1>1, WageEffect
  <2>2. trees' \in Seq(Tree) /\ Len(trees') = Len(trees)
    BY <1>t, <2>1, WrittenFacts DEF TInv
  <2>3. /\ phase = "wage" /\ phase' = "pre" /\ issued' \in Nat
        /\ UNCHANGED <<root, saved, running, opened, calls, receipts, before>>
    BY <1>1, <2>1 DEF ExecuteMinerWageEvent
  <2>4. ValueTypes'
    BY <2>2, <2>3 DEF TInv, ValueTypes
  <2>5. Runs'
    BY <2>3 DEF TInv, Runs
  <2> QED
    BY <2>4, <2>5 DEF TInv
<1>2. ASSUME ExecuteBlockEvent PROVE TInv'
  <2>1. trees[root] \in Tree /\ trees[root] # Nothing
    BY <1>t, TreeFacts, Kinds DEF TInv
  <2> QED
    BY <1>2, <2>1, Kinds DEF ExecuteBlockEvent, TInv, ValueTypes, Runs, EventRun
<1>3. ASSUME NEW succeeds \in BOOLEAN, EndEvent(succeeds) PROVE TInv'
  <2>1. running # Nothing
    BY <1>3 DEF EndEvent
  <2>2. /\ trees' = Left(succeeds)
        /\ root' = IF succeeds THEN root ELSE RootAfterRollback
    BY <1>3 DEF EndEvent, Left
  <2>3. trees' \in Seq(Tree) /\ root' \in 1 .. Len(trees') /\ opened \in 1 .. Len(trees')
    BY <2>1, <2>2, LeftFacts
  <2> QED
    BY <1>3, <2>3 DEF EndEvent, TInv, ValueTypes, Runs
<1>4. ASSUME NEW succeeds \in BOOLEAN, EndTransaction(succeeds) PROVE TInv'
  <2>1. running # Nothing
    BY <1>4 DEF EndTransaction
  <2>2. /\ trees' \in Seq(Tree) /\ Len(trees') = Len(Left(succeeds))
        /\ running.from \in Users /\ running.cost \in Nat
    BY <1>4, EndEffect
  <2>3. root' = IF succeeds THEN root ELSE RootAfterRollback
    BY <1>4 DEF EndTransaction
  <2>4. root' \in 1 .. Len(trees') /\ opened \in 1 .. Len(trees')
    BY <2>1, <2>2, <2>3, LeftFacts
  <2>5. [from |-> running.from, succeeds |-> succeeds, cost |-> running.cost] \in Receipt
    BY <2>2 DEF Receipt
  <2>6. receipts' \in Seq(Receipt)
    BY <1>4, <2>5 DEF EndTransaction, TInv, ValueTypes
  <2>7. phase' \in {"transactions", "unpaid"}
    BY <1>4 DEF EndTransaction
  <2> QED
    BY <1>4, <2>2, <2>4, <2>6, <2>7 DEF EndTransaction, TInv, ValueTypes, Runs
<1>5. ASSUME WrongNonce PROVE TInv'
  BY <1>5 DEF WrongNonce, TInv, ValueTypes, Runs
<1>6. ASSUME NEW tx \in Transactions, NotEnough(tx) PROVE TInv'
  <2>1. trees' \in Seq(Tree) /\ Len(trees') = Len(trees)
    BY <1>6, NotEnoughEffect, BecomesFacts DEF TInv
  <2>2. trees[root].balance \in Balances
    BY <1>t, TreeFacts DEF TInv
  <2>3. [from |-> tx.from, succeeds |-> FALSE, cost |-> 0] \in Receipt
    BY AmountFacts DEF Receipt
  <2>4. receipts' \in Seq(Receipt)
    BY <1>6, <2>3 DEF NotEnough, TInv, ValueTypes
  <2> QED
    BY <1>6, <2>1, <2>2, <2>4 DEF NotEnough, TInv, ValueTypes, Runs
<1>7. ASSUME NEW tx \in Transactions, ExecuteTransaction(tx) PROVE TInv'
  <2>1. trees' \in Seq(Tree) /\ Len(trees') = Len(trees) /\ saved' \in Tree
    BY <1>7, ExecuteEffect, BecomesFacts DEF TInv
  <2>2. trees[root].balance \in Balances
    BY <1>t, TreeFacts DEF TInv
  <2>3. [from |-> tx.from, fee |-> tx.fee, cost |-> 0] \in TransactionRun
    BY AmountFacts DEF TransactionRun
  <2>4. saved' # Nothing
    BY <2>1, Kinds
  <2> QED
    BY <1>7, <1>t, <2>1, <2>2, <2>3, <2>4, Kinds DEF ExecuteTransaction, TInv, ValueTypes, Runs
<1>8. ASSUME ListenerTransfers PROVE TInv'
  <2>1. trees' \in Seq(Tree) /\ Len(trees') = Len(trees)
    BY <1>8, ListenerEffect, WrittenFacts DEF TInv
  <2> QED
    BY <1>8, <2>1 DEF ListenerTransfers, Called, TInv, ValueTypes, Runs
<1>9. ASSUME ListenerCosts PROVE TInv'
  <2>1. PICK fee \in Amounts : running' = [running EXCEPT !.cost = Min({@ + fee, running.fee})]
    BY <1>9 DEF ListenerCosts
  <2>2. running \in TransactionRun
    BY <1>9 DEF ListenerCosts, Called, TInv, Runs
  <2>3. running' \in TransactionRun
    BY <2>1, <2>2, AmountFacts, CostFacts
  <2> QED
    BY <1>9, <2>3, Kinds DEF ListenerCosts, Called, TInv, ValueTypes, Runs
<1>10. ASSUME EndTransactions PROVE TInv'
  BY <1>10 DEF EndTransactions, TInv, ValueTypes, Runs
<1>11. ASSUME UNCHANGED valueVars PROVE TInv'
  BY <1>11 DEF valueVars, TInv, ValueTypes, Runs
<1> QED
  BY <1>1, <1>2, <1>3, <1>4, <1>5, <1>6, <1>7, <1>8, <1>9, <1>10, <1>11 DEF ValueNext

-----------------------------------------------------------------------------
(* The coins.                                                              *)

Supply == PreBalance * Cardinality(Users) + issued

\* Every tree, the saved one as well, holds all the coins there are.
Coins ==
    /\ \A i \in 1 .. Len(trees) : Total(trees[i].balance, Addresses) = Supply
    /\ saved # Nothing => Total(saved.balance, Addresses) = Supply

LEMMA SupplyFacts == ValueTypes => Supply \in Int
<1>1. Cardinality(Users) \in Nat
  BY ValueAssumption, FS_CardinalityType
<1> QED
  BY <1>1, ValueAssumption DEF ValueTypes, Supply

LEMMA InitCoins == ValueInit => Coins
<1> SUFFICES ASSUME ValueInit PROVE Coins
  OBVIOUS
<1> DEFINE b == [a \in Addresses |-> IF a \in Users THEN PreBalance ELSE 0]
<1>1. trees = <<[balance |-> b, nonce |-> [u \in Users |-> -1]]>> /\ saved = Nothing /\ issued = 0
  BY DEF ValueInit
<1>2. Len(trees) = 1 /\ trees[1].balance = b
  BY <1>1
<1>3. /\ \A a \in Addresses : b[a] \in Int
      /\ b[SysAddress] = 0
      /\ \A u \in Users : b[u] = PreBalance
  BY AddressFacts, ValueAssumption
<1>4. Addresses \ {SysAddress} = Users
  BY AddressFacts DEF Addresses
<1> HIDE DEF b
<1>5. Total(b, Addresses) = b[SysAddress] + Total(b, Users)
  BY <1>3, <1>4, AddressFacts, TotalRemove
<1>6. Total(b, Users) = PreBalance * Cardinality(Users)
  BY <1>3, ValueAssumption, TotalConstant
<1>7. Cardinality(Users) \in Nat /\ PreBalance \in Nat
  BY ValueAssumption, FS_CardinalityType
<1>8. PreBalance * Cardinality(Users) \in Int
  BY <1>7
<1>9. Total(b, Addresses) = Supply
  BY <1>1, <1>3, <1>5, <1>6, <1>8 DEF Supply
<1> QED
  BY <1>1, <1>2, <1>9 DEF Coins

\* A step that writes one balance keeps the coins if that balance has them all.
LEMMA WrittenCoins ==
    ASSUME TInv, Coins, NEW i \in 1 .. Len(trees), NEW b \in Balances, Written(i, b),
           Total(b, Addresses) = Supply, UNCHANGED <<saved, issued>>
    PROVE  Coins'
<1>1. /\ Len(trees') = Len(trees) /\ trees'[i].balance = b
      /\ \A j \in 1 .. Len(trees) : j # i => trees'[j] = trees[j]
  BY WrittenFacts DEF TInv
<1>2. Supply' = Supply
  BY DEF Supply
<1> QED
  BY <1>1, <1>2 DEF Coins

LEMMA CoinsStep == TInv /\ Coins /\ [ValueNext]_valueVars => Coins'
<1> SUFFICES ASSUME TInv, Coins, [ValueNext]_valueVars PROVE Coins'
  OBVIOUS
<1>t. /\ root \in 1 .. Len(trees) /\ opened \in 1 .. Len(trees) /\ Len(trees) \in Nat
      /\ trees[root].balance \in Balances
      /\ Total(trees[root].balance, Addresses) = Supply
  BY LenProperties, TreeFacts DEF TInv, ValueTypes, Coins
<1>u. UNCHANGED issued => Supply' = Supply
  BY DEF Supply
<1>1. ASSUME ExecuteMinerWageEvent PROVE Coins'
  <2>1. PICK wage \in Nat : /\ issued' = wage
                            /\ Written(root, Issue(trees[root].balance, Coinbase, wage))
                            /\ Issue(trees[root].balance, Coinbase, wage) \in Balances
    BY <1>1, WageEffect
  <2> DEFINE b == Issue(trees[root].balance, Coinbase, wage)
  <2>2. b \in Balances /\ Total(b, Addresses) = Supply + wage
    BY <1>t, <2>1, AddressFacts, IssueFacts
  <2>3. phase = "wage" /\ saved' = saved
    BY <1>1 DEF ExecuteMinerWageEvent
  <2>4. Len(trees) = 1 /\ issued = 0 /\ running = Nothing /\ saved = Nothing
    BY <2>3 DEF TInv, Runs
  <2> HIDE DEF b
  <2>5. Len(trees') = Len(trees) /\ trees'[root].balance = b
    BY <1>t, <2>1, <2>2, WrittenFacts DEF TInv, b
  <2>6. PreBalance * Cardinality(Users) \in Int
    BY <2>4, SupplyFacts, ValueAssumption, FS_CardinalityType DEF TInv
  <2>7. Supply' = Supply + wage
    BY <2>1, <2>4, <2>6 DEF Supply
  <2> QED
    BY <1>t, <2>2, <2>3, <2>4, <2>5, <2>7 DEF Coins
<1>2. ASSUME ExecuteBlockEvent PROVE Coins'
  <2>1. UNCHANGED <<trees, issued>> /\ saved' = trees[root]
    BY <1>2 DEF ExecuteBlockEvent
  <2> QED
    BY <1>t, <1>u, <2>1 DEF Coins
<1>3. ASSUME NEW succeeds \in BOOLEAN, EndEvent(succeeds) PROVE Coins'
  <2>1. running # Nothing /\ trees' = Left(succeeds) /\ saved' = Nothing /\ issued' = issued
    BY <1>3 DEF EndEvent, Left
  <2>2. \A j \in 1 .. Len(Left(succeeds)) :
            Left(succeeds)[j] = saved \/ (j \in 1 .. Len(trees) /\ Left(succeeds)[j] = trees[j])
    BY <2>1, LeftFacts
  <2>3. saved # Nothing
    BY <2>1 DEF TInv, Runs
  <2> QED
    BY <1>u, <2>1, <2>2, <2>3 DEF Coins
<1>4. ASSUME NEW succeeds \in BOOLEAN, EndTransaction(succeeds) PROVE Coins'
  <2> DEFINE ts == Left(succeeds)
             b  == TransferTo(ts[opened].balance, running.from, Coinbase, running.cost)
  <2>1. running # Nothing /\ saved' = Nothing /\ issued' = issued
    BY <1>4 DEF EndTransaction
  <2>2. /\ Len(trees') = Len(ts) /\ ts[opened] \in Tree /\ b \in Balances
        /\ running.from \in Users /\ running.cost \in Nat
        /\ trees'[opened].balance = b
        /\ \A j \in 1 .. Len(ts) : j # opened => trees'[j] = ts[j]
    BY <1>4, EndEffect
  <2>3. /\ opened \in 1 .. Len(ts)
        /\ \A j \in 1 .. Len(ts) : ts[j] = saved \/ (j \in 1 .. Len(trees) /\ ts[j] = trees[j])
    BY <2>1, LeftFacts
  <2>4. saved # Nothing
    BY <2>1 DEF TInv, Runs
  <2> HIDE DEF ts
  <2>5. \A j \in 1 .. Len(ts) : Total(ts[j].balance, Addresses) = Supply
    BY <2>3, <2>4 DEF Coins
  <2>6. ts[opened].balance \in Balances
    BY <2>2 DEF Tree
  <2>7. Total(b, Addresses) = Supply
    BY <2>2, <2>3, <2>5, <2>6, AddressFacts, TransferFacts
  <2> QED
    BY <1>u, <2>1, <2>2, <2>5, <2>7 DEF Coins
<1>5. ASSUME UNCHANGED <<trees, saved, issued>> PROVE Coins'
  BY <1>u, <1>5 DEF Coins
<1>6. ASSUME NEW tx \in Transactions, NotEnough(tx) PROVE Coins'
  <2>1. PICK t \in Tree : Becomes(t) /\ t.balance = trees[root].balance
    BY <1>6, NotEnoughEffect
  <2>2. /\ Len(trees') = Len(trees) /\ trees'[root] = t
        /\ \A j \in 1 .. Len(trees) : j # root => trees'[j] = trees[j]
    BY <2>1, BecomesFacts DEF TInv
  <2>3. UNCHANGED <<saved, issued>>
    BY <1>6 DEF NotEnough
  <2> QED
    BY <1>t, <1>u, <2>1, <2>2, <2>3 DEF Coins
<1>7. ASSUME NEW tx \in Transactions, ExecuteTransaction(tx) PROVE Coins'
  <2>1. PICK t \in Tree :
            /\ Becomes(t)
            /\ t.balance = TransferTo(trees[root].balance, tx.from, SysAddress, tx.value)
            /\ saved' = DealNonce(trees[root], tx.from)
    BY <1>7, ExecuteEffect
  <2>2. /\ Len(trees') = Len(trees) /\ trees'[root] = t
        /\ \A j \in 1 .. Len(trees) : j # root => trees'[j] = trees[j]
    BY <2>1, BecomesFacts DEF TInv
  <2>3. tx.from \in Addresses /\ tx.from \in Users /\ tx.value \in Nat /\ SysAddress \in Addresses
    BY AmountFacts, AddressFacts
  <2>4. Total(t.balance, Addresses) = Supply
    BY <1>t, <2>1, <2>3, TransferFacts
  <2>5. saved'.balance = trees[root].balance
    BY <1>t, <2>1, <2>3, TreeFacts, NonceFacts DEF TInv
  <2>6. issued' = issued
    BY <1>7 DEF ExecuteTransaction
  <2> QED
    BY <1>t, <1>u, <2>2, <2>4, <2>5, <2>6 DEF Coins
<1>8. ASSUME ListenerTransfers PROVE Coins'
  <2>1. PICK to \in Users, amount \in Nat :
            /\ Written(1, TransferTo(trees[1].balance, SysAddress, to, amount))
            /\ TransferTo(trees[1].balance, SysAddress, to, amount) \in Balances
            /\ 1 \in 1 .. Len(trees)
    BY <1>8, ListenerEffect
  <2>2. trees[1].balance \in Balances /\ Total(trees[1].balance, Addresses) = Supply
    BY <2>1, TreeFacts DEF TInv, Coins
  <2>3. Total(TransferTo(trees[1].balance, SysAddress, to, amount), Addresses) = Supply
    BY <2>2, AddressFacts, TransferFacts
  <2>4. UNCHANGED <<saved, issued>>
    BY <1>8 DEF ListenerTransfers
  <2> QED
    BY <2>1, <2>3, <2>4, WrittenCoins
<1> QED
  BY <1>1, <1>2, <1>3, <1>4, <1>5, <1>6, <1>7, <1>8
     DEF ValueNext, valueVars, WrongNonce, ListenerCosts, EndTransactions

\* Nobody's coins come from nothing, whichever storage the block is executed on.
THEOREM CoinsAreKept == ValueSpec => []CoinsKept
<1>1. ValueInit => TInv /\ Coins
  BY InitValueTypes, InitCoins
<1>2. TInv /\ Coins /\ [ValueNext]_valueVars => (TInv /\ Coins)'
  BY TypeStep, CoinsStep
<1>3. TInv /\ Coins => CoinsKept
  <2> SUFFICES ASSUME TInv, Coins PROVE CoinsKept
    OBVIOUS
  <2>1. root \in 1 .. Len(trees) /\ trees[root].balance \in Balances
    BY TreeFacts DEF TInv, ValueTypes
  <2>2. Total(trees[root].balance, Addresses) = Supply
    BY <2>1 DEF Coins
  <2>3. MapThenSumSet(LAMBDA a : trees[root].balance[a], Addresses) = Total(trees[root].balance, Addresses)
    BY DEF Total, MapThenSumSet, MapThenFoldSet
  <2>4. \A a \in Addresses : trees[root].balance[a] >= 0
    BY <2>1 DEF Balances
  <2> QED
    BY <2>2, <2>3, <2>4 DEF CoinsKept, Supply
<1> QED
  BY <1>1, <1>2, <1>3, PTL DEF ValueSpec

-----------------------------------------------------------------------------
(* The receipts, where a rollback restores the tree in place.              *)

Sent(u) == {i \in DOMAIN receipts : receipts[i].from = u}

\* The nonces a sender has used: one for each receipt, and one for what runs.
Used(u) == Cardinality(Sent(u)) + (IF running # Nothing /\ phase = "transactions" /\ running.from = u THEN 1 ELSE 0)

\* What the running transaction may cost is there, before and after the rollback.
Payable ==
    phase = "transactions" /\ running # Nothing =>
        /\ saved.balance = before
        /\ before[running.from] >= running.fee
        /\ trees[1].balance[running.from] >= running.fee
        /\ running.cost <= running.fee

Counted ==
    phase \notin {"failed", "unpaid"} =>
        \A u \in Users : /\ trees[1].nonce[u] + 1 = Used(u)
                         /\ saved # Nothing => saved.nonce[u] + 1 = Used(u)

LastPaid ==
    phase = "transactions" /\ running = Nothing /\ receipts # <<>> =>
        LET last == receipts[Len(receipts)]
        IN  last.succeeds \/ trees[1].balance = TransferTo(before, last.from, Coinbase, last.cost)

Agreed ==
    /\ Len(trees) = 1
    /\ phase # "unpaid"
    /\ phase \in {"wage", "pre"} => receipts = <<>>
    /\ Payable /\ Counted /\ LastPaid

LEMMA SentFacts ==
    ASSUME ValueTypes, NEW u \in Users
    PROVE  /\ IsFiniteSet(Sent(u)) /\ Cardinality(Sent(u)) \in Nat
           /\ Sent(u) \subseteq 1 .. Len(receipts)
<1>1. Len(receipts) \in Nat /\ DOMAIN receipts = 1 .. Len(receipts)
  BY LenProperties DEF ValueTypes
<1>2. IsFiniteSet(1 .. Len(receipts))
  BY <1>1, FS_Interval
<1>3. Sent(u) \subseteq 1 .. Len(receipts)
  BY <1>1 DEF Sent
<1> QED
  BY <1>2, <1>3, FS_Subset, FS_CardinalityType

\* One more receipt counts for its sender alone.
LEMMA SentMore ==
    ASSUME ValueTypes, NEW u \in Users, NEW r \in Receipt, receipts' = Append(receipts, r)
    PROVE  Cardinality(Sent(u))' = Cardinality(Sent(u)) + (IF r.from = u THEN 1 ELSE 0)
<1>1. receipts \in Seq(Receipt) /\ Len(receipts) \in Nat
  BY LenProperties DEF ValueTypes
<1> DEFINE n == Len(receipts) + 1
<1>2. /\ DOMAIN receipts = 1 .. Len(receipts) /\ DOMAIN receipts' = 1 .. n
      /\ \A i \in 1 .. Len(receipts) : receipts'[i] = receipts[i]
      /\ receipts'[n] = r
  BY <1>1, AppendProperties, LenProperties
<1>3. n \in Nat /\ 1 .. n = (1 .. Len(receipts)) \cup {n} /\ n \notin 1 .. Len(receipts)
  BY <1>1
<1>4. IsFiniteSet(Sent(u)) /\ Cardinality(Sent(u)) \in Nat /\ n \notin Sent(u)
  BY <1>3, SentFacts
<1> HIDE DEF n
<1>5. CASE r.from = u
  <2>1. Sent(u)' = Sent(u) \cup {n}
    BY <1>2, <1>3, <1>5 DEF Sent
  <2>2. Cardinality(Sent(u) \cup {n}) = Cardinality(Sent(u)) + 1
    BY <1>4, FS_AddElement
  <2> QED
    BY <1>5, <2>1, <2>2
<1>6. CASE r.from # u
  <2>1. Sent(u)' = Sent(u)
    BY <1>2, <1>3, <1>6 DEF Sent
  <2> QED
    BY <1>4, <1>6, <2>1
<1> QED
  BY <1>5, <1>6

LEMMA InitAgreed == ValueInit => Agreed
<1> SUFFICES ASSUME ValueInit PROVE Agreed
  OBVIOUS
<1>1. /\ phase = "wage" /\ receipts = <<>> /\ running = Nothing /\ saved = Nothing
      /\ Len(trees) = 1 /\ trees[1].nonce = [u \in Users |-> -1]
  BY DEF ValueInit
<1>2. \A u \in Users : Sent(u) = {}
  BY <1>1 DEF Sent
<1>3. \A u \in Users : Used(u) = 0
  <2> SUFFICES ASSUME NEW u \in Users PROVE Used(u) = 0
    OBVIOUS
  <2>1. Cardinality(Sent(u)) = 0
    BY <1>2, FS_EmptySet, Zenon
  <2>2. Used(u) = Cardinality(Sent(u)) + 0
    BY <1>1 DEF Used
  <2> QED
    BY <2>1, <2>2
<1>4. Counted
  BY <1>1, <1>3 DEF Counted
<1> QED
  BY <1>1, <1>4 DEF Agreed, Payable, LastPaid

\* One tree is all there is.
LEMMA OneTree ==
    ASSUME TInv, Agreed
    PROVE  /\ root = 1 /\ opened = 1 /\ Len(trees) = 1 /\ 1 \in 1 .. Len(trees)
           /\ trees[1] \in Tree /\ trees[1].balance \in Balances /\ trees[1].nonce \in [Users -> Int]
<1>1. root \in 1 .. Len(trees) /\ opened \in 1 .. Len(trees) /\ Len(trees) = 1
  BY DEF TInv, ValueTypes, Agreed
<1>2. root = 1 /\ opened = 1 /\ 1 \in 1 .. Len(trees)
  BY <1>1
<1> QED
  BY <1>1, <1>2, TreeFacts DEF TInv

\* A step that writes balances only, and what it leaves alone.
LEMMA NoncesKept ==
    ASSUME TInv, Counted, phase \notin {"failed", "unpaid"}, trees'[1].nonce = trees[1].nonce,
           UNCHANGED <<receipts, saved>>,
           phase' \in {"transactions"} <=> phase \in {"transactions"},
           running' = running
           \/ (running # Nothing /\ running' # Nothing /\ running'.from = running.from)
    PROVE  Counted'
<1>1. \A u \in Users : Sent(u)' = Sent(u)
  BY DEF Sent
<1>2. \A u \in Users : Used(u)' = Used(u)
  BY <1>1 DEF Used
<1> QED
  BY <1>2 DEF Counted

\* A transaction that ends can pay its cost, and one that fails moves nothing else.
LEMMA EndedWell ==
    ASSUME TInv, Agreed, ~RollbackReplacesTree, NEW succeeds \in BOOLEAN, EndTransaction(succeeds)
    PROVE  /\ Len(trees') = 1 /\ phase' = "transactions"
           /\ running # Nothing /\ saved # Nothing
           /\ trees'[1].nonce = (IF succeeds THEN trees[1].nonce ELSE saved.nonce)
           /\ succeeds \/ trees'[1].balance = TransferTo(before, running.from, Coinbase, running.cost)
<1> DEFINE ts == Left(succeeds)
           b  == TransferTo(ts[opened].balance, running.from, Coinbase, running.cost)
<1>1. running # Nothing /\ saved # Nothing /\ phase = "transactions"
  BY DEF EndTransaction, TInv, Runs
<1>2. /\ root = 1 /\ opened = 1 /\ Len(trees) = 1 /\ trees \in Seq(Tree) /\ saved \in Tree
      /\ 1 \in 1 .. Len(trees) /\ ValueTypes
  BY <1>1, OneTree DEF TInv, ValueTypes
<1>3. Len(ts) = 1 /\ ts[1] = IF succeeds THEN trees[1] ELSE saved
  <2>1. CASE succeeds
    BY <1>2, <2>1 DEF Left
  <2>2. CASE ~succeeds
    <3>1. ts = [trees EXCEPT ![1] = saved]
      BY <1>2, <2>2 DEF Left, Rolled
    <3>2. Len([trees EXCEPT ![1] = saved]) = 1 /\ [trees EXCEPT ![1] = saved][1] = saved
      BY <1>2, ReplaceFacts
    <3> QED
      BY <2>2, <3>1, <3>2
  <2> QED
    BY <2>1, <2>2
<1>4. /\ Len(trees') = Len(ts) /\ trees'[opened].balance = b /\ trees'[opened].nonce = ts[opened].nonce
      /\ running.from \in Users /\ running.cost \in Nat
  BY EndEffect
<1>5. /\ saved.balance = before /\ before[running.from] >= running.fee
      /\ trees[1].balance[running.from] >= running.fee /\ running.cost <= running.fee
  BY <1>1 DEF Agreed, Payable
<1>6. running.fee \in Nat /\ before[running.from] \in Nat /\ trees[1].balance[running.from] \in Nat
  <2>1. running \in TransactionRun
    BY <1>1 DEF TInv, Runs
  <2>2. before \in Balances /\ trees[1].balance \in Balances
    BY OneTree DEF TInv, ValueTypes
  <2>3. running.from \in Addresses
    BY <1>4, AddressFacts
  <2> QED
    BY <2>1, <2>2, <2>3 DEF TransactionRun, Balances
<1>7. CanPay(succeeds)
  <2>1. CanPay(succeeds) <=> (ts[opened].balance[running.from] >= running.cost)
    BY DEF CanPay, Left
  <2> HIDE DEF ts
  <2>2. ts[opened].balance[running.from] >= running.fee
    BY <1>2, <1>3, <1>5
  <2>3. ts[opened].balance[running.from] \in Nat
    BY <1>2, <1>3, <1>5, <1>6
  <2>4. ts[opened].balance[running.from] >= running.cost
    BY <1>4, <1>5, <1>6, <2>2, <2>3
  <2> QED
    BY <2>1, <2>4
<1>8. phase' = "transactions"
  BY <1>1, <1>7 DEF EndTransaction
<1> HIDE DEF ts
<1>9. succeeds \/ b = TransferTo(before, running.from, Coinbase, running.cost)
  BY <1>2, <1>3, <1>5
<1> HIDE DEF b
<1> QED
  BY <1>1, <1>2, <1>3, <1>4, <1>8, <1>9

LEMMA AgreedStep ==
    ASSUME ~RollbackReplacesTree, TInv, Agreed, [ValueNext]_valueVars
    PROVE  Agreed'
<1>t. /\ root = 1 /\ opened = 1 /\ Len(trees) = 1 /\ 1 \in 1 .. Len(trees)
      /\ trees[1] \in Tree /\ trees[1].balance \in Balances /\ trees[1].nonce \in [Users -> Int]
  BY OneTree
<1>1. ASSUME ExecuteMinerWageEvent PROVE Agreed'
  <2>1. PICK wage \in Nat : /\ Written(root, Issue(trees[root].balance, Coinbase, wage))
                            /\ Issue(trees[root].balance, Coinbase, wage) \in Balances
    BY <1>1, WageEffect
  <2>2. Len(trees') = 1 /\ trees'[1].nonce = trees[1].nonce
    BY <1>t, <2>1, WrittenFacts DEF TInv
  <2>3. phase = "wage" /\ phase' = "pre" /\ UNCHANGED <<running, receipts, saved>>
    BY <1>1 DEF ExecuteMinerWageEvent
  <2>4. Counted'
    BY <2>2, <2>3, NoncesKept DEF Agreed
  <2> QED
    BY <2>2, <2>3, <2>4 DEF Agreed, Payable, LastPaid
<1>2. ASSUME ExecuteBlockEvent PROVE Agreed'
  <2>1. /\ phase \in {"pre", "post"} /\ saved' = trees[1]
        /\ UNCHANGED <<phase, trees, receipts>>
    BY <1>2, <1>t DEF ExecuteBlockEvent
  <2>2. \A u \in Users : Sent(u)' = Sent(u)
    BY <2>1 DEF Sent
  <2>3. \A u \in Users : Used(u)' = Used(u)
    BY <2>1, <2>2 DEF Used
  <2>4. Counted'
    BY <2>1, <2>3 DEF Agreed, Counted
  <2> QED
    BY <2>1, <2>4 DEF Agreed, Payable, LastPaid
<1>3. ASSUME EndEvent(TRUE) PROVE Agreed'
  <2>1. /\ phase \in {"pre", "post"} /\ phase' = (IF phase = "pre" THEN "transactions" ELSE "done")
        /\ running' = Nothing /\ saved' = Nothing /\ UNCHANGED <<trees, receipts>>
    BY <1>3 DEF EndEvent
  <2>2. \A u \in Users : Sent(u)' = Sent(u)
    BY <2>1 DEF Sent
  <2>3. \A u \in Users : Used(u)' = Used(u)
    BY <2>1, <2>2 DEF Used
  <2>4. Counted'
    BY <2>1, <2>3 DEF Agreed, Counted
  <2>5. LastPaid' /\ Payable'
    BY <2>1 DEF Agreed, LastPaid, Payable
  <2> QED
    BY <2>1, <2>4, <2>5 DEF Agreed
<1>4. ASSUME EndEvent(FALSE) PROVE Agreed'
  <2>1. /\ phase' = "failed" /\ trees' = [trees EXCEPT ![1] = saved] /\ running # Nothing
    BY <1>4, <1>t DEF EndEvent, Rolled
  <2>2. saved \in Tree /\ trees \in Seq(Tree)
    BY <2>1 DEF TInv, ValueTypes, Runs
  <2>3. Len(trees') = 1
    BY <1>t, <2>1, <2>2, ReplaceFacts
  <2> QED
    BY <2>1, <2>3 DEF Agreed, Payable, Counted, LastPaid
<1>5. ASSUME NEW succeeds \in BOOLEAN, EndTransaction(succeeds) PROVE Agreed'
  <2> DEFINE r == [from |-> running.from, succeeds |-> succeeds, cost |-> running.cost]
  <2>1. /\ Len(trees') = 1 /\ phase' = "transactions" /\ running # Nothing /\ saved # Nothing
        /\ trees'[1].nonce = (IF succeeds THEN trees[1].nonce ELSE saved.nonce)
        /\ succeeds \/ trees'[1].balance = TransferTo(before, running.from, Coinbase, running.cost)
    BY <1>5, EndedWell
  <2>2. /\ phase = "transactions" /\ running' = Nothing /\ saved' = Nothing /\ before' = before
        /\ receipts' = Append(receipts, r)
    BY <1>5 DEF EndTransaction
  <2>3. r \in Receipt /\ running.from \in Users
    BY <1>5, EndEffect DEF Receipt
  <2>4. r.from = running.from /\ r.succeeds = succeeds /\ r.cost = running.cost
    OBVIOUS
  <2> HIDE DEF r
  <2>5. /\ receipts' # <<>> /\ receipts'[Len(receipts')] = r
    BY <2>2, <2>3, AppendProperties, LenProperties DEF TInv, ValueTypes
  <2>6. LastPaid'
    BY <2>1, <2>2, <2>4, <2>5 DEF LastPaid
  <2>7. \A u \in Users : Used(u)' = Used(u)
    <3> SUFFICES ASSUME NEW u \in Users PROVE Used(u)' = Used(u)
      OBVIOUS
    <3>1. Cardinality(Sent(u))' = Cardinality(Sent(u)) + (IF r.from = u THEN 1 ELSE 0)
      BY <2>2, <2>3, SentMore DEF TInv
    <3>2. Cardinality(Sent(u)) \in Nat
      BY SentFacts DEF TInv
    <3>3. Used(u)' = Cardinality(Sent(u))' + 0
      BY <2>2 DEF Used
    <3>4. Used(u) = Cardinality(Sent(u)) + (IF running.from = u THEN 1 ELSE 0)
      BY <2>1, <2>2 DEF Used
    <3> QED
      BY <2>4, <3>1, <3>2, <3>3, <3>4
  <2>8. Counted'
    BY <2>1, <2>2, <2>7 DEF Agreed, Counted
  <2> QED
    BY <2>1, <2>2, <2>6, <2>8 DEF Agreed, Payable
<1>6. ASSUME WrongNonce PROVE Agreed'
  BY <1>6 DEF WrongNonce, Agreed, Payable, Counted, LastPaid
<1>7. ASSUME NEW tx \in Transactions, NotEnough(tx) PROVE Agreed'
  <2> DEFINE r == [from |-> tx.from, succeeds |-> FALSE, cost |-> 0]
  <2>1. PICK t \in Tree : /\ Becomes(t)
                          /\ t.balance = trees[root].balance
                          /\ t.nonce = [trees[root].nonce EXCEPT ![tx.from] = @ + 1]
    BY <1>7, NotEnoughEffect
  <2>2. Len(trees') = 1 /\ trees'[1] = t
    BY <1>t, <2>1, BecomesFacts DEF TInv
  <2>3. /\ phase = "transactions" /\ running = Nothing /\ before' = trees[1].balance
        /\ UNCHANGED <<phase, running, saved>> /\ receipts' = Append(receipts, r)
    BY <1>7, <1>t DEF NotEnough
  <2>4. r \in Receipt /\ tx.from \in Users /\ tx.from \in Addresses
    BY AmountFacts, AddressFacts DEF Receipt
  <2>5. r.from = tx.from /\ r.succeeds = FALSE /\ r.cost = 0
    OBVIOUS
  <2> HIDE DEF r
  <2>6. receipts' # <<>> /\ receipts'[Len(receipts')] = r
    BY <2>3, <2>4, AppendProperties, LenProperties DEF TInv, ValueTypes
  <2>7. TransferTo(trees[1].balance, tx.from, Coinbase, 0) = trees[1].balance
    BY <1>t, <2>4, AddressFacts, TransferFacts
  <2>8. LastPaid'
    BY <1>t, <2>1, <2>2, <2>3, <2>5, <2>6, <2>7 DEF LastPaid
  <2>9. \A u \in Users : trees'[1].nonce[u] + 1 = Used(u)'
    <3> SUFFICES ASSUME NEW u \in Users PROVE trees'[1].nonce[u] + 1 = Used(u)'
      OBVIOUS
    <3>1. Cardinality(Sent(u))' = Cardinality(Sent(u)) + (IF r.from = u THEN 1 ELSE 0)
      BY <2>3, <2>4, SentMore DEF TInv
    <3>2. Cardinality(Sent(u)) \in Nat
      BY SentFacts DEF TInv
    <3>3. Used(u)' = Cardinality(Sent(u))' + 0 /\ Used(u) = Cardinality(Sent(u)) + 0
      BY <2>3 DEF Used
    <3>4. trees[1].nonce[u] + 1 = Used(u)
      BY <2>3 DEF Agreed, Counted
    <3>5. trees'[1].nonce[u] = trees[1].nonce[u] + (IF tx.from = u THEN 1 ELSE 0)
      BY <1>t, <2>1, <2>2, <2>4
    <3>6. trees[1].nonce[u] \in Int
      BY <1>t
    <3> QED
      BY <2>5, <3>1, <3>2, <3>3, <3>4, <3>5, <3>6
  <2>10. Counted'
    BY <2>3, <2>9 DEF TInv, Runs, Counted
  <2> QED
    BY <2>2, <2>3, <2>8, <2>10 DEF Agreed, Payable
<1>8. ASSUME NEW tx \in Transactions, ExecuteTransaction(tx) PROVE Agreed'
  <2>1. PICK t \in Tree :
            /\ Becomes(t)
            /\ t.balance = TransferTo(trees[root].balance, tx.from, SysAddress, tx.value)
            /\ t.nonce = [trees[root].nonce EXCEPT ![tx.from] = @ + 1]
            /\ saved' = DealNonce(trees[root], tx.from)
    BY <1>8, ExecuteEffect
  <2>2. Len(trees') = 1 /\ trees'[1] = t
    BY <1>t, <2>1, BecomesFacts DEF TInv
  <2>3. /\ phase = "transactions" /\ running = Nothing /\ before' = trees[1].balance
        /\ UNCHANGED <<phase, receipts>>
        /\ running' = [from |-> tx.from, fee |-> tx.fee, cost |-> 0]
        /\ trees[1].balance[tx.from] >= tx.value + tx.fee
    BY <1>8, <1>t, AmountFacts DEF ExecuteTransaction
  <2>4. /\ tx.from \in Users /\ tx.from \in Addresses /\ tx.from # SysAddress
        /\ tx.value \in Nat /\ tx.fee \in Nat
    BY AmountFacts, AddressFacts
  <2>5. /\ saved'.balance = trees[1].balance
        /\ saved'.nonce = [trees[1].nonce EXCEPT ![tx.from] = @ + 1]
    BY <1>t, <2>1, <2>4, NonceFacts
  <2>6. running' # Nothing /\ running'.from = tx.from /\ running'.fee = tx.fee /\ running'.cost = 0
    <3>1. running' \in TransactionRun
      BY <2>3, <2>4 DEF TransactionRun
    <3> QED
      BY <2>3, <3>1, Kinds
  <2>7. trees[1].balance[tx.from] \in Nat /\ trees[1].balance[tx.from] >= tx.fee
    BY <1>t, <2>3, <2>4 DEF Balances
  <2>8. trees'[1].balance[tx.from] >= tx.fee
    BY <1>t, <2>1, <2>2, <2>3, <2>4, <2>7, AddressFacts DEF TransferTo, Balances
  <2>9. Payable'
    BY <2>3, <2>4, <2>5, <2>6, <2>7, <2>8 DEF Payable
  <2>10. \A u \in Users : trees'[1].nonce[u] + 1 = Used(u)' /\ saved'.nonce[u] + 1 = Used(u)'
    <3> SUFFICES ASSUME NEW u \in Users
                 PROVE  trees'[1].nonce[u] + 1 = Used(u)' /\ saved'.nonce[u] + 1 = Used(u)'
      OBVIOUS
    <3>1. Sent(u)' = Sent(u)
      BY <2>3 DEF Sent
    <3>2. Cardinality(Sent(u)) \in Nat
      BY SentFacts DEF TInv
    <3>3. Used(u) = Cardinality(Sent(u)) + 0
      BY <2>3 DEF Used
    <3>4. Used(u)' = Cardinality(Sent(u)) + (IF tx.from = u THEN 1 ELSE 0)
      BY <2>3, <2>6, <3>1 DEF Used
    <3>5. trees[1].nonce[u] + 1 = Used(u)
      BY <2>3 DEF Agreed, Counted
    <3>6. /\ trees'[1].nonce[u] = trees[1].nonce[u] + (IF tx.from = u THEN 1 ELSE 0)
          /\ saved'.nonce[u] = trees[1].nonce[u] + (IF tx.from = u THEN 1 ELSE 0)
      BY <1>t, <2>1, <2>2, <2>4, <2>5
    <3>7. trees[1].nonce[u] \in Int
      BY <1>t
    <3> QED
      BY <3>2, <3>3, <3>4, <3>5, <3>6, <3>7
  <2>11. Counted'
    BY <2>10 DEF Counted
  <2> QED
    BY <2>2, <2>3, <2>6, <2>9, <2>11 DEF Agreed, LastPaid
<1>9. ASSUME ListenerTransfers PROVE Agreed'
  <2>1. PICK to \in Users, amount \in Nat :
            /\ Written(1, TransferTo(trees[1].balance, SysAddress, to, amount))
            /\ TransferTo(trees[1].balance, SysAddress, to, amount) \in Balances
    BY <1>9, ListenerEffect
  <2> DEFINE b == TransferTo(trees[1].balance, SysAddress, to, amount)
  <2>2. \A a \in Addresses \ {SysAddress} : b[a] >= trees[1].balance[a]
    BY <1>t, AddressFacts, TransferFacts
  <2>3. b \in Balances /\ Written(1, b)
    BY <2>1
  <2> HIDE DEF b
  <2>4. Len(trees') = 1 /\ trees'[1].balance = b /\ trees'[1].nonce = trees[1].nonce
    BY <1>t, <2>3, WrittenFacts DEF TInv
  <2>5. UNCHANGED <<phase, root, saved, running, receipts, before>> /\ running # Nothing
    BY <1>9 DEF ListenerTransfers, Called
  <2>6. phase \notin {"failed", "unpaid"}
    BY <2>5 DEF TInv, Runs
  <2>7. Counted'
    BY <2>4, <2>5, <2>6, NoncesKept DEF Agreed
  <2>8. Payable'
    <3> SUFFICES ASSUME phase = "transactions"
                 PROVE  Payable'
      BY <2>5 DEF Payable
    <3>1. running.from \in Addresses \ {SysAddress} /\ running.fee \in Nat
      BY <2>5, AddressFacts DEF TInv, Runs, TransactionRun
    <3>2. /\ saved.balance = before /\ before[running.from] >= running.fee
          /\ trees[1].balance[running.from] >= running.fee /\ running.cost <= running.fee
      BY <2>5 DEF Agreed, Payable
    <3>3. b[running.from] >= trees[1].balance[running.from]
      BY <2>2, <3>1
    <3>4. b[running.from] \in Nat /\ trees[1].balance[running.from] \in Nat
      BY <1>t, <2>3, <3>1 DEF Balances
    <3>5. b[running.from] >= running.fee
      BY <3>1, <3>2, <3>3, <3>4
    <3> QED
      BY <2>4, <2>5, <3>2, <3>5 DEF Payable
  <2> QED
    BY <2>4, <2>5, <2>6, <2>7, <2>8 DEF Agreed, LastPaid
<1>10. ASSUME ListenerCosts PROVE Agreed'
  <2>1. PICK fee \in Amounts : running' = [running EXCEPT !.cost = Min({@ + fee, running.fee})]
    BY <1>10 DEF ListenerCosts
  <2>2. running \in TransactionRun /\ running # Nothing /\ phase = "transactions"
    BY <1>10 DEF ListenerCosts, Called, TInv, Runs
  <2>3. /\ running' \in TransactionRun /\ running'.from = running.from
        /\ running'.fee = running.fee /\ running'.cost <= running'.fee
    BY <2>1, <2>2, AmountFacts, CostFacts
  <2>4. running' # Nothing
    BY <2>3, Kinds
  <2>5. UNCHANGED <<phase, trees, root, saved, receipts, before>>
    BY <1>10 DEF ListenerCosts
  <2>6. Counted'
    BY <2>2, <2>3, <2>4, <2>5, NoncesKept DEF Agreed
  <2>7. Payable'
    BY <2>2, <2>3, <2>4, <2>5 DEF Agreed, Payable
  <2> QED
    BY <2>2, <2>4, <2>5, <2>6, <2>7 DEF Agreed, LastPaid
<1>11. ASSUME EndTransactions PROVE Agreed'
  <2>1. /\ phase = "transactions" /\ phase' = "post" /\ running = Nothing
        /\ UNCHANGED <<trees, saved, running, receipts>>
    BY <1>11 DEF EndTransactions
  <2>2. \A u \in Users : Sent(u)' = Sent(u)
    BY <2>1 DEF Sent
  <2>3. \A u \in Users : Used(u)' = Used(u)
    BY <2>1, <2>2 DEF Used
  <2>4. Counted'
    BY <2>1, <2>3 DEF Agreed, Counted
  <2> QED
    BY <2>1, <2>4 DEF Agreed, Payable, LastPaid
<1>12. ASSUME UNCHANGED valueVars PROVE Agreed'
  <2>1. \A u \in Users : Sent(u)' = Sent(u)
    BY <1>12 DEF valueVars, Sent
  <2>2. \A u \in Users : Used(u)' = Used(u)
    BY <1>12, <2>1 DEF valueVars, Used
  <2> QED
    BY <1>12, <2>2 DEF valueVars, Agreed, Payable, Counted, LastPaid
<1> QED
  <2>1. ASSUME NEW succeeds \in BOOLEAN, EndEvent(succeeds) PROVE Agreed'
    BY <1>3, <1>4, <2>1
  <2> QED
    BY <1>1, <1>2, <2>1, <1>5, <1>6, <1>7, <1>8, <1>9, <1>10, <1>11, <1>12 DEF ValueNext

\* Where a rollback restores the tree in place, what a receipt says is what was done: a failed
\* transaction moves its cost alone, every cost can be paid, and nonces count receipts.
THEOREM ReceiptsAreTrue ==
    ASSUME ~RollbackReplacesTree
    PROVE  ValueSpec => []ReceiptsHold
<1>1. ValueInit => TInv /\ Agreed
  BY InitValueTypes, InitAgreed
<1>2. TInv /\ Agreed /\ [ValueNext]_valueVars => (TInv /\ Agreed)'
  BY TypeStep, AgreedStep
<1>3. TInv /\ Agreed => ReceiptsHold
  <2> SUFFICES ASSUME TInv, Agreed PROVE ReceiptsHold
    OBVIOUS
  <2>1. root = 1
    BY OneTree
  <2>2. CostsPaid
    BY <2>1 DEF Agreed, LastPaid, CostsPaid
  <2>3. NoncesCount
    <3> SUFFICES ASSUME phase \in {"transactions", "post", "done"}, running = Nothing, NEW u \in Users
                 PROVE  trees[1].nonce[u] + 1 = Cardinality({i \in DOMAIN receipts : receipts[i].from = u})
      BY <2>1 DEF NoncesCount
    <3>1. trees[1].nonce[u] + 1 = Used(u)
      BY DEF Agreed, Counted
    <3>2. Used(u) = Cardinality(Sent(u)) + 0 /\ Cardinality(Sent(u)) \in Nat
      BY SentFacts DEF Used, TInv
    <3> QED
      BY <3>1, <3>2 DEF Sent
  <2> QED
    BY <2>2, <2>3 DEF ReceiptsHold
<1> QED
  BY <1>1, <1>2, <1>3, PTL DEF ValueSpec

-----------------------------------------------------------------------------
(* BlockRoutines.                                                           *)

Places == {"none", "creating", "thrown", "created", "refused", "closing", "running", "target",
           "mining", "unserved", "dumping", "added", "failed"}
Children == {"none", "forked", "open", "sent", "killed"}
Files == {"none", "open", "closed", "removed"}
Alive == {"forked", "open", "sent"}

TypeOK ==
    /\ inChild \in BOOLEAN
    /\ state \in {"idle", "executing", "mining"}
    /\ run \in [Routines -> [at : Places, canceled : BOOLEAN, child : Children, file : Files]]
    /\ context \in {Null} \cup [name : Mining, routine : Mining \cup {Null}]
    /\ state # "idle" => context \in [name : Mining, routine : Mining \cup {Null}]
    /\ slot \in {Null} \cup [name : Mining, killed : BOOLEAN]
    /\ taken \subseteq Mining

\* A routine is canceled, or loses the miner, only after it has begun; and it is never the
\* holder again.
TakenOnce ==
    /\ \A r \in Routines : run[r].at = "none" => ~run[r].canceled
    /\ \A r \in taken : run[r].at # "none"
    /\ \A r \in taken : state # "idle" => context.name # r

\* A child is alive while its routine waits for its message, and only where children are used.
ChildAwaited ==
    /\ \A r \in Routines : run[r].child \in Alive => run[r].at = "running" /\ inChild
    /\ ~inChild => \A r \in Routines : run[r].at # "closing"

IInv == TypeOK /\ RoutinesSettle /\ TakenOnce /\ ChildAwaited

-----------------------------------------------------------------------------
(* Steps that several actions share.                                        *)

\* CheckCancel tells whether r is the one the miner's state names.
LEMMA HolderPassesCheck ==
    ASSUME NEW r \in Mining
    PROVE  ~CheckCancel(r) <=> state # "idle" /\ context.name = r
BY DEF CheckCancel

RoutineRecord == [at : Places, canceled : BOOLEAN, child : Children, file : Files]

\* A routine that is done with the miner becomes x and gives the miner back, if it held it;
\* the worker's place is free again if it was the routine's.
LEMMA DoneKeepsInv ==
    ASSUME IInv,
           NEW r \in Routines, NEW x \in RoutineRecord,
           run[r].at # "none", SetIdle(r), run' = [run EXCEPT ![r] = x],
           x.at \in {"failed", "dumping"}, x.child \notin Alive,
           r \in taken => x.at = "failed",
           slot' = IF slot # Null /\ slot.name = r THEN Null ELSE slot,
           UNCHANGED <<inChild, taken>>
    PROVE  IInv'
<1> USE DEF Routines
<1>1. /\ run'[r] = x
      /\ \A q \in Routines \ {r} : run'[q] = run[q]
  BY DEF IInv, TypeOK
<1>2. \/ UNCHANGED <<state, context>> /\ (r \in Verifying \/ state = "idle" \/ context.name # r)
      \/ state' = "idle" /\ context' = Null
  BY DEF SetIdle, CheckCancel
<1>3. TypeOK'
  BY <1>2 DEF IInv, TypeOK, RoutineRecord
<1>4. MinedUndisturbed'
  BY <1>1 DEF IInv, RoutinesSettle, MinedUndisturbed
<1>5. HolderWorks'
  <2>1. state' # "idle" =>
            /\ ~run'[context'.name].canceled
            /\ run'[context'.name].at \in IF state' = "executing" THEN {"creating", "created", "closing", "running"}
                                          ELSE {"target", "mining", "unserved"}
    <3> SUFFICES ASSUME state' # "idle"
                 PROVE  /\ context' = context
                        /\ state' = state
                        /\ state # "idle"
                        /\ context.name \in Routines \ {r}
      BY <1>1 DEF IInv, RoutinesSettle, HolderWorks
    <3> QED  BY <1>2, Names DEF IInv, TypeOK
  <2>2. ASSUME NEW q \in Mining
        PROVE  run'[q].at = "mining" <=> slot' # Null /\ slot'.name = q
    <3>1. CASE q = r
      BY <3>1, <1>1
    <3>2. CASE q # r
      <4>1. run'[q] = run[q] /\ (run[q].at = "mining" <=> slot # Null /\ slot.name = q)
        BY <3>2, <1>1 DEF IInv, RoutinesSettle, HolderWorks
      <4> QED  BY <4>1, <3>2
    <3> QED  BY <3>1, <3>2
  <2> QED  BY <2>1, <2>2 DEF HolderWorks
<1>6. OneProcess'
  BY <1>1 DEF IInv, RoutinesSettle, OneProcess, Alive
<1>7. TakenOnce'
  BY <1>1, <1>2 DEF IInv, TypeOK, TakenOnce
<1>8. ChildAwaited'
  BY <1>1 DEF IInv, ChildAwaited
<1> QED  BY <1>3, <1>4, <1>5, <1>6, <1>7, <1>8 DEF IInv, RoutinesSettle

\* A routine moves on to x while the miner stays whose it was, and the worker too.
LEMMA MoveKeepsInv ==
    ASSUME IInv,
           NEW r \in Routines, NEW x \in RoutineRecord,
           run' = [run EXCEPT ![r] = x],
           run[r].at # "mining", x.at \notin {"none", "mining"}, x.canceled = run[r].canceled,
           x.at = "closing" => inChild,
           r \in taken => x.at \notin {"dumping", "added"},
           r \in Mining /\ state = "executing" /\ context.name = r =>
               x.at \in {"creating", "created", "closing", "running"},
           r \in Mining /\ state = "mining" /\ context.name = r => x.at \in {"target", "mining", "unserved"},
           x.child \in Alive => x.file = "closed" /\ x.at = "running" /\ inChild,
           \/ context' = context
           \/ /\ context \in [name : Mining, routine : Mining \cup {Null}]
              /\ context' \in [name : Mining, routine : Mining \cup {Null}]
              /\ context'.name = context.name,
           UNCHANGED <<inChild, state, slot, taken>>
    PROVE  IInv'
<1> USE DEF Routines
<1>1. /\ run'[r] = x
      /\ \A q \in Routines \ {r} : run'[q] = run[q]
  BY DEF IInv, TypeOK
<1>2. TypeOK'
  BY DEF IInv, TypeOK, RoutineRecord
<1>3. MinedUndisturbed'
  BY <1>1 DEF IInv, RoutinesSettle, MinedUndisturbed
<1>4. HolderWorks'
  <2>1. ASSUME state # "idle"
        PROVE  /\ context'.name = context.name
               /\ context.name \in Mining
    BY <2>1 DEF IInv, TypeOK
  <2>2. ASSUME state # "idle"
        PROVE  /\ ~run'[context'.name].canceled
               /\ run'[context'.name].at \in IF state' = "executing" THEN {"creating", "created", "closing", "running"}
                                             ELSE {"target", "mining", "unserved"}
    <3>1. CASE context.name = r
      BY <3>1, <2>1, <2>2, <1>1 DEF IInv, TypeOK, RoutinesSettle, HolderWorks
    <3>2. CASE context.name # r
      BY <3>2, <2>1, <2>2, <1>1 DEF IInv, RoutinesSettle, HolderWorks
    <3> QED  BY <3>1, <3>2
  <2>3. ASSUME NEW q \in Mining
        PROVE  run'[q].at = "mining" <=> slot' # Null /\ slot'.name = q
    BY <1>1 DEF IInv, RoutinesSettle, HolderWorks
  <2> QED  BY <2>2, <2>3 DEF HolderWorks
<1>5. OneProcess'
  BY <1>1 DEF IInv, RoutinesSettle, OneProcess, Alive
<1>6. TakenOnce'
  BY <1>1 DEF IInv, TypeOK, TakenOnce
<1>7. ChildAwaited'
  BY <1>1 DEF IInv, ChildAwaited
<1> QED  BY <1>2, <1>3, <1>4, <1>5, <1>6, <1>7 DEF IInv, RoutinesSettle

\* What ends a routine with an error.
LEMMA GiveUpKeepsInv ==
    ASSUME IInv,
           NEW r \in Routines, GiveUp(r),
           run[r].at # "none", run[r].child \notin {"forked", "open"},
           slot' = IF slot # Null /\ slot.name = r THEN Null ELSE slot,
           UNCHANGED <<inChild, taken>>
    PROVE  IInv'
<1> DEFINE x == [run[r] EXCEPT !.at = "failed", !.file = "removed",
                               !.child = IF @ = "sent" THEN "none" ELSE @]
<1>1. run[r] \in RoutineRecord
  BY DEF IInv, TypeOK, RoutineRecord
<1>2. x \in RoutineRecord /\ x.at = "failed" /\ x.child \notin Alive
  BY <1>1 DEF RoutineRecord, Places, Children, Files, Alive
<1>3. run' = [run EXCEPT ![r] = x] /\ SetIdle(r)
  BY DEF GiveUp
<1> HIDE DEF x
<1> QED  BY <1>2, <1>3, DoneKeepsInv

\* A routine that no worker works for leaves the worker's place as it is.
LEMMA NoWorker ==
    ASSUME IInv, NEW r \in Routines, run[r].at # "mining"
    PROVE  slot = IF slot # Null /\ slot.name = r THEN Null ELSE slot
BY Names DEF IInv, TypeOK, RoutinesSettle, HolderWorks

-----------------------------------------------------------------------------
(* One lemma per action that is not such a step as it stands.               *)

\* What cancel makes of a routine x: it is refused, or marked and its child killed, or stays.
CanceledAs(x, y) ==
    /\ y \in RoutineRecord
    /\ \/ y = x
       \/ x.at = "created" /\ y.at = "refused" /\ y.child = x.child
       \/ /\ x.at \in {"closing", "running"} /\ y.at = x.at
          /\ y.file = x.file
          /\ y.child \in Alive => y.child = x.child

LEMMA CancelIsOneOf ==
    ASSUME NEW x \in RoutineRecord
    PROVE  CanceledAs(x, Canceled(x))
<1>1. CASE x.at = "created"
  <2>1. Canceled(x) = [x EXCEPT !.at = "refused"]
    BY <1>1 DEF Canceled
  <2> QED  BY <1>1, <2>1 DEF CanceledAs, RoutineRecord, Places
<1>2. CASE x.at \in {"closing", "running"}
  <2>1. PICK child \in {x.child, "killed"} : Canceled(x) = [x EXCEPT !.canceled = TRUE, !.child = child]
    <3>1. Canceled(x) = [x EXCEPT !.canceled = TRUE, !.child = IF @ \in {"forked", "open"} THEN "killed" ELSE @]
      BY <1>2 DEF Canceled
    <3> QED  BY <3>1
  <2> QED  BY <1>2, <2>1 DEF CanceledAs, RoutineRecord, Children, Alive
<1>3. CASE x.at \notin {"created", "closing", "running"}
  BY <1>3 DEF Canceled, CanceledAs
<1> QED  BY <1>1, <1>2, <1>3

\* Takeover: the new holder has just begun, and whom it cancels is not the new holder.
LEMMA TakeOverKeepsInv ==
    ASSUME IInv, NEW r \in Mining, TakeOver(r)
    PROVE  IInv'
<1> USE DEF Routines
<1>1. \A q \in Routines : run[q] \in RoutineRecord
  BY DEF IInv, TypeOK, RoutineRecord
<1>2. \A q \in Routines : CanceledAs(run[q], Canceled(run[q]))
  BY <1>1, CancelIsOneOf
<1>3. /\ run'[r] = [run[r] EXCEPT !.at = "creating"]
      /\ run' \in [Routines -> RoutineRecord]
      /\ \A q \in Routines \ {r} : run'[q] = run[q] \/ run'[q] = Canceled(run[q])
  BY <1>1, <1>2 DEF CanceledAs, TakeOver, RoutineRecord, Places
<1>4. /\ run[r].at = "none" /\ ~run[r].canceled
      /\ run'[r].at = "creating" /\ ~run'[r].canceled
      /\ run'[r].child = run[r].child /\ run[r].child \notin Alive
  BY <1>1, <1>3 DEF TakeOver, IInv, TakenOnce, ChildAwaited, RoutineRecord
<1>5. /\ state' = "executing" /\ context' = [name |-> r, routine |-> Null]
      /\ inChild' = inChild
      /\ taken' = taken \/ (state # "idle" /\ taken' = taken \cup {context.name})
      /\ slot' = slot \/ (slot # Null /\ slot' = [slot EXCEPT !.killed = TRUE])
  BY DEF TakeOver
<1>6. state # "idle" =>
          /\ context.name \in Mining \ {r}
          /\ run[context.name].at \in {"creating", "created", "closing", "running", "target", "mining", "unserved"}
  BY <1>4 DEF IInv, TypeOK, RoutinesSettle, HolderWorks
<1>7. \A q \in Routines \ {r} :
          /\ run'[q].at \in {run[q].at, "refused"}
          /\ run[q].at = "none" => run'[q] = run[q]
          /\ run[q].at \notin {"created", "closing", "running"} => run'[q] = run[q]
          /\ run'[q].child \in Alive => /\ run'[q].child = run[q].child
                                        /\ run'[q].file = run[q].file
                                        /\ run'[q].at = run[q].at
  BY <1>2, <1>3 DEF CanceledAs, IInv, ChildAwaited
<1>8. TypeOK'
  BY <1>3, <1>5, <1>6 DEF IInv, TypeOK, RoutineRecord
<1>9. MinedUndisturbed'
  <2> SUFFICES ASSUME NEW q \in Mining, run'[q].at \in {"dumping", "added"}
               PROVE  q \notin taken'
    BY DEF MinedUndisturbed
  <2>1. run[q].at = run'[q].at
    BY <1>4, <1>7
  <2> QED  BY <2>1, <1>5, <1>6 DEF IInv, RoutinesSettle, MinedUndisturbed
<1>10. HolderWorks'
  <2>1. slot' # Null <=> slot # Null
    BY ZenonT(40), <1>5, Names DEF IInv, TypeOK
  <2>2. slot # Null => slot'.name = slot.name
    BY <1>5 DEF IInv, TypeOK
  <2>3. \A q \in Mining : run'[q].at = "mining" <=> run[q].at = "mining"
    BY <1>4, <1>7
  <2> QED  BY <2>1, <2>2, <2>3, <1>4, <1>5 DEF IInv, RoutinesSettle, HolderWorks
<1>11. OneProcess'
  BY <1>4, <1>7 DEF IInv, RoutinesSettle, OneProcess, Alive
<1>12. TakenOnce'
  <2>1. \A q \in Routines : run'[q].at = "none" => ~run'[q].canceled
    BY <1>4, <1>7 DEF IInv, TakenOnce
  <2>2. \A q \in taken' : run'[q].at # "none" /\ q # r
    BY <1>4, <1>5, <1>6, <1>7 DEF IInv, TypeOK, TakenOnce
  <2> QED  BY <2>1, <2>2, <1>5 DEF TakenOnce
<1>13. ChildAwaited'
  BY <1>4, <1>5, <1>7 DEF IInv, ChildAwaited
<1> QED  BY <1>8, <1>9, <1>10, <1>11, <1>12, <1>13 DEF IInv, RoutinesSettle

\* Verification of a block begins; the miner knows nothing of it.
LEMMA VerifyBlockKeepsInv ==
    ASSUME IInv, NEW r \in Verifying, VerifyBlock(r)
    PROVE  IInv'
<1> DEFINE x == [run[r] EXCEPT !.at = "creating"]
<1>1. run[r] \in RoutineRecord
  BY DEF IInv, TypeOK, RoutineRecord, Routines
<1>2. /\ x \in RoutineRecord /\ x.at = "creating" /\ x.canceled = run[r].canceled
      /\ x.child \notin Alive
  BY <1>1 DEF RoutineRecord, Places, IInv, ChildAwaited, VerifyBlock, Routines
<1>3. run' = [run EXCEPT ![r] = x] /\ r \in Routines /\ r \notin Mining
  BY Names DEF VerifyBlock, Goes, Routines
<1> HIDE DEF x
<1> QED  BY <1>2, <1>3, MoveKeepsInv DEF VerifyBlock

\* The storage is there, for whoever holds the miner by now; or it cannot be made.
LEMMA StorageCreatedKeepsInv ==
    ASSUME IInv, NEW r \in Routines, StorageCreated(r)
    PROVE  IInv'
<1>1. run[r] \in RoutineRecord /\ run[r].at = "creating" /\ run[r].child \notin Alive
  BY DEF IInv, TypeOK, RoutineRecord, StorageCreated, ChildAwaited
<1>2. CASE SetIdle(r) /\ Goes(r, "failed")
  <2> DEFINE x == [run[r] EXCEPT !.at = "failed"]
  <2>1. x \in RoutineRecord /\ x.at = "failed" /\ x.child \notin Alive
    BY <1>1 DEF RoutineRecord, Places
  <2>2. run' = [run EXCEPT ![r] = x]
    BY <1>2 DEF Goes
  <2> HIDE DEF x
  <2> QED  BY <1>1, <1>2, <2>1, <2>2, NoWorker, DoneKeepsInv DEF StorageCreated
<1>3. CASE UNCHANGED <<state, context>> /\ run' = [run EXCEPT ![r].at = "thrown", ![r].file = "open"]
           /\ r \in Mining /\ context = Null
  <2> DEFINE x == [run[r] EXCEPT !.at = "thrown", !.file = "open"]
  <2>1. x \in RoutineRecord /\ x.at = "thrown" /\ x.child \notin Alive /\ x.canceled = run[r].canceled
    BY <1>1 DEF RoutineRecord, Places, Files
  <2>2. run' = [run EXCEPT ![r] = x]
    BY <1>3
  <2>3. state = "idle"
    BY <1>3, Names DEF IInv, TypeOK
  <2> HIDE DEF x
  <2> QED  BY <1>1, <1>3, <2>1, <2>2, <2>3, MoveKeepsInv DEF StorageCreated
<1>4. CASE /\ run' = [run EXCEPT ![r].at = "created", ![r].file = "open"]
           /\ ~(r \in Mining /\ context = Null)
           /\ context' = IF r \in Mining THEN [context EXCEPT !.routine = r] ELSE context
           /\ UNCHANGED state
  <2> DEFINE x == [run[r] EXCEPT !.at = "created", !.file = "open"]
  <2>1. x \in RoutineRecord /\ x.at = "created" /\ x.child \notin Alive /\ x.canceled = run[r].canceled
    BY <1>1 DEF RoutineRecord, Places, Files
  <2>2. run' = [run EXCEPT ![r] = x]
    BY <1>4
  <2>3. \/ context' = context
        \/ /\ context \in [name : Mining, routine : Mining \cup {Null}]
           /\ context' \in [name : Mining, routine : Mining \cup {Null}]
           /\ context'.name = context.name
    BY <1>4 DEF IInv, TypeOK
  <2>4. ~(state = "mining" /\ context.name = r)
    BY <1>1 DEF IInv, RoutinesSettle, HolderWorks
  <2> HIDE DEF x
  <2> QED  BY ZenonT(40), <1>1, <1>4, <2>1, <2>2, <2>3, <2>4, MoveKeepsInv DEF StorageCreated
<1> QED  BY <1>2, <1>3, <1>4 DEF StorageCreated

\* Execution begins in this process or on the way to a child, unless it was canceled before.
LEMMA BeginKeepsInv ==
    ASSUME IInv, NEW r \in Routines, NEW place \in {"running", "closing"},
           Begin(r, place), place = "closing" => inChild,
           UNCHANGED <<inChild, slot, taken>>
    PROVE  IInv'
<1>1. run[r] \in RoutineRecord
  BY DEF IInv, TypeOK, RoutineRecord
<1>2. CASE run[r].at = "refused" /\ GiveUp(r)
  <2>1. run[r].child \notin {"forked", "open"}
    BY <1>2 DEF IInv, ChildAwaited, Alive
  <2> QED  BY <1>2, <2>1, NoWorker, GiveUpKeepsInv
<1>3. CASE run[r].at = "created" /\ Goes(r, place) /\ UNCHANGED <<state, context>>
  <2> DEFINE x == [run[r] EXCEPT !.at = place]
  <2>1. /\ x \in RoutineRecord /\ x.at = place /\ x.canceled = run[r].canceled
        /\ x.child = run[r].child
    BY <1>1 DEF RoutineRecord, Places
  <2>2. run' = [run EXCEPT ![r] = x]
    BY <1>3 DEF Goes
  <2>3. run[r].child \notin Alive
    BY <1>3 DEF IInv, ChildAwaited
  <2>4. ~(r \in Mining /\ state = "mining" /\ context.name = r)
    BY <1>3 DEF IInv, RoutinesSettle, HolderWorks
  <2> HIDE DEF x
  <2> QED  BY <1>3, <2>1, <2>2, <2>3, <2>4, MoveKeepsInv
<1> QED  BY <1>2, <1>3 DEF Begin

\* The storage is closed here before the child may open it.
LEMMA ForkKeepsInv ==
    ASSUME IInv, NEW r \in Routines, Fork(r)
    PROVE  IInv'
<1>1. /\ run[r] \in RoutineRecord /\ run[r].at = "closing"
      /\ run[r].child \notin Alive /\ inChild
  BY DEF IInv, TypeOK, RoutineRecord, Fork, ChildAwaited
<1>2. CASE GiveUp(r)
  BY <1>1, <1>2, NoWorker, GiveUpKeepsInv DEF Fork, Alive
<1>3. CASE /\ run' = [run EXCEPT ![r].at = "running", ![r].child = "forked", ![r].file = "closed"]
           /\ UNCHANGED <<state, context>>
  <2> DEFINE x == [run[r] EXCEPT !.at = "running", !.child = "forked", !.file = "closed"]
  <2>1. /\ x \in RoutineRecord /\ x.at = "running" /\ x.canceled = run[r].canceled
        /\ x.file = "closed"
    BY <1>1 DEF RoutineRecord, Places, Files, Children
  <2>2. run' = [run EXCEPT ![r] = x]
    BY <1>3
  <2>3. ~(r \in Mining /\ state = "mining" /\ context.name = r)
    BY <1>1 DEF IInv, RoutinesSettle, HolderWorks
  <2> HIDE DEF x
  <2> QED  BY <1>1, <1>3, <2>1, <2>2, <2>3, MoveKeepsInv DEF Fork
<1> QED  BY <1>2, <1>3 DEF Fork

\* The child goes on while its routine waits.
LEMMA ChildStepKeepsInv ==
    ASSUME IInv, NEW r \in Routines, ChildStep(r)
    PROVE  IInv'
<1>1. run[r] \in RoutineRecord /\ run[r].at = "running" /\ run[r].file = "closed" /\ inChild
  BY DEF IInv, TypeOK, RoutineRecord, ChildStep, ChildAwaited, RoutinesSettle, OneProcess, Alive
<1>2. PICK next \in Children : run' = [run EXCEPT ![r].child = next]
  BY DEF ChildStep, Children
<1> DEFINE x == [run[r] EXCEPT !.child = next]
<1>3. /\ x \in RoutineRecord /\ x.at = "running" /\ x.canceled = run[r].canceled
      /\ x.file = "closed"
  BY <1>1 DEF RoutineRecord
<1>4. run' = [run EXCEPT ![r] = x]
  BY <1>2
<1>5. ~(r \in Mining /\ state = "mining" /\ context.name = r)
  BY <1>1 DEF IInv, RoutinesSettle, HolderWorks
<1> HIDE DEF x
<1> QED  BY <1>1, <1>3, <1>4, <1>5, MoveKeepsInv DEF ChildStep

\* The holder of the miner goes on to mine; nobody else does.
LEMMA AnsweredKeepsInv ==
    ASSUME IInv, NEW r \in Routines, Answered(r),
           run[r].at = "running", run[r].child \notin {"forked", "open"}
    PROVE  IInv'
<1> USE DEF Routines
<1>1. run[r] \in RoutineRecord
  BY DEF IInv, TypeOK, RoutineRecord
<1>2. CASE GiveUp(r)
  BY <1>2, NoWorker, GiveUpKeepsInv DEF Answered
<1>3. CASE /\ r \in Mining => ~CheckCancel(r)
           /\ run' = [run EXCEPT ![r].at = IF r \in Mining THEN "target" ELSE "dumping", ![r].child = "none"]
           /\ state' = IF r \in Mining THEN "mining" ELSE state
           /\ context' = IF r \in Mining THEN [context EXCEPT !.routine = Null] ELSE context
  <2> DEFINE x == [run[r] EXCEPT !.at = IF r \in Mining THEN "target" ELSE "dumping", !.child = "none"]
  <2>1. /\ x \in RoutineRecord /\ x.canceled = run[r].canceled /\ x.child = "none"
        /\ x.at = IF r \in Mining THEN "target" ELSE "dumping"
    BY <1>1 DEF RoutineRecord, Places, Children
  <2>2. run' = [run EXCEPT ![r] = x]
    BY <1>3
  <2> HIDE DEF x
  <2>3. CASE r \notin Mining
    <3>1. r \notin taken
      BY <2>3 DEF IInv, TypeOK
    <3> QED  BY <1>3, <2>1, <2>2, <2>3, <3>1, MoveKeepsInv DEF Answered, Alive
  <2>4. CASE r \in Mining
    <3>1. /\ state # "idle" /\ context.name = r
          /\ context \in [name : Mining, routine : Mining \cup {Null}]
      BY <1>3, <2>4, HolderPassesCheck DEF IInv, TypeOK
    <3>2. ~run[r].canceled
      BY <3>1 DEF IInv, RoutinesSettle, HolderWorks
    <3>3. /\ run'[r] = x /\ x.at = "target"
          /\ \A q \in Routines \ {r} : run'[q] = run[q]
      BY <2>1, <2>2, <2>4 DEF IInv, TypeOK
    <3>4. /\ state' = "mining" /\ context'.name = r
          /\ context' \in [name : Mining, routine : Mining \cup {Null}]
          /\ UNCHANGED <<inChild, slot, taken>>
      BY <1>3, <2>4, <3>1 DEF Answered
    <3>5. TypeOK'
      BY <2>1, <2>2, <3>4 DEF IInv, TypeOK, RoutineRecord
    <3>6. MinedUndisturbed'
      BY <3>3, <3>4 DEF IInv, RoutinesSettle, MinedUndisturbed
    <3>7. HolderWorks'
      BY <2>1, <3>2, <3>3, <3>4 DEF IInv, RoutinesSettle, HolderWorks
    <3>8. OneProcess'
      BY <2>1, <3>3 DEF IInv, RoutinesSettle, OneProcess
    <3>9. TakenOnce'
      BY <3>1, <3>3, <3>4 DEF IInv, TypeOK, TakenOnce
    <3>10. ChildAwaited'
      BY <2>1, <3>3, <3>4 DEF IInv, ChildAwaited, Alive
    <3> QED  BY <3>5, <3>6, <3>7, <3>8, <3>9, <3>10 DEF IInv, RoutinesSettle
  <2> QED  BY <2>3, <2>4
<1> QED  BY <1>2, <1>3 DEF Answered

\* The header goes to the pool, which may have no worker for it.
LEMMA PushKeepsInv ==
    ASSUME IInv, NEW r \in Mining, Push(r)
    PROVE  IInv'
<1> USE DEF Routines
<1>1. /\ run[r] \in RoutineRecord /\ run[r].at = "target" /\ run[r].child \notin Alive
      /\ state = "executing" => context.name # r
  BY DEF IInv, TypeOK, RoutineRecord, Push, ChildAwaited, RoutinesSettle, HolderWorks
<1>2. CASE GiveUp(r) /\ UNCHANGED slot
  BY <1>1, <1>2, NoWorker, GiveUpKeepsInv DEF Push, Alive
<1>3. CASE slot # Null /\ Goes(r, "unserved") /\ UNCHANGED <<state, context, slot>>
  <2> DEFINE x == [run[r] EXCEPT !.at = "unserved"]
  <2>1. /\ x \in RoutineRecord /\ x.canceled = run[r].canceled /\ x.child \notin Alive
        /\ x.at = "unserved"
    BY <1>1 DEF RoutineRecord, Places
  <2>2. run' = [run EXCEPT ![r] = x]
    BY <1>3 DEF Goes
  <2> HIDE DEF x
  <2> QED  BY <1>1, <1>3, <2>1, <2>2, MoveKeepsInv DEF Push
<1>4. CASE /\ slot = Null /\ slot' = [name |-> r, killed |-> FALSE]
           /\ Goes(r, "mining") /\ UNCHANGED <<state, context>>
  <2>1. /\ run'[r] = [run[r] EXCEPT !.at = "mining"]
        /\ \A q \in Routines \ {r} : run'[q] = run[q]
    BY <1>4 DEF Goes, IInv, TypeOK
  <2>2. /\ run'[r] \in RoutineRecord /\ run'[r].at = "mining"
        /\ run'[r].canceled = run[r].canceled /\ run'[r].child \notin Alive
    BY <1>1, <2>1 DEF RoutineRecord, Places
  <2>3. UNCHANGED <<inChild, taken>> /\ slot' \in [name : Mining, killed : BOOLEAN] /\ slot'.name = r
    BY <1>4 DEF Push
  <2>4. TypeOK'
    BY <1>4, <2>2, <2>3 DEF IInv, TypeOK, RoutineRecord, Goes, Places
  <2>5. MinedUndisturbed'
    BY <2>1, <2>2, <2>3 DEF IInv, RoutinesSettle, MinedUndisturbed
  <2>6. HolderWorks'
    <3>1. \A q \in Mining : run'[q].at = "mining" <=> q = r
      BY <1>4, <2>1, <2>2 DEF IInv, RoutinesSettle, HolderWorks
    <3>2. slot' # Null
      BY <2>3, Names
    <3>3. state # "idle" =>
              /\ ~run'[context.name].canceled
              /\ run'[context.name].at \in IF state = "executing" THEN {"creating", "created", "closing", "running"}
                                           ELSE {"target", "mining", "unserved"}
      <4>1. CASE state # "idle" /\ context.name = r
        BY <4>1, <1>1, <2>2 DEF IInv, TypeOK, RoutinesSettle, HolderWorks
      <4>2. CASE state # "idle" /\ context.name # r
        <5>1. context.name \in Routines \ {r}
          BY <4>2 DEF IInv, TypeOK
        <5> QED  BY <4>2, <5>1, <2>1 DEF IInv, RoutinesSettle, HolderWorks
      <4> QED  BY <4>1, <4>2
    <3> QED  BY <3>1, <3>2, <3>3, <1>4, <2>3 DEF HolderWorks
  <2>7. OneProcess'
    BY <2>1, <2>2 DEF IInv, RoutinesSettle, OneProcess, Alive
  <2>8. TakenOnce'
    BY <1>4, <2>1, <2>2, <2>3 DEF IInv, TypeOK, TakenOnce
  <2>9. ChildAwaited'
    <3>1. \A q \in Routines : run'[q].child \in Alive => run[q].child \in Alive /\ q # r
      BY <2>1, <2>2
    <3>2. \A q \in Routines : run'[q].at = "closing" => run[q].at = "closing"
      BY <2>1, <2>2
    <3> QED  BY <2>1, <2>3, <3>1, <3>2 DEF IInv, TypeOK, ChildAwaited
  <2> QED  BY <2>4, <2>5, <2>6, <2>7, <2>8, <2>9 DEF IInv, RoutinesSettle
<1> QED  BY <1>2, <1>3, <1>4 DEF Push

\* The worker exits: whoever waited for it is done with the miner.
LEMMA WorkerExitsKeepsInv ==
    ASSUME IInv, WorkerExits
    PROVE  IInv'
<1> DEFINE r == slot.name
<1>1. /\ r \in Mining /\ r \in Routines /\ slot # Null
      /\ run[r].at = "mining" /\ run[r].child \notin Alive /\ run[r] \in RoutineRecord
  BY DEF WorkerExits, IInv, TypeOK, Routines, RoutinesSettle, HolderWorks, ChildAwaited, RoutineRecord
<1>2. slot' = Null /\ UNCHANGED <<inChild, taken>>
  BY DEF WorkerExits
<1>3. CASE GiveUp(r)
  BY <1>1, <1>2, <1>3, GiveUpKeepsInv DEF Alive
<1>4. CASE ~CheckCancel(r) /\ SetIdle(r) /\ Goes(r, "dumping")
  <2> DEFINE x == [run[r] EXCEPT !.at = "dumping"]
  <2>1. x \in RoutineRecord /\ x.at = "dumping" /\ x.child \notin Alive
    BY <1>1 DEF RoutineRecord, Places
  <2>2. run' = [run EXCEPT ![r] = x]
    BY <1>4 DEF Goes
  <2>3. r \notin taken
    BY <1>1, <1>4, HolderPassesCheck DEF IInv, TakenOnce
  <2> HIDE DEF x
  <2> QED  BY <1>1, <1>2, <1>4, <2>1, <2>2, <2>3, DoneKeepsInv
<1> QED  BY <1>3, <1>4 DEF WorkerExits

\* The snapshot of the block is made, or not.
LEMMA DumpedKeepsInv ==
    ASSUME IInv, NEW r \in Routines, Dumped(r)
    PROVE  IInv'
<1>1. run[r] \in RoutineRecord /\ run[r].at = "dumping" /\ run[r].child \notin Alive
  BY DEF IInv, TypeOK, RoutineRecord, Dumped, ChildAwaited
<1>2. PICK x \in RoutineRecord :
          /\ run' = [run EXCEPT ![r] = x]
          /\ x.at \in {"failed", "added"} /\ x.canceled = run[r].canceled /\ x.child = run[r].child
  <2>1. CASE run' = [run EXCEPT ![r].at = "failed", ![r].file = IF r \in Verifying THEN "removed" ELSE @]
    <3> DEFINE x == [run[r] EXCEPT !.at = "failed", !.file = IF r \in Verifying THEN "removed" ELSE @]
    <3>1. /\ x \in RoutineRecord
          /\ x.at = "failed" /\ x.canceled = run[r].canceled /\ x.child = run[r].child
      BY <1>1 DEF RoutineRecord, Places, Files
    <3>2. run' = [run EXCEPT ![r] = x]
      BY <2>1
    <3> QED  BY <3>1, <3>2
  <2>2. CASE run' = [run EXCEPT ![r].at = "added", ![r].file = IF r \in Mining THEN "removed" ELSE @]
    <3> DEFINE x == [run[r] EXCEPT !.at = "added", !.file = IF r \in Mining THEN "removed" ELSE @]
    <3>1. /\ x \in RoutineRecord
          /\ x.at = "added" /\ x.canceled = run[r].canceled /\ x.child = run[r].child
      BY <1>1 DEF RoutineRecord, Places, Files
    <3>2. run' = [run EXCEPT ![r] = x]
      BY <2>2
    <3> QED  BY <3>1, <3>2
  <2> QED  BY <2>1, <2>2 DEF Dumped
<1>3. r \in Mining => ~(state # "idle" /\ context.name = r)
  BY <1>1 DEF IInv, RoutinesSettle, HolderWorks
<1>4. r \notin taken
  BY <1>1 DEF IInv, TypeOK, RoutinesSettle, MinedUndisturbed
<1> QED  BY <1>1, <1>2, <1>3, <1>4, MoveKeepsInv DEF Dumped

-----------------------------------------------------------------------------
LEMMA InitInv ==
    ASSUME RoutinesInit
    PROVE  IInv
<1> USE DEF RoutinesInit, Routines
<1>1. TypeOK
  BY DEF TypeOK, Places, Children, Files
<1>2. RoutinesSettle
  BY DEF RoutinesSettle, MinedUndisturbed, HolderWorks, OneProcess
<1>3. TakenOnce /\ ChildAwaited
  BY DEF TakenOnce, ChildAwaited, Alive
<1> QED  BY <1>1, <1>2, <1>3 DEF IInv

LEMMA NextKeepsInv ==
    ASSUME IInv, [RoutinesNext]_routineVars
    PROVE  IInv'
<1>1. CASE UNCHANGED routineVars
  BY <1>1 DEF routineVars, IInv, TypeOK, RoutinesSettle, MinedUndisturbed, HolderWorks, OneProcess,
              TakenOnce, ChildAwaited
<1>2. ASSUME NEW r \in Mining, TakeOver(r)
      PROVE  IInv'
  BY <1>2, TakeOverKeepsInv
<1>3. ASSUME NEW r \in Mining, Push(r)
      PROVE  IInv'
  BY <1>3, PushKeepsInv
<1>4. ASSUME NEW r \in Verifying, VerifyBlock(r)
      PROVE  IInv'
  BY <1>4, VerifyBlockKeepsInv
<1>5. ASSUME NEW r \in Routines, Execute(r) \/ ExecuteOrVerify(r)
      PROVE  IInv'
  BY <1>5, BeginKeepsInv DEF Execute, ExecuteOrVerify
<1>6. ASSUME NEW r \in Routines, Executed(r) \/ Message(r)
      PROVE  IInv'
  <2>1. /\ Answered(r) /\ run[r].at = "running"
        /\ run[r].child \notin {"forked", "open"}
    BY <1>6 DEF Executed, Message, IInv, ChildAwaited, Alive
  <2> QED  BY <2>1, AnsweredKeepsInv
<1>7. ASSUME NEW r \in Routines, StorageCreated(r) \/ Fork(r) \/ ChildStep(r) \/ Dumped(r)
      PROVE  IInv'
  BY <1>7, StorageCreatedKeepsInv, ForkKeepsInv, ChildStepKeepsInv, DumpedKeepsInv
<1>8. CASE WorkerExits
  BY <1>8, WorkerExitsKeepsInv
<1> QED  BY <1>1, <1>2, <1>3, <1>4, <1>5, <1>6, <1>7, <1>8 DEF RoutinesNext

\* Routines of several tips at once do not disturb each other: a block comes only of a routine
\* that held the miner from its start to its hash, whoever the state names is at work for it,
\* and no two processes have one storage open.
THEOREM RoutinesSafe == RoutinesSpec => []RoutinesSettle
<1>1. RoutinesInit => IInv
  BY InitInv
<1>2. IInv /\ [RoutinesNext]_routineVars => IInv'
  BY NextKeepsInv
<1>3. IInv => RoutinesSettle
  BY DEF IInv
<1> QED  BY <1>1, <1>2, <1>3, PTL DEF RoutinesSpec
-----------------------------------------------------------------------------
(* The validators of a dBFT chain.                                         *)

IsList(s) == \E S : s \in Seq(S)

DbftStates == [candidate : [ValidatorAddresses -> Nat \cup {Absent}], miners : Seq(ValidatorAddresses)]

Numbers == 0 .. Number

\* The block whose election gave block n its validators.
TermOf(n) == (n \div ReSelectionBlocks) * ReSelectionBlocks

\* A candidate has been one since its number says so.
SinceThen(n) == \A a \in ValidatorAddresses :
    LET c == StateAfter(n).candidate[a]
    IN  c # Absent => c \in 0 .. n /\ \A k \in c .. n : StateAfter(k).candidate[a] # Absent

RowNamesElected(n) ==
    Row(n) # Absent => Row(n).miners = IF IsElectionBlockNumber(n) THEN StateAfter(n).miners ELSE <<>>

TotalUp(n) == Row(n) # Absent =>
    /\ Row(n - 1) # Absent
    /\ Row(n).totalView = Row(n - 1).totalView + Cost(view[n + 1])

WaitedFor(n) ==
    \/ StateAfter(n).miners = StateAfter(n - 1).miners
    \/ \A a \in Members(StateAfter(n).miners), k \in 0 .. n :
          n - k <= MinWaitBlocksToMiner => StateAfter(k).candidate[a] # Absent

\* Of one block and of those before it.
BlockKnown(n) ==
    /\ StateAfter(n) \in DbftStates
    /\ StateAfter(n).miners # <<>>
    /\ StateAfter(n).miners = StateAfter(TermOf(n)).miners
    /\ RowNamesElected(n)
    /\ SinceThen(n)
    /\ n # 0 => TotalUp(n) /\ WaitedFor(n)

\* The three tables have an entry for each block, and what is known of it holds.
ChainKnown ==
    /\ IsList(kv) /\ IsList(view) /\ IsList(written)
    /\ Len(kv) # 0 /\ Len(view) = Len(kv) /\ Len(written) = Len(kv)
    /\ \A n \in Numbers : BlockKnown(n)

LEMMA Appended ==
    ASSUME NEW s, IsList(s), NEW x
    PROVE  /\ IsList(Append(s, x)) /\ Len(s) \in Nat /\ Len(Append(s, x)) = Len(s) + 1
           /\ Append(s, x)[Len(s) + 1] = x
           /\ \A i \in 1 .. Len(s) : Append(s, x)[i] = s[i]
<1>1. PICK S : s \in Seq(S)
  BY DEF IsList
<1> DEFINE T == S \cup {x}
<1>2. s \in Seq(T) /\ x \in T
  BY <1>1
<1> HIDE DEF T
<1>3. Append(s, x) \in Seq(T)
  BY <1>2
<1> QED
  BY <1>2, <1>3 DEF IsList

\* What a transaction leaves of the state.
LEMMA CallFacts ==
    ASSUME NEW d \in DbftStates, NEW n \in Nat, NEW e \in AfterCall(d, n)
    PROVE  /\ e \in DbftStates /\ e.miners = d.miners
           /\ \A a \in ValidatorAddresses : e.candidate[a] \in {d.candidate[a], n, Absent}
<1>1. ASSUME NEW b \in ValidatorAddresses, NEW x \in {n, Absent}, e = [d EXCEPT !.candidate[b] = x]
      PROVE  /\ e \in DbftStates /\ e.miners = d.miners
             /\ \A a \in ValidatorAddresses : e.candidate[a] \in {d.candidate[a], n, Absent}
  <2> DEFINE f == [d.candidate EXCEPT ![b] = x]
  <2>1. d.candidate \in [ValidatorAddresses -> Nat \cup {Absent}] /\ d.miners \in Seq(ValidatorAddresses)
    BY DEF DbftStates
  <2>2. /\ f \in [ValidatorAddresses -> Nat \cup {Absent}]
        /\ \A a \in ValidatorAddresses : f[a] \in {d.candidate[a], n, Absent}
    BY <1>1, <2>1
  <2>3. e = [candidate |-> f, miners |-> d.miners]
    BY <1>1 DEF DbftStates
  <2> QED
    BY <2>1, <2>2, <2>3 DEF DbftStates
<1>2. ASSUME e = d
      PROVE  /\ e \in DbftStates /\ e.miners = d.miners
             /\ \A a \in ValidatorAddresses : e.candidate[a] \in {d.candidate[a], n, Absent}
  BY <1>2
<1>3. \/ e = d
      \/ \E b \in ValidatorAddresses, x \in {n, Absent} : e = [d EXCEPT !.candidate[b] = x]
  BY DEF AfterCall, RegisterAsCandidate, UnRegisterAsCandidate
<1> QED
  BY <1>1, <1>2, <1>3

\* What an election makes of the state: the new validators have waited, and there is one.
LEMMA UpdateFacts ==
    ASSUME NEW d \in DbftStates, NEW n \in Nat, d.miners # <<>>
    PROVE  LET e == UpdateMiners(d, n)
           IN  /\ e \in DbftStates /\ e.candidate = d.candidate /\ e.miners # <<>>
               /\ \/ e.miners = d.miners
                  \/ \A a \in Members(e.miners) : a \in ValidatorAddresses /\ Waited(d, n, a)
<1> DEFINE A == ValidatorAddresses
           W == {a \in A : Waited(d, n, a)}
           w == Those(Order, W)
           l == Limited(w)
           e == UpdateMiners(d, n)
<1>1. Order \in Seq(A) /\ MinValidator \in Nat \ {0} /\ MaxValidator \in Nat
  BY ValidatorsAssumption
<1>2. e = IF Len(w) < MinValidator THEN d ELSE [d EXCEPT !.miners = l]
  BY DEF UpdateMiners
<1>3. w \in Seq(A) /\ \A i \in DOMAIN w : w[i] \in W
  BY <1>1, ThoseFacts DEF Chosen
<1> HIDE DEF A, W, w
<1>4. CASE Len(w) < MinValidator
  BY <1>2, <1>4
<1>5. CASE ~(Len(w) < MinValidator)
  <2>1. Len(w) \in Nat /\ Len(w) > 0
    BY <1>1, <1>3, <1>5
  <2>2. l \in Seq(A) /\ l # <<>> /\ \A i \in DOMAIN l : l[i] \in W
    <3>1. CASE Len(w) > MaxValidator
      <4> DEFINE m == MaxValidator + 1
      <4>0. m \in 1 .. Len(w)
        BY <1>1, <2>1, <3>1
      <4>1. l = SubSeq(w, m, Len(w)) /\ m \in 1 .. Len(w)
        BY <3>1, <4>0 DEF Limited
      <4> HIDE DEF m, l
      <4>2. /\ SubSeq(w, m, Len(w)) \in Seq(A) /\ Len(SubSeq(w, m, Len(w))) = Len(w) - m + 1
            /\ \A i \in 1 .. Len(w) - m + 1 : SubSeq(w, m, Len(w))[i] = w[m + i - 1]
        BY <1>3, <2>1, <4>1, SubSeqProperties
      <4>3. DOMAIN l = 1 .. Len(w) - m + 1 /\ Len(l) > 0
        BY <2>1, <4>1, <4>2
      <4>4. \A i \in DOMAIN l : m + i - 1 \in DOMAIN w /\ l[i] = w[m + i - 1]
        BY <1>3, <2>1, <4>1, <4>2, <4>3
      <4>5. l \in Seq(A)
        BY <4>1, <4>2
      <4>6. l # <<>>
        BY <4>3
      <4>7. \A i \in DOMAIN l : l[i] \in W
        BY <1>3, <4>4
      <4> QED
        BY <4>5, <4>6, <4>7
    <3>2. CASE ~(Len(w) > MaxValidator)
      <4>1. l = w /\ w # <<>>
        BY <2>1, <3>2 DEF Limited
      <4> QED
        BY <1>3, <4>1
    <3> QED
      BY <3>1, <3>2
  <2> HIDE DEF l
  <2>3. e = [candidate |-> d.candidate, miners |-> l]
    BY <1>2, <1>5 DEF DbftStates
  <2>4. \A a \in Members(l) : a \in W
    BY <2>2 DEF Members
  <2> QED
    BY <2>2, <2>3, <2>4 DEF DbftStates, A, W
<1> QED
  BY <1>4, <1>5

LEMMA ValidatorsAfterFacts ==
    ASSUME NEW d \in DbftStates, NEW n \in Nat, d.miners # <<>>
    PROVE  LET e == AfterElection(d, n)
           IN  /\ e \in DbftStates /\ e.candidate = d.candidate /\ e.miners # <<>>
               /\ ~IsElectionBlockNumber(n) => e.miners = d.miners
               /\ \/ e.miners = d.miners
                  \/ \A a \in Members(e.miners) : a \in ValidatorAddresses /\ Waited(d, n, a)
<1>1. CASE IsElectionBlockNumber(n)
  <2>1. AfterElection(d, n) = UpdateMiners(d, n)
    BY <1>1 DEF AfterElection
  <2> QED
    BY <1>1, <2>1, UpdateFacts
<1>2. CASE ~IsElectionBlockNumber(n)
  BY <1>2 DEF AfterElection
<1> QED
  BY <1>1, <1>2

\* The block whose election is asked for is the one whose election it was.
LEMMA ElectedBy ==
    ASSUME NEW n \in Nat
    PROVE  /\ ElectionOf(n) = TermOf(n)
           /\ TermOf(n) \in 0 .. n /\ IsElectionBlockNumber(TermOf(n)) /\ TermOf(TermOf(n)) = TermOf(n)
           /\ IsElectionBlockNumber(n) => TermOf(n) = n
           /\ ~IsElectionBlockNumber(n) => n # 0 /\ TermOf(n) = TermOf(n - 1)
<1>1. ReSelectionBlocks \in Nat \ {0}
  BY TermAssumption
<1>2. ElectionOf(n) = TermOf(n)
  <2>1. n + 1 # 0 /\ (n + 1) - 1 = n
    OBVIOUS
  <2> QED
    BY <2>1 DEF ElectionOf, GetElectionBlockNumber, TermOf
<1>3. /\ TermOf(n) \in 0 .. n /\ TermOf(n) % ReSelectionBlocks = 0
      /\ (n % ReSelectionBlocks = 0 <=> TermOf(n) = n)
  BY <1>1, Terms DEF TermOf
<1>4. n % ReSelectionBlocks # 0 => n # 0 /\ n \div ReSelectionBlocks = (n - 1) \div ReSelectionBlocks
  BY <1>1, Terms
<1>5. n % ReSelectionBlocks # 0 => n # 0 /\ TermOf(n) = TermOf(n - 1)
  BY <1>4 DEF TermOf
<1>6. \A k \in Nat : IsElectionBlockNumber(k) <=> k % ReSelectionBlocks = 0
  BY DEF IsElectionBlockNumber
<1>7. TermOf(n) \in Nat
  BY <1>3
<1>8. TermOf(TermOf(n)) = TermOf(n)
  BY <1>1, <1>3, <1>7, Terms DEF TermOf
<1> HIDE DEF TermOf
<1> QED
  BY <1>2, <1>3, <1>5, <1>6, <1>7, <1>8

\* The genesis.
LEMMA GenesisKnown == ASSUME ValidatorsInit PROVE ChainKnown
<1> DEFINE g == GenesisState
<1>1. /\ kv = <<g>> /\ view = <<0>> /\ written = <<[miners |-> GenesisValidators, totalView |-> 1]>>
      /\ GenesisValidators \in Seq(ValidatorAddresses) /\ GenesisValidators # <<>> /\ ReSelectionBlocks \in Nat \ {0}
  BY ValidatorsAssumption, TermAssumption DEF ValidatorsInit
<1>2. g \in DbftStates /\ g.miners = GenesisValidators /\ \A a \in ValidatorAddresses : g.candidate[a] \in {0, Absent}
  BY <1>1 DEF GenesisState, DbftStates
<1> HIDE DEF g
<1>3. /\ IsList(kv) /\ IsList(view) /\ IsList(written)
      /\ Len(kv) = 1 /\ Len(view) = 1 /\ Len(written) = 1
  <2>1. kv \in Seq({g}) /\ view \in Seq({0}) /\ written \in Seq({[miners |-> GenesisValidators, totalView |-> 1]})
    BY <1>1
  <2>2. Len(kv) = 1 /\ Len(view) = 1 /\ Len(written) = 1
    BY <1>1
  <2> QED
    BY <2>1, <2>2 DEF IsList
<1>4. StateAfter(0) = g /\ Row(0).miners = GenesisValidators
  BY <1>1 DEF StateAfter, Row
<1>5. TermOf(0) = 0 /\ IsElectionBlockNumber(0)
  <2>1. 0 \in Nat /\ TermOf(0) \in 0 .. 0 /\ IsElectionBlockNumber(TermOf(0))
    BY ElectedBy
  <2> QED
    BY <2>1
<1>6. Numbers = {0}
  BY <1>3 DEF Numbers, Number
<1>7. SinceThen(0)
  <2>1. \A k \in 0 .. 0 : k = 0
    OBVIOUS
  <2> QED
    BY <1>2, <1>4, <2>1 DEF SinceThen
<1>8. RowNamesElected(0)
  BY <1>2, <1>4, <1>5 DEF RowNamesElected
<1>9. BlockKnown(0)
  BY <1>1, <1>2, <1>4, <1>5, <1>7, <1>8 DEF BlockKnown
<1> QED
  BY <1>3, <1>6, <1>9 DEF ChainKnown

\* What is known of a block stays known when the chain grows behind it.
LEMMA OldKnown ==
    ASSUME NEW m \in Nat, BlockKnown(m),
           \A k \in 0 .. m : /\ StateAfter(k)' = StateAfter(k)
                             /\ Row(k)' = Row(k)
                             /\ view'[k + 1] = view[k + 1]
    PROVE  BlockKnown(m)'
<1>1. m \in 0 .. m /\ TermOf(m) \in 0 .. m
  BY ElectedBy
<1>2. /\ StateAfter(m)' = StateAfter(m) /\ StateAfter(TermOf(m))' = StateAfter(TermOf(m))
      /\ Row(m)' = Row(m) /\ view'[m + 1] = view[m + 1]
  BY <1>1
<1>3. m # 0 => m - 1 \in 0 .. m /\ StateAfter(m - 1)' = StateAfter(m - 1) /\ Row(m - 1)' = Row(m - 1)
  OBVIOUS
<1>4. SinceThen(m)'
  <2>1. SinceThen(m)
    BY DEF BlockKnown
  <2> SUFFICES ASSUME NEW a \in ValidatorAddresses, StateAfter(m)'.candidate[a] # Absent
               PROVE  /\ StateAfter(m)'.candidate[a] \in 0 .. m
                      /\ \A k \in StateAfter(m)'.candidate[a] .. m : StateAfter(k)'.candidate[a] # Absent
    BY DEF SinceThen
  <2>2. /\ StateAfter(m).candidate[a] \in 0 .. m
        /\ \A k \in StateAfter(m).candidate[a] .. m : StateAfter(k).candidate[a] # Absent
    BY <1>2, <2>1 DEF SinceThen
  <2>3. \A k \in StateAfter(m).candidate[a] .. m : StateAfter(k)' = StateAfter(k)
    BY <2>2
  <2> QED
    BY <1>2, <2>2, <2>3
<1>5. RowNamesElected(m)'
  BY <1>2 DEF BlockKnown, RowNamesElected
<1>6. ASSUME m # 0 PROVE TotalUp(m)' /\ WaitedFor(m)'
  <2>1. TotalUp(m) /\ WaitedFor(m)
    BY <1>6 DEF BlockKnown
  <2>2. TotalUp(m)'
    BY <1>2, <1>3, <1>6, <2>1 DEF TotalUp
  <2>3. CASE StateAfter(m).miners = StateAfter(m - 1).miners
    BY <1>2, <1>3, <1>6, <2>2, <2>3 DEF WaitedFor
  <2>4. CASE \A a \in Members(StateAfter(m).miners), k \in 0 .. m :
                m - k <= MinWaitBlocksToMiner => StateAfter(k).candidate[a] # Absent
    <3>1. ASSUME NEW a \in Members(StateAfter(m)'.miners), NEW k \in 0 .. m,
                 m - k <= MinWaitBlocksToMiner
          PROVE  StateAfter(k)'.candidate[a] # Absent
      <4>1. a \in Members(StateAfter(m).miners)
        BY <1>2
      <4> QED
        BY <2>4, <3>1, <4>1
    <3> QED
      BY <2>2, <3>1 DEF WaitedFor
  <2> QED
    BY <2>1, <2>3, <2>4 DEF WaitedFor
<1> QED
  BY <1>2, <1>4, <1>5, <1>6 DEF BlockKnown

\* A block.
LEMMA NextKnown == ASSUME ChainKnown, ValidatorsNext PROVE ChainKnown'
<1>0. PICK n : n = Number + 1
  OBVIOUS
<1> DEFINE d == StateAfter(n - 1)
<1>1. PICK s \in AfterCall(d, n), v \in 0 .. MaxView, lost \in {0, 1} :
          /\ kv' = Append(kv, AfterElection(s, n)) /\ view' = Append(view, v)
          /\ written' = Append(written, IF lost = 1 THEN Absent ELSE AddHeader(n, AfterElection(s, n), v))
  BY <1>0 DEF ValidatorsNext, ElectingBlock
<1> DEFINE t == AfterElection(s, n)
           r == IF lost = 1 THEN Absent ELSE AddHeader(n, t, v)
<1>2. /\ IsList(kv) /\ IsList(view) /\ IsList(written)
      /\ Len(kv) # 0 /\ Len(view) = Len(kv) /\ Len(written) = Len(kv)
  BY DEF ChainKnown
<1>3. n = Len(kv) /\ n \in Nat \ {0} /\ n - 1 \in Nat /\ Numbers = 0 .. n - 1
  <2>1. Len(kv) \in Nat
    BY <1>2, Appended
  <2> QED
    BY <1>0, <1>2, <2>1 DEF Number, Numbers
<1>4. d \in DbftStates /\ d.miners # <<>> /\ SinceThen(n - 1)
      /\ d.miners = StateAfter(TermOf(n - 1)).miners
  BY <1>3 DEF ChainKnown, BlockKnown
<1> HIDE DEF d
<1>5. /\ s \in DbftStates /\ s.miners = d.miners
      /\ \A a \in ValidatorAddresses : s.candidate[a] \in {d.candidate[a], n, Absent}
  BY <1>1, <1>3, <1>4, CallFacts
<1>6. /\ t \in DbftStates /\ t.candidate = s.candidate /\ t.miners # <<>>
      /\ ~IsElectionBlockNumber(n) => t.miners = d.miners
      /\ \/ t.miners = d.miners
         \/ \A a \in Members(t.miners) : a \in ValidatorAddresses /\ Waited(s, n, a)
  BY <1>3, <1>4, <1>5, ValidatorsAfterFacts
<1>7. kv' = Append(kv, t) /\ written' = Append(written, r)
  BY <1>1
<1> HIDE DEF t, r
<1>8. /\ IsList(kv)' /\ IsList(view)' /\ IsList(written)'
      /\ Len(kv') = n + 1 /\ Len(view') = n + 1 /\ Len(written') = n + 1
      /\ kv'[n + 1] = t /\ view'[n + 1] = v /\ written'[n + 1] = r
      /\ \A i \in 1 .. n : kv'[i] = kv[i] /\ view'[i] = view[i] /\ written'[i] = written[i]
  <2>1. /\ IsList(kv') /\ Len(kv') = n + 1 /\ kv'[n + 1] = t /\ \A i \in 1 .. n : kv'[i] = kv[i]
    BY <1>2, <1>3, <1>7, Appended
  <2>2. /\ IsList(view') /\ Len(view') = n + 1 /\ view'[n + 1] = v /\ \A i \in 1 .. n : view'[i] = view[i]
    BY <1>1, <1>2, <1>3, Appended
  <2>3. /\ IsList(written') /\ Len(written') = n + 1 /\ written'[n + 1] = r
        /\ \A i \in 1 .. n : written'[i] = written[i]
    BY <1>2, <1>3, <1>7, Appended
  <2> QED
    BY <2>1, <2>2, <2>3 DEF IsList
<1>9. StateAfter(n)' = t /\ Row(n)' = r
  BY <1>8 DEF StateAfter, Row
<1>10. \A k \in 0 .. n - 1 : /\ StateAfter(k)' = StateAfter(k)
                             /\ Row(k)' = Row(k)
                             /\ view'[k + 1] = view[k + 1]
  <2> SUFFICES ASSUME NEW k \in 0 .. n - 1
               PROVE  /\ StateAfter(k)' = StateAfter(k) /\ Row(k)' = Row(k)
                      /\ view'[k + 1] = view[k + 1]
    OBVIOUS
  <2>1. k + 1 \in 1 .. n
    BY <1>3
  <2> QED
    BY <1>8, <2>1 DEF StateAfter, Row
<1>11. StateAfter(n - 1)' = d /\ Row(n - 1)' = Row(n - 1)
  <2>1. n - 1 \in 0 .. n - 1
    BY <1>3
  <2> QED
    BY <1>10, <2>1 DEF d
<1>12. ASSUME NEW m \in 0 .. n - 1 PROVE BlockKnown(m)'
  <2>1. BlockKnown(m) /\ m \in Nat
    BY <1>3 DEF ChainKnown
  <2>2. \A k \in 0 .. m : k \in 0 .. n - 1
    BY <1>3, <2>1
  <2> QED
    BY <1>10, <2>1, <2>2, OldKnown
<1>13. t.miners = StateAfter(TermOf(n))'.miners
  <2>1. CASE IsElectionBlockNumber(n)
    BY <1>3, <1>9, <2>1, ElectedBy
  <2>2. CASE ~IsElectionBlockNumber(n)
    <3>1. TermOf(n) = TermOf(n - 1) /\ TermOf(n - 1) \in 0 .. n - 1
      BY <1>3, <2>2, ElectedBy
    <3>2. StateAfter(TermOf(n))' = StateAfter(TermOf(n - 1))
      BY <1>10, <3>1
    <3> QED
      BY <1>4, <1>6, <2>2, <3>2
  <2> QED
    BY <2>1, <2>2
<1>14. SinceThen(n)'
  <2> SUFFICES ASSUME NEW a \in ValidatorAddresses, t.candidate[a] # Absent
               PROVE  /\ t.candidate[a] \in 0 .. n
                      /\ \A k \in t.candidate[a] .. n : StateAfter(k)'.candidate[a] # Absent
    BY <1>9 DEF SinceThen
  <2>1. t.candidate[a] \in {d.candidate[a], n}
    BY <1>5, <1>6
  <2>2. CASE t.candidate[a] = n
    <3>1. \A k \in n .. n : k = n
      BY <1>3
    <3> QED
      BY <1>3, <1>9, <2>2, <3>1
  <2>3. CASE t.candidate[a] = d.candidate[a]
    <3> DEFINE c == d.candidate[a]
    <3>1. c \in 0 .. n - 1 /\ \A k \in c .. n - 1 : StateAfter(k).candidate[a] # Absent
      BY <1>4, <2>3 DEF SinceThen, d
    <3> HIDE DEF c
    <3>2. c \in 0 .. n
      BY <1>3, <3>1
    <3>3. ASSUME NEW k \in c .. n PROVE StateAfter(k)'.candidate[a] # Absent
      <4>1. CASE k = n
        BY <1>9, <4>1
      <4>2. CASE k # n
        <5>1. k \in c .. n - 1 /\ k \in 0 .. n - 1
          BY <1>3, <3>1, <4>2
        <5> QED
          BY <1>10, <3>1, <5>1
      <4> QED
        BY <4>1, <4>2
    <3> QED
      BY <2>3, <3>2, <3>3 DEF c
  <2> QED
    BY <2>1, <2>2, <2>3
<1>15. r # Absent => /\ Row(n - 1) # Absent
                      /\ r = [miners |-> IF IsElectionBlockNumber(n) THEN t.miners ELSE <<>>,
                              totalView |-> Row(n - 1).totalView + Cost(v)]
  BY DEF r, AddHeader
<1>16. RowNamesElected(n)'
  BY <1>9, <1>15 DEF RowNamesElected, IsElectionBlockNumber
<1>17. TotalUp(n)'
  BY <1>8, <1>9, <1>11, <1>15 DEF TotalUp
<1>18. WaitedFor(n)'
  <2>1. CASE t.miners = d.miners
    BY <1>9, <1>11, <2>1 DEF WaitedFor
  <2>2. CASE \A a \in Members(t.miners) : a \in ValidatorAddresses /\ Waited(s, n, a)
    <3> SUFFICES ASSUME NEW a \in Members(t.miners), NEW k \in 0 .. n, n - k <= MinWaitBlocksToMiner
                 PROVE  StateAfter(k)'.candidate[a] # Absent
      BY <1>9 DEF WaitedFor
    <3> DEFINE c == t.candidate[a]
    <3>1. a \in ValidatorAddresses /\ c # Absent /\ n - c >= MinWaitBlocksToMiner
      BY <1>6, <2>2 DEF Waited
    <3>2. c \in 0 .. n /\ \A j \in c .. n : StateAfter(j)'.candidate[a] # Absent
      BY <1>9, <1>14, <3>1 DEF SinceThen
    <3> HIDE DEF c
    <3>3. MinWaitBlocksToMiner \in Nat
      BY ValidatorsAssumption
    <3>4. k \in c .. n
      BY <1>3, <3>1, <3>2, <3>3
    <3> QED
      BY <3>2, <3>4
  <2> QED
    BY <1>6, <2>1, <2>2
<1>19. BlockKnown(n)'
  BY <1>6, <1>9, <1>13, <1>14, <1>16, <1>17, <1>18 DEF BlockKnown
<1>20. Numbers' = 0 .. n /\ \A m \in 0 .. n : m = n \/ m \in 0 .. n - 1
  BY <1>3, <1>8 DEF Numbers, Number
<1> QED
  BY <1>3, <1>8, <1>12, <1>19, <1>20 DEF ChainKnown

\* What nodes ask for follows from what is known of the blocks.
LEMMA KnownSuffices == ASSUME ChainKnown PROVE ValidatorsKnown
<1>1. Number \in Nat /\ Numbers = 0 .. Number
  <2>1. Len(kv) \in Nat /\ Len(kv) # 0
    BY Appended DEF ChainKnown
  <2> QED
    BY <2>1 DEF Number, Numbers
<1>2. \A n \in 0 .. Number : BlockKnown(n)
  BY <1>1 DEF ChainKnown
<1>3. ListsAgree
  <2> SUFFICES ASSUME NEW n \in 0 .. Number, Row(ElectionOf(n)) # Absent
               PROVE  GetNextMiners(n) = GetMiners(n)
    BY DEF ListsAgree, IsMiner, GetMiners
  <2> DEFINE e == TermOf(n)
  <2>1. ElectionOf(n) = e /\ e \in 0 .. n /\ IsElectionBlockNumber(e)
    BY ElectedBy
  <2>2. e \in 0 .. Number
    BY <1>1, <2>1
  <2>3. Row(e).miners = StateAfter(e).miners
    BY <1>2, <2>1, <2>2 DEF BlockKnown, RowNamesElected
  <2>4. StateAfter(n).miners = StateAfter(e).miners
    BY <1>2 DEF BlockKnown
  <2> QED
    BY <2>1, <2>3, <2>4 DEF GetNextMiners, GetMiners
<1>4. \A n \in 1 .. Number : n \in 0 .. Number /\ n # 0
  BY <1>1
<1>5. TotalsAddUp
  BY <1>2, <1>4 DEF TotalsAddUp, BlockKnown, TotalUp
<1>6. ValidatorsWaited
  BY <1>2, <1>4 DEF ValidatorsWaited, BlockKnown, WaitedFor
<1> QED
  BY <1>3, <1>5, <1>6 DEF ValidatorsKnown

\* By the list that the state of a block names a node verifies the next block, whatever was
\* elected, missed or lost; whoever an election puts on the list had waited, and the list is
\* never empty (dbft_chain/context.ts, header_storage.ts).
THEOREM ValidatorsStayKnown ==
    ValidatorsSpec => []ValidatorsKnown
<1>1. ValidatorsInit => ChainKnown
  BY GenesisKnown
<1>2. ChainKnown /\ [ValidatorsNext]_(dbftVars) => ChainKnown'
  <2>1. ASSUME ChainKnown, UNCHANGED dbftVars PROVE ChainKnown'
    BY <2>1 DEF dbftVars, ChainKnown, IsList, Numbers, Number, BlockKnown, SinceThen,
                RowNamesElected, TotalUp, WaitedFor, StateAfter, Row
  <2> QED
    BY <2>1, NextKnown
<1>3. ChainKnown => ValidatorsKnown
  BY KnownSuffices
<1> QED
  BY <1>1, <1>2, <1>3, PTL DEF ValidatorsSpec
=============================================================================
