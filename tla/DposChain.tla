------------------------------ MODULE DposChain ------------------------------
(***************************************************************************)
(* dpos_chain/chain.ts, block.ts and miner.ts: several miners that extend  *)
(* and exchange the blocks of one DPOS chain.  A block is the sequence of  *)
(* the entries of its ancestors and its own; the genesis block is <<>>.    *)
(* What an election decides (DposElection) is any list of Lists here, and  *)
(* how blocks travel (ChainSync) is one step per block here.               *)
(***************************************************************************)
EXTENDS ElectionTerm, Sequences, FiniteSets

CONSTANTS
    Nodes,              \* the miners
    GenesisMiners,      \* the list of the genesis block
    Lists,              \* the lists an election may shuffle to
    BlockInterval, MaxBlockIntervalOffset,
    Early,              \* by how much a timeout may end before its time
    MaxClock,           \* bound on the time since the genesis block
    Faults              \* bound on the crashes between changeBest and _onVerifiedBlock

\* "maxBlockIntervalOffset ... usually 1" (doc/tool_host.md:218) of an interval of 10; a timeout
\* that ends early does so within that offset.
ASSUME IntervalAssumption ==
    /\ BlockInterval \in Nat \ {0}
    /\ MaxBlockIntervalOffset \in 0 .. BlockInterval - 1
    /\ Early \in 0 .. MaxBlockIntervalOffset

VARIABLES
    clock,      \* the time since the genesis block
    timerSet,   \* when a node set its timer
    mining,     \* whether its timer is set
    verified,   \* the blocks it has verified
    tip,        \* its best block
    rows,       \* the blocks with a row in its table of miners
    banned,     \* the peers it has banned
    crashes

chainVars == <<clock, timerSet, mining, verified, tip, rows, banned, crashes>>

Genesis == <<>>

DposInit ==
    /\ clock = 0
    /\ timerSet = [n \in Nodes |-> 0]
    /\ mining = [n \in Nodes |-> TRUE]
    /\ verified = [n \in Nodes |-> {Genesis}]
    /\ tip = [n \in Nodes |-> Genesis]
    /\ rows = [n \in Nodes |-> {Genesis}]
    /\ banned = [n \in Nodes |-> {}]
    /\ crashes = 0

-----------------------------------------------------------------------------
\* Math.trunc of a quotient
Intervals(time) == IF time < 0 THEN -((-time) \div BlockInterval) ELSE time \div BlockInterval

\* The index of a time: close to the end of an interval it is the next one already.
IndexOf(time) ==
    LET src == Intervals(time)
        min == Intervals(time - MaxBlockIntervalOffset)
        max == Intervals(time + MaxBlockIntervalOffset)
    IN  IF src # min THEN src ELSE max

Timestamp(b) == IF b = Genesis THEN 0 ELSE b[Len(b)].timestamp

TimeIndex(b) == IndexOf(Timestamp(b))

\* The election block of the next block on b (getElectionBlockNumber of its number).
ElectionBlock(b) == SubSeq(b, 1, (Len(b) \div ReSelectionBlocks) * ReSelectionBlocks)

Elects(number) == number % ReSelectionBlocks = 0

ListOf(b) == IF b = Genesis THEN GenesisMiners ELSE b[Len(b)].list

\* getMiners of the next block on b: whether the table has the row of its election block
MinersKnown(n, b) == ElectionBlock(b) \in rows[n]

\* Who is due at an index, which must not be 0.
DueMiner(b, index) ==
    LET list == ListOf(ElectionBlock(b))
    IN  list[((index - TimeIndex(ElectionBlock(b))) % Len(list)) + 1]

\* _compareWork(b, c) > 0
MoreWork(b, c) == Len(b) > Len(c) \/ (Len(b) = Len(c) /\ TimeIndex(b) > TimeIndex(c))

\* _addVerifiedBlock: only a new best block reaches _onVerifiedBlock, and not if the node
\* stops first.
AddVerifiedBlock(n, b, crash) ==
    LET best == MoreWork(b, tip[n])
        stores == best /\ Elects(Len(b)) /\ ~crash
    IN  /\ verified' = [verified EXCEPT ![n] = @ \cup {b}]
        /\ tip' = [tip EXCEPT ![n] = IF best THEN b ELSE @]
        /\ rows' = [rows EXCEPT ![n] = IF stores THEN @ \cup {b} ELSE @]

\* A crash is taken with the restart after it: the timer is set anew.
Crash(n, crash) ==
    /\ crashes' = crashes + (IF crash THEN 1 ELSE 0)
    /\ crashes' <= Faults
    /\ mining' = [mining EXCEPT ![n] = @ \/ crash]

-----------------------------------------------------------------------------
Tick ==
    /\ clock < MaxClock
    /\ clock' = clock + 1
    /\ UNCHANGED <<timerSet, mining, verified, tip, rows, banned, crashes>>

\* _nextBlockTimeout at a time: the next boundary of two intervals
NextTime(time) == (time \div BlockInterval + 1) * BlockInterval

\* Mutant: from the first boundary on, the timer does not wait for the next one.
FiresAgain(n) == mining[n] /\ clock >= BlockInterval

\* The handler of the timer may run: at any moment after the boundary, or a little before it,
\* unless the timer was set that late itself.
Fires(n) ==
    LET next == NextTime(timerSet[n])
    IN  /\ mining[n]
        /\ next <= clock \/ (timerSet[n] < next - Early /\ next - Early <= clock)

\* Whether the handler learns who is due.
Decides(n) == IndexOf(clock) # 0 /\ MinersKnown(n, tip[n])

\* _createBlock and _mineBlock on the tip of the moment, then _addVerifiedBlock; then the
\* timer is set anew, whatever the index of the block was.
Mine(n, crash) ==
    /\ Fires(n) /\ Decides(n) /\ DueMiner(tip[n], IndexOf(clock)) = n
    /\ \E list \in IF Elects(Len(tip[n]) + 1) THEN Lists ELSE {<<>>} :
          AddVerifiedBlock(n, Append(tip[n], [timestamp |-> clock, miner |-> n, list |-> list]), crash)
    /\ timerSet' = [timerSet EXCEPT ![n] = clock]
    /\ Crash(n, crash)
    /\ UNCHANGED <<clock, banned>>

\* Another miner is due.
Pass(n) ==
    /\ Fires(n) /\ Decides(n) /\ DueMiner(tip[n], IndexOf(clock)) # n
    /\ timerSet' = [timerSet EXCEPT ![n] = clock]
    /\ UNCHANGED <<clock, mining, verified, tip, rows, banned, crashes>>

\* getDueMiner fails: the handler returns, or its assertion throws, and no timer is set.
TimerEnds(n) ==
    /\ Fires(n) /\ ~Decides(n)
    /\ mining' = [mining EXCEPT ![n] = FALSE]
    /\ UNCHANGED <<clock, timerSet, verified, tip, rows, banned, crashes>>

Connected(n, p) == p # n /\ p \notin banned[n] /\ n \notin banned[p]

\* The first blocks of p's best chain that n has not verified.
Missing(n, p) == {b \in {SubSeq(tip[p], 1, i) : i \in DOMAIN tip[p]} :
    b \notin verified[n] /\ SubSeq(b, 1, Len(b) - 1) \in verified[n]}

\* DposBlockHeader.verify
Verifies(b) ==
    LET parent == SubSeq(b, 1, Len(b) - 1)
    IN  /\ Timestamp(b) >= Timestamp(parent)
        /\ TimeIndex(b) # 0
        /\ DueMiner(parent, TimeIndex(b)) = b[Len(b)].miner

\* Mutant: a header whose miners are not known is taken as it is.
AcceptsUnchecked(n, b) == MinersKnown(n, SubSeq(b, 1, Len(b) - 1)) => Verifies(b)
Accepts(n, b) == MinersKnown(n, SubSeq(b, 1, Len(b) - 1)) /\ Verifies(b)

\* The next block of p's chain reaches n: _verifyAndSaveHeaders, then _addBlock.
Receive(n, p, crash) ==
    /\ Connected(n, p)
    /\ \E b \in Missing(n, p) : Accepts(n, b) /\ AddVerifiedBlock(n, b, crash)
    /\ Crash(n, crash)
    /\ timerSet' = [timerSet EXCEPT ![n] = IF crash THEN clock ELSE @]
    /\ UNCHANGED <<clock, banned>>

\* RESULT_NOT_FOUND or RESULT_INVALID_BLOCK for a header bans its sender.
Refuse(n, p) ==
    /\ Connected(n, p)
    /\ \E b \in Missing(n, p) : ~Accepts(n, b)
    /\ banned' = [banned EXCEPT ![n] = @ \cup {p}]
    /\ UNCHANGED <<clock, timerSet, mining, verified, tip, rows, crashes>>

DposNext ==
    \/ Tick
    \/ \E n \in Nodes : Pass(n) \/ TimerEnds(n) \/ \E crash \in BOOLEAN : Mine(n, crash)
    \/ \E n, p \in Nodes : Refuse(n, p) \/ \E crash \in BOOLEAN : Receive(n, p, crash)

DposSpec == DposInit /\ [][DposNext]_chainVars

-----------------------------------------------------------------------------
\* Without a crash no timer of a miner ends, however the branches it follows fork at their
\* election blocks: the list of miners for the block after the own tip is in its table.
MinersGoOn == crashes = 0 => \A n \in Nodes : mining[n] /\ MinersKnown(n, tip[n])

\* How often a timer that is always set at once could have ended until a time.
Timeouts(time) == time \div BlockInterval + (time + Early) \div BlockInterval

\* Along a chain the index grows, but for the miner whose turn it is: it may make another block
\* of its index, though never without a timeout between the two, and behind an election block
\* another miner may be due at the same index.
TurnsTaken == \A n \in Nodes : \A i \in 1 .. Len(tip[n]) - 1 :
    LET b == tip[n][i]
        c == tip[n][i + 1]
    IN  \/ IndexOf(b.timestamp) < IndexOf(c.timestamp)
        \/ IndexOf(b.timestamp) = IndexOf(c.timestamp) /\ IF b.miner = c.miner
               THEN Timeouts(b.timestamp) < Timeouts(c.timestamp)
               ELSE Elects(i)

\* Refuted (README, Deviations): "if the interval is over and the node has made no block, it is
\* skipped, and the next node makes one" (consensus.ts:9), one block for each turn.
OneBlockPerTurn == \A n \in Nodes : \A i \in 1 .. Len(tip[n]) - 1 :
    IndexOf(tip[n][i].timestamp) < IndexOf(tip[n][i + 1].timestamp) \/ Elects(i)

\* "The longer chain is preferred" (chain.ts:207): no peer is banned for its longer chain.
LongerChainWins == [][\A n, p \in Nodes :
    p \in banned'[n] \ banned[n] => Len(tip[p]) <= Len(tip[n])]_chainVars
=============================================================================
