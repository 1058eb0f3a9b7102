# A verification of chainsdk

chainsdk is a TypeScript SDK for block chains: a chain core (headers, blocks,
snapshots of the state, synchronisation between peers, pending transactions,
miners) and three consensus engines on top of it, dBFT, DPOS and POW.  This
directory holds TLA+ models of that code, the TLC instances that check them and
proofs that TLAPS checks.  Paths below are under `src/src/core`.

## The system

| Component | State it keeps | Operations | Hard part |
|---|---|---|---|
| dBFT consensus node (`dbft_chain/consensus_node.ts`) | tip, view, state with a context (block, signatures), votes for views, one timer | `updateTip`, `newProposal`, `agreeProposal`, three messages, the timeout | messages of other views and heights, a timer that must always be set, restarts |
| dBFT miner (`dbft_chain/miner.ts`, `chain/miner.ts`) | the routine that owns the miner, blocks waiting for signatures | create, execute and mine a block; cancel | what is read before an `await` and used after it |
| dBFT context and header storage | elected validators, total views per header | turns, elections, agree rate | the height whose election counts |
| Chain (`chain/chain.ts`) | tip, state per connection, queues of headers and blocks | `_addHeaders`, `_addBlock`, `_addVerifiedBlock`, errors of connections | one queue fed by callbacks, failures half way |
| Chain node (`chain/chain_node.ts`) | requested headers and blocks per connection, windows, block cache | requests, answers, timeouts, removal of connections | answers that race timeouts and lost connections |
| Header storage (`block/header_storage.ts`) | headers, the best chain, two caches | `saveHeader`, `changeBest`, `updateVerified` | database transactions and caches that must agree |
| Pending transactions (`chain/pending.ts`) | queue and orphans per nonce, nonces on the tip | `addTransaction`, `updateTipBlock`, timeouts | nonce gaps, replacement, limits |
| Snapshots (`storage/*snapshot*`, `storage/storage_manager.ts`) | snapshots, references, views | `createSnapshot`, `getSnapshotView`, `releaseSnapshotView`, `recycle` | references and redo logs used by concurrent readers |
| Storage (`storage_sqlite`, `storage_json`, `storage/logger.ts`) | values, hashes and lists, in a table or a tree; redo log | list and hash operations, transactions, replay | indexes of list elements, handles opened in a transaction |
| Executor (`executor/*`, `value_chain/*`) | balances, nonces, receipts | execute a block | rollback of a failed transaction |
| Routines (`chain/*routine*.ts`, `chain/miner.ts`, `lib/workpool.ts`) | who owns the miner, a storage and perhaps a child process per routine | create, execute, cancel, mine | a new tip at every await |
| Network (`block/network.ts`, `block/node_storage.ts`, `net/*`) | connections, bans, known peers, streams | dial, greet, ban, send | dials in both directions at once, pieces of any length |
| DPOS (`dpos_chain`) | stakes, votes, candidates, bans, rows of elected miners | vote, ban, elect, mine in turn | branches with different miners |
| POW (`pow_chain`) | the target in every header | retarget, check, mine | windows on other branches, compact numbers |

How they interact: the chain node raises `headers` and `blocks` events that the
chain queues; the chain asks the node for more; the chain emits `tipBlock`, on
which the miner looks up validators and total view and hands the tip to the
consensus node; the consensus node raises `createBlock`, `verifyBlock` and
`mineBlock`, on which the miner works and finally gives a block back to the
chain.  Everything runs in one JavaScript thread per process: what interleaves
are the pieces of handlers between two `await`s, and the processes.

## Modules

| Module | Models |
|---|---|
| `DbftTerm`, `DbftContext` | the pure functions of `dbft_chain/context.ts` (which blocks elect, in `DbftTerm`) and the validators of a height (`header_storage.ts`) |
| `DbftConsensus` | consensus node, miner and the tip of the chain of every node, their messages, clocks and restarts |
| `BlockTree` | abstract: the tree of certified blocks and the chains that climb it |
| `DbftElection` | candidates, elections and the table of headers along one dBFT chain |
| `PendingTransactions` | the pool of `chain/pending.ts`, with the overrides of `value_chain/pending.ts` |
| `Snapshots` | the storage manager with its two snapshot managers, and the chain, pool and readers that use them |
| `KeyValueOps`, `KeyValue` | every operation of a key value in both engines, transactions, handles, the redo log and its replay |
| `HeaderStorage` | the tables and caches of `block/header_storage.ts` and `tx_storage.ts`, the lock, `changeBest` |
| `LRUCache` | `lib/LRUCache.ts` with its pointers |
| `ChainSync` | how `chain_node.ts` and `chain.ts` fetch and add headers and blocks |
| `ValueExecutor` | one block of a value chain on a storage |
| `BlockRoutines` | routines that mine and verify blocks, in this process or a child |
| `ElectionTerm` | the length of a term, which every election and node reads |
| `DposElection`, `DposChain` | what blocks do to the key value of a DPOS chain; miners that extend and exchange blocks |
| `PowChain` | targets along the branches of a POW chain |
| `NodeConnections` | dialing, versions, bans and the store of peers |
| `PackageStream` | one direction of a connection, from writers to packages |
| `DbftConsensus_proofs`, `PendingTransactions_proofs`, `Snapshots_proofs`, `ChainSync_proofs`, `Chains_proofs`, `NodeParts_proofs` | theorems |
| `Selections` | what a loop that filters an array makes (`Those`), for `ChainSync`, `DposElection` and `DbftElection` |
| `DataFacts`, `FoldKeeps` | lemmas about sums over finite sets and filtered sequences, and about folds over sequences |
| `MCDbftConsensus`, `MCPendingTransactions`, `MCSnapshots`, `MCChainSync` | instances for TLC |
| `MCNodeParts` | one instance each of `KeyValue`, `HeaderStorage`, `LRUCache`, `NodeConnections`, `PackageStream` |
| `MCChains` | `DposElection`, `DposChain`, `ValueExecutor`, `DbftElection` and `BlockRoutines`, with an instance of `PowChain` |

`MCNodeParts` and `MCChains` run several parts after each other: the initial state
chooses the part, the variables of the others never change.  They are one run
each because they ask one kind of question of many small machines; nothing is
composed in them.  What is composed is in the modules: `DbftElection` and
`DbftContext` share `DbftTerm`, `DbftConsensus` implements `BlockTree`, `Snapshots` and `ChainSync`
contain the components that call each other, and `HeaderStorage` the part of the
chain that drives it.

A definition whose comment begins with "Mutant" is not part of a model: it is a
form of the definition behind it with a plausible bug, under which the property
named in `PROJECT.json` must fail.

### Where things can go wrong

What makes each component correct, and the properties that say so.

| Component | Correct when | Properties |
|---|---|---|
| dBFT | one proposal per view and tip, one view per mined block, a mined block verifies everywhere, a running validator always has a timer, and blocks keep being made | `OneProposalPerView`, `MinedBlocksVerify`, `TimerArmed`, `BlocksGetMined`, `TreeSpec` |
| dBFT elections | state and table of headers name the same validators, totals add up, whoever is elected has waited | `ValidatorsKnown` |
| Pending transactions | what the miner takes executes on the tip, the nonce in memory is that of the queue, nothing accepted is lost without a reason, the pool is bounded | `QueueExecutable`, `NonceInMemory`, `ReplacedStaysInPlace`, `PoolBounded`, `NothingVanishes` |
| Snapshots | a view shows the blocks up to its own and no other, nothing is recycled under a view and nothing kept without one, every release answers an acquisition | `ReadableViews`, `UsersCounted`, `ViewComplete` |
| Chain and chain node | requests, windows and sources agree and nothing waits without a reason to be looked at again; the tip is the highest verified chain; the sync ends, and caught up | `RequestsKept`, `TipVerified`, `SyncedCaughtUp`, `SyncEnds` |
| Header storage | the best chain is a path by parents with its transactions, caches never run ahead of the tables, the lock always comes back | `BestViewsAgree`, `CacheNotAhead`, `AddEnds` |
| Storage | both engines answer and hold the same | `EnginesAgree` |
| Executor | no coins from nothing; a failed transaction leaves its cost and nonce and no more | `CoinsKept`, `ReceiptsHold` |
| Routines | only an undisturbed routine mines, the holder of the miner is at work, one process per storage | `RoutinesSettle` |
| Network | connections, map and peers agree in the end; who is banned for ever stays out; packages come out whole and in order | `ConnectionsAgree`, `BannedOut`, `PackagesInOrder` |
| DPOS | votes are the stakes behind them, bans hold, the list of miners is in office, no miner stops, turns are taken in order | `VotesAddUp`, `BanHolds`, `MinersInOffice`, `MinersGoOn`, `TurnsTaken` |
| POW | every node that may ask gets the same target, within bounds, and reads back what it wrote | `DifficultyAgreed` |
| Library | a cache nobody removes keys from never throws | `NoThrow` |

### DbftConsensus

`node[i]` is the record of `DbftConsensusNode`: `state` is `m_state`, `view` is
`m_currView`, `changeView` is `m_changeView` (0: no entry), `timer` the deadline
of `m_timer`; `block`, `signs` and `expectView` are the fields of the context of
the current state (`preSigns` and `signs` are both `signs`).  `miner[i]` is the
miner with the part of its chain that matters to consensus: `routine` is the
block whose routine owns the miner (`m_stateContext.name`), `jobs` are handlers
suspended at an `await` (`decorate`, `propose`, `execute`, `snapshot`),
`miningBlocks` is `m_miningBlocks`, `chainTip` the tip of the chain,
`tipUpdates` the lookups `_updateTip` started, `stored` the verified blocks and
`rows` the blocks with a row in the `miners` table.  A block is its index in
`headers`; `net[i][j]` is the connection from i to j, which keeps order.

One action is one JavaScript turn: from an event to the first `await`.  A timer
carries a deadline, as in `_nextTimeout`, in units of `blockInterval` after the
genesis block; `Tick` moves clocks, by different amounts if `MaxSkew` allows, and
nobody has to react before the clock moves on except nodes outside `Laggards`.

| Action | Code |
|---|---|
| `OnTimeoutCreate`, `OnTimeoutChangeView` | `_onTimeout`, both branches, then `_resetTimer` |
| `OnChangeView`, `OnPrepareRequest`, `OnPrepareResponse` (in `Receive`) | the `pkg` handler and the three `_on...` methods |
| `UpdateTip` | `DbftMiner._updateTip` after its awaits, `updateTip`, `_cancel` |
| `CreateBlock`, `NewProposal`, `Execute`, `AddMinedBlock` | the stages of `_createBlock` and of the routine's `next` |
| `AddBlock` | the chain verifies a block of a peer |
| `Crash` | the process restarts with what is on disk |
| `Tick`, `Lose` | time; a broken connection |

Left out: contents of blocks, transactions, how connections are made, invalid
messages (a signature that does not verify is dropped by the code at once).

#### Its runs

| Run | Instance | Shows |
|---|---|---|
| `DbftFaults` | 2 of 3 validators, clocks apart, early timers, failing executions, a restart, a lost message | `TypeOK`, `OneProposalPerView`, `TimerArmed` |
| `DbftElections` | every block elects, n3 leaves with block 1, two heights, n2 and n3 meet only over n1, a restart, a lost message | `MinedBlocksVerify`, refinement of `BlockTree` |
| `DbftProgress` | 2 of 3, fairness, three heights | `BlocksGetMined` |
| `DbftFork` | 3 validators in a line | `NoFork` is violated |

Bounds.  Three validators with an agree rate of two thirds are the smallest set
in which one may be missing, and in which two quorums share a single node; two
views let a view be left and entered late; that more views change nothing is what
the theorems say.  The clock
ends one interval after the last deadline of the views allowed.  Behaviours end at
these bounds, so the runs do not check for deadlock.

Fairness (`FairSpec`).  A running process handles events, and time goes on.  The
timers are real time, so progress needs executions and messages that are faster
than the block interval: in `DbftProgress` no node is in `Laggards`, and the
clock waits for them.

What the violation shows.  Nothing locks a node on a block it signed.  A node whose two companions cannot see each other collects signatures
for the block of view 0 while the others go on to view 1 and certify a second
block of that height.  `chain.ts` of the dBFT chain switches fork snapshots off
with the comment "won't fork".  In longer behaviours the block that was not on a node's chain has
no row in the `miners` table (`addHeader` needs its parent's row and the error is
overwritten in `_addVerifiedBlock`), so a node that later adopts a chain over it
keeps its consensus on an older tip for good.

#### Its proofs

`DbftConsensus_proofs` proves, for any set of nodes, validator lists, connections,
bounds, lost messages, restarts, clock skew and failures: type correctness,
`OneProposalPerView`, `TimerArmed`, `MinedBlocksVerify`, and that the
consensus implements `BlockTree` (`TreeSpec`).

The argument of the first three is about time.  `ResetTimer` lets a node wait for the moment of its
proposal only while that moment is ahead of its clock; it proposes when the
moment has come; the clock never goes back, not over a restart.  So a node in
`waitingCreate` has not proposed in that view over that tip (`NotProposedYet`),
and every header was made after its moment (`ProposalsInTime`).  `OneProposalPerView`
alone is not inductive: it is these two facts that carry it.

`MinedBlocksVerify` and the refinement have an invariant of their own (`CInv`), about
certificates, that uses the first one.  A block carries its proof with it from the vote to
the disk: a node that collects signatures has only those of validators of its tip
(`NodeCert`), the handlers that store or mine a block hold one with enough of them
(`MinerCert`), and numbers grow by one from parent to child (`Numbered`).  The difficult
state is the one of a node that changes its tip while a proposal is executed: its
context is that of the old tip and must not count for the new one.  A mined block has
its certificate (`Proved`).  Each step then adds certified blocks to the tree and moves
tips upwards, or changes nothing the tree shows (`Climbs`); a new tip is certified
because the parent of every block anybody works on is a tip that was.

The assumptions are those the modules name: `ContextAssumption`, `ConsensusAssumption`,
and `PowersOfTwo`, facts of arithmetic about 2^v that the provers do not know and TLC
evaluates.  Only model-checked: `BlocksGetMined` (liveness).

### DbftElection

`kv` is the key value `dbft` after each block (`candidate`, `miners`), `written` the table
`miners` of the header storage.  A block is one step: its transactions
(`RegisterAsCandidate`, `UnRegisterAsCandidate`), the election after it
(`UpdateMiners`), and its row (`AddHeader`), which a failure or a crash before
`_onVerifiedBlock` may leave out (`MaxLosses`).  In `Chains`: three addresses, an
election every second block, a wait of two blocks, lists of one to two, views 0
and 1, four blocks, one row lost.

### PendingTransactions

`transactions`, `orphanTx`, `mapNonce`, `balance`, `queueOpt` and `txRecord` are
the members of the same names; a map that may lack a key is a function on part
of the addresses.  `adding` is `m_currAdding` with the place in `_addTx` where the
handler waits: `storageNonce`, `nonce`, `check`, `added` and `scan` are its awaits,
`next` the turn between two operations.  `adding.got` is the answer that is under
way, read when the question was put; if `updateTipBlock` releases the view before
the answer is there, `adding.released` says so and the answer may be an error.
`tip` is the ledger of the chain, `view` the one the pool reads.  `ValueChain`
chooses between the class and its subclass, whose `onCheck`, `onAddedTx`,
`addToQueue`, `checkSmallNonceTx` and `updateTipBlock` differ.

| Action | Code |
|---|---|
| `AddTransaction` | `addTransaction` and `addPendingOpt` up to its first await |
| `UpdateTipBlock`, `SnapshotView`, `SnapshotViewFails` | `updateTipBlock` before and after its await |
| `StorageNonce`, `Nonce`, `Check`, `Added`, `ScanOrphan` | `_addTx` after each of its awaits |
| `NextOpt` | the next operation of `addPendingOpt` |
| `Tick` | `Date.now()`; time-outs are looked at, no timer runs |

| Run | Instance | Shows |
|---|---|---|
| `Pending` | both classes: two transactions of one nonce and a successor without values; three nonces of one address and a second one that pays more with values; time-outs, two tips, a limit of two | `TypeOK`, `QueueExecutable`, `NonceInMemory`, `ReplacedStaysInPlace`, `PoolBounded`, `NothingVanishes` |
| `PendingRivals` | value chain, two transactions of one nonce | `QueueExecutable` is violated |

Bounds.  Two nonces of one address, one of them twice, give a gap, an orphan, a
replacement and a successor behind it, three a longer queue of orphans; the second address is there for the order by fee.  Two
changes of the tip let one arrive while the operation of the other still waits,
and a tip may go back to the genesis block, as on a change of branch.  A clock of
0 and 1 with a live time of 1 makes a transaction expire.

What the violation shows.  `addToQueue` of the value chain looks for the place of a
replacement by its fee and keeps overwriting the place, so the replacement may
end behind its successor, and the block the miner builds from the queue fails as
a whole.

### Snapshots

`snap[b]` gathers what the three managers know of a block: `file` is its database
in the dump directory, as the sequence of blocks whose effects are in it; `ref` is
the count in `m_snapshots` (`Unlisted`: no entry); `view` is the entry in `m_views`
with its `users` (`ref` there), the stage of `getSnapshot` it is in, and, while it is
rebuilt, where the search is (`at`) and the redo logs to apply (`todo`); `closing`
counts released views whose `uninit` has not ended.  `logs` are the redo logs on
disk.  `wait` and `held` are the views tasks wait for and readers have; `chain` is
the one task of `chain.ts`, with the views in `m_refSnapshots` (`refs`) and that of
the pending transactions.  The chain has one branch, and a block is its height.

| Action | Code |
|---|---|
| `Check`, `UseFile`, `Walk`, `Copy`, `Redo`, `Built`, `BuildFails`, `InitFails` | `getSnapshot` of the log snapshot manager, from await to await |
| `Open`, `OpenFails` | the `init` event in `_getSnapshotStorage` |
| `Closed` | `releaseSnapshotView` after `uninit` |
| `Ask`, `Receive`, `EndRead`, `ReadFails` | `executeViewMethod` |
| `LoadGenesis`, `VerifyBlock`, `CopyStorage`, `AddVerifiedBlock`, `MorkView`, `RecycleSnapshots`, `UpdatePending`, `AnnounceTip`, `ChainFails` | the chain from the start of the node to the next tip |
| `MineSameBlock` | the miner's `createSnapshot` for a block that came from a peer first |
| `Crash` | the process ends; `init` lists every file |

| Run | Instance | Shows |
|---|---|---|
| `SnapViews` | two readers, three blocks, fork snapshots, the miner, failures, a restart | `TypeOK`, `ReadableViews`, `UsersCounted` (references, `RefsAgree`, and users, `ViewsCounted`), `ViewComplete` |
| `SnapRedo` | one reader, three blocks | `ViewExact` is violated |

Bounds.  Rebuilding one block from another that is itself being rebuilt takes
two old blocks and a tip, so three blocks; the fork point is two below the tip
with a depth of one.  Two readers are one rebuild in front of another.  `MaxClosing`
bounds how many storages of one snapshot may be closing when a reader asks for it
again; the chain's own releases come on top of that.

`createSnapshot` gives a block that has a snapshot a fresh entry with no references.
The miner does that to a block the chain got from a peer while it was being mined
(`MineSameBlock`); `again` marks such a block, for which `RefsAgree` and
`ReadableViews` promise less.

`partial` follows a file that a rebuild may not finish: that of a copy whose storage does not open, one that
is recycled or left by a restart while logs are still applied to it, and whatever was copied from such a file or executed on
it.  The code has no such mark.  The search for the nearest snapshot takes any file that exists, and `init` lists every file,
so a view may be opened on a state that lacks blocks (`RebuiltFromWhole`, see Deviations);
`ViewComplete` says that this is the only way to get one.

What the violation shows.  References and users are kept well, also by the chain
with all its ways out.  What a rebuild puts into a file is another matter: the
target is pushed on `blockPath` before the loop and in its first turn, so its redo
log is applied twice.

### KeyValueOps and KeyValue

`KeyValueOps` has the operations as functions of what one key holds: for a table, as
the SQL statements each method runs, one after the other and each with its way to
fail (`Exec`); for a tree, as the code of the JSON storage.  `KeyValue` makes both
engines do the same calls at once: `live` per engine, with the tree kept by an open
transaction (`saved`) and by the caller's handle (`held`), and `replica`, what the redo
log written so far replays to, with the block of JavaScript the handle is declared
in (`scope`).

| Action | Code |
|---|---|
| `Use` | any method of a key value, through `_wrapKeyvalue` |
| `BeginTransaction`, `CommitTransaction`, `RollbackTransaction` | the transactions of both engines and `TransactionLogger` |
| `GetReadWritableKeyValue` | a new handle and its declaration in the log |

`EnginesAgree` says that both hold the same contents and answer alike.  In `NodeParts`: one key
used as a value, an object or a list of up to three elements, two values, two
fields, indexes from 0 to the length, ranges from either end.  With `KeepHandles`
FALSE, handles are not used after the transaction they were opened in nor over a
rollback; with TRUE it fails, and so does `RedoSame`: that a replay of the redo log ends, with the same contents (Deviations).

### HeaderStorage

`db` is the three tables, `undo` what they were before the open transaction, `byHash`
and `byHeight` the caches, `adder` the one block `chain.ts` adds and the statements it
has still to run (`todo`), `rolling` a rollback that nobody waited for.  All callers share
one connection, so what others write while the transaction is open is in it.

| Action | Code |
|---|---|
| `LoadHash`, `LoadHeight`, `LoadLatest`, `LoadRange` | `_loadHeader`, `getHeader`, with what they put into the caches |
| `SaveHeader` | `saveHeader` |
| `AddBlock`, `Verdict` | `_addBlock` and what follows the execution of the block: `updateVerified` or `changeBest` |
| `Database` | the next statement: an `UPDATE` of one header, or `BEGIN`, one of `ChangeBestOps`, `COMMIT` or `ROLLBACK`; a statement between `BEGIN` and the end may fail |

Five headers on two branches of two blocks, one of which does not verify, the same transactions in
different order on the branches, and one failing statement.  `AddEnds` needs that
statements end (weak fairness of `Database` and `Verdict` in `PartsSpec`): SQLite answers, and the
lock is first come, first served.

### LRUCache

The list with its pointers (`link`) and the map, because no operation resets
the pointers of a node it unlinks and `removeTail` leaves the map's entry.  Of a key it matters only
which node the map has for it (`mapped`).  With three places, five nodes and five uses of keys that have a
node, an entry whose node fell out of the list is used again, its node unlinked a second time, and the
full list takes another insert, and is asked for a third: at these very bounds a cache whose keys are
removed does throw.
`NoThrow` says that `removeTail` finds a tail whenever the list counts as full, for a cache nobody
removes keys from since it was empty (`removed` is a history of that): the records of the pool
(`pending.ts:87`) and the miners of headers (`dbft_chain/header_storage.ts:56`) are such caches.  The two of
`block/header_storage.ts` are not, and may throw (`NeverThrows`, Deviations).

### ChainSync

`node` has the members of `ChainNode` (requested headers and blocks per connection,
windows, sources, blocks that wait for a window), `chain` those of `Chain` (a record
per connection, the queues of headers and blocks, the one being worked on, the tip,
what is verified), `wire` the connections with the packages on them, `peerBest` the
tip of each peer.  A peer answers by the same code and adopts what it has; a handler runs
to its first await at once.

| Action | Code |
|---|---|
| `Outbound`, `Inbound` | a connection opens; `_beginSyncWithConnection` |
| `PeerAdopts` | a peer has a new tip and announces it |
| `PeerResponds`, `ReceiveHeaders`, `ReceiveBlock` (`Deliver`) | the `pkg` handlers of both sides |
| `AddHeaders`, `HeadersVerified` | `_addHeaders` before and after its await |
| `AddBlock`, `BlockVerified`, `BlockRefused`, `StoredBlock` | `_addBlock` around the execution |
| `ConnectionError`, `ReceiveMalformed`, `HeadersTimeout`, `BlockTimeout`, `BlockFailed` (`Fault`) | the ways out |

| Run | Instance | Shows |
|---|---|---|
| `Sync` | two peers on two branches that part at height one, one branch does not execute, one fault, fair | `RequestsKept`, `TipVerified`, `SyncedCaughtUp`, `SyncEnds` |
| `SyncBan` | one peer with up to four blocks | `HonestNotBanned` is violated |

Bounds.  A window of one block and answers of two headers make every queue have
somebody waiting with three blocks; a fault is one of the five above.  Fairness (`FairSpec`): the event loop
goes on while a connection can be made, a package is on its way or a handler has work left;
no peer owes a new tip and no fault has to happen.
`SyncEnds` is promised only without a fault or a ban, because the code retries no
request of an initial sync by itself.

What the violation shows.  When the sync with a connection begins anew,
`lastRecvHeader` of the former one stays.  The block of that header then completes
the sync, and the answer to the request that is still out is taken for something
nobody asked for.

### ValueExecutor

One block, from the wage to the events after the transactions.  `trees` and `root` are
the storage; a handle is an index, so that a rollback that puts another tree in its
place (JSON) can be told from one that restores the rows (SQLite).  `running` is the
listener at work, which is external: it transfers what the system account got,
charges a cost within the fee, and ends with success or not.

| Action | Code |
|---|---|
| `ExecuteMinerWageEvent`, `ExecuteBlockEvent`, `EndEvent` | wage and events |
| `ExecuteTransaction`, `NotEnough`, `WrongNonce` | `execute` of `ValueTransactionExecutor` until the listener |
| `ListenerTransfers`, `ListenerCosts` | `transferTo` and `cost` of the listener's context |
| `EndTransaction`, `EndTransactions` | commit or rollback, the cost, the receipt |

Two users, one of them the coinbase, two transactions of two calls each, amounts
0 to 2 of a balance of 2: a value, a cost and a fee that do not fit together.

### BlockRoutines

`run[r]` is a routine: where its promise is (`at`), whether it was canceled, its child process and
its storage file; `state` and `context` are the miner's, `slot` the worker that looks for a hash.
`taken` is a history: the routines that lost the miner before they were done.

| Action | Code |
|---|---|
| `TakeOver`, `StorageCreated` | `_createExecuteRoutine` before and after its await, `_onCancel` |
| `VerifyBlock` | `verifyBlock` of the chain |
| `Execute`, `Executed` | a routine in this process |
| `ExecuteOrVerify`, `Fork`, `ChildStep`, `Message` | a routine in a child |
| `Push`, `WorkerExits` | `_mineBlock` of a POW miner and the pool |
| `Dumped` | `createSnapshot` and the end of the file |

In `Chains`: three tips, one verification, one fault, both kinds of routines.  Three tips are the
least where a late routine notes itself in the context of a second one and a third
takes over.

### DposElection and DposChain

`DposElection` is the key value `dpos` after each block of one chain: `candidate`
(0, or when a ban ends), `vote`, `stake`, `producers`, `newblocktime` and `miners`.  `Block` is
one transaction (`Mortgage`, `Unmortgage`, `Vote`, `RegisterToCandidate`), then
`AfterBlock`, in the order of `executePostBlockEvent`: time of the producer, unbans, bans, election.
Two voters, three producers, an election every second block, five blocks with
times of one or three between them; a miner is late after three.

`DposChain` has several miners: `clock` (seconds since the genesis block), `mining` and `timerSet` (the timer
and when it was set), `verified`, `tip` and `rows` per node.  `Mine`, `Pass` and `TimerEnds` are
the ends of the handler in `_resetTimer`, `Receive` and `Refuse` the headers of a peer, `Tick` is time; a
crash (`crashes` counts them) is an end of the process between `changeBest` and `_onVerifiedBlock`.
`IndexOf` is `getTimeIndex`, which gives the last `maxBlockIntervalOffset` of an interval the index of the next
one; a block carries its time, and whoever looks at it computes the index.  A timeout is set for the next
boundary (`NextTime`), whatever the index of the block just made; its handler may run `Early`
before that, as timeouts of Node.js do by a little, or at any moment behind it.  Two miners, elections every
second block that choose between two lists, intervals of two with an offset of one, timeouts early by one,
six seconds, one crash: every remainder of a time occurs in three intervals, and blocks follow each other at one index.

### PowChain

`headers` is every header made, `known`, `executed` and `best` are per node.  The
compact form, `Retarget` and `GetTarget` are the functions of
`pow_chain/consensus.ts` with digits to the base `Byte` instead of 256.  `Mine`, `Receive` and
`AddVerifiedBlock` are one header each.  Two nodes, base 4, an interval of three, six
headers with times of -1 or 5 between them, limit 40: targets
are made harder and easier, the limit is met, and branches part before a window.

### NodeConnections

`dials` is every dial with the state of its two ends, `map` is `m_remoteMap`, `known` and
`ban` are the store.  `RandomNodes` dial by `random_outbound_network.ts`, the others as
validators.

| Action | Code |
|---|---|
| `NewOutbounds`, `CheckConnections` | both kinds of networks choose whom to dial |
| `OnInbound`, `OnVersionAck` | the exchange of versions and the choice between two connections |
| `BatchEnds` | `Promise.all` over the dials of a batch |
| `BanConnection`, `OnError`, `Break`, `Tick` | bans, lost connections, time, which counts only while a ban lasts that ends |

The two ends of a dial compare versions on their own.  Of equal timestamps each decides by a random number that
is not sent, so `OnInbound` and `OnVersionAck` take any outcome (`random`).  An end compares a dial once, with what
its map has, and any outcomes belong to some draw, so this is no more than the code can do.

Three nodes, three dials, one fault or ban, bans of one unit and for ever, two timestamps, equal ones
among them: before a fault a pair whose timestamps differ has two dials at most, so two are enough.
`ConnectionsAgree` promises the map of a node for every case and one common connection for pairs without a
tie; with a tie there may be none (`OneSurvivesTies`, Deviations).

### PackageStream

`writers` is the queue with the buffers left of each, `blocked` a socket that has not
drained, `wire` the bytes on their way, `reader` the state machine.  Four packages
with and without body and data; every buffer may fill the socket and every piece
may end anywhere.

## Proofs

A theorem holds for every value of the constants that the named assumptions of its
module allow: any number of nodes, transactions, readers, users, blocks and faults.
TLC evaluates the assumptions in every run.  Every inductive invariant was checked by TLC on
an instance before it was proved.

| Component | Assumption | Theorems |
|---|---|---|
| `DbftConsensus` | `ContextAssumption`, `ConsensusAssumption`, `PowersOfTwo` | `TypeCorrect`, `OneProposal`, `Armed`, `MinedVerify`, `TreeImplemented` |
| `PendingTransactions` | `PendingAssumption` | `TypesHold`, `PlacesHold`, `QueueExecutes`, `NoncesHold`, `PlainQueueExecutes`, `NothingIsLost`, `PoolStaysBounded` |
| `Snapshots` | `SnapshotsAssumption` | `TypesHold`, `CountsHold`, `ReadersHaveFiles`, `ViewsComplete` |
| `HeaderStorage` | `HeadersAssumption` | `BestViewsKept`, `CachesBehind` |
| `LRUCache` | `CacheAssumption` | `CachesServe` |
| `NodeConnections` | `ConnectionsAssumption` | `ConnectionsStayAgreed`, `WhoIsBannedStaysOut` |
| `PackageStream` | `StreamAssumption` | `PackagesComeInOrder` |
| `DbftElection` | `ValidatorsAssumption`, `TermAssumption` | `ValidatorsStayKnown` |
| `DposElection` | `ElectionAssumption`, `TermAssumption` | `VotesAreStakes`, `BansEndInTime`, `MinersAreInOffice` |
| `DposChain` | `IntervalAssumption`, `TermAssumption` | `TurnsHold`, `TimersGoOn` |
| `ValueExecutor` | `ValueAssumption` | `CoinsAreKept`, `ReceiptsAreTrue` |
| `BlockRoutines` | `Names` | `RoutinesSafe` |
| `ChainSync` | `SyncAssumption` | `TipHolds`, `RequestsStay` |

`DbftConsensus_proofs` is described with `DbftConsensus`.

### The pool

`TInv` is the types and what they rest on.  `OnReplace` writes into `transactions` at a
place it found before an await, so the place must still be there (`ReplacedStaysInPlace`):
while an addition waits, nothing else takes transactions out, because every change goes through
`queueOpt`.  The answer of a view that was released meanwhile (`ReleasedBeforeReset`) can
only be late while the change of the tip waits in front of `queueOpt`, so no nonce of an old
view survives the reset behind it.

`NInv` is about nonces: until the reset, the transactions of an address have consecutive
nonces, the first one the next after the view's, and `mapNonce` holds the last.
`QueueExecutes` and `NoncesHold` assume `[]NoRival`: no operation of the value chain waits,
after it has checked a transaction, to replace one of the same nonce.  That is the
case in which `PendingRivals` shows the queue broken; the pool without values does not
wait there, so `PlainQueueExecutes` has no such hypothesis.

`NothingIsLost` is a property of steps: a transaction that was accepted is in the queue,
among the orphans or under way (`Somewhere`), and a step takes it from there only by a
time-out, another transaction of its nonce, a ledger that already has its nonce, a balance that
does not cover it or a read of a released view (`MayGo`).

`PoolStaysBounded` counts: transactions, orphans, the operations that wait and the
one under way never exceed the limit and one together, the one because the check comes before the addition.  Only `addTransaction` makes the count
larger and it looks first; everything after an await moves one transaction from one
place to another.  It needs finitely many addresses.

### Snapshots

`IInv` says, for every block, that the file, the entry and the view agree at every step of a view
that is being made (`EntriesKept`), which of the chain's handlers holds what (`ChainPlaced`), that a reader waits for one
view at most (`OneViewEach`), that only open views are held (`HeldAreOpen`), and that
the count of users of a view is the number of those who hold it (`CountsAgree`).  The last one is
`UsersCounted`; `ReadableViews` follows from all of them, because a file is removed only where the
count and the entry allow it.  A count is a cardinality over the readers, so they are finitely many.

`ViewComplete` needs more about files than that the open ones are complete.  `FInv` says what a file
will be: while it is built, its content followed by the logs still to be applied has every block in order, and otherwise
it has them itself (`FileFilled`); the storage of the block under execution is that of its parent (`StorageFilled`).  A
redo moves a block from the second half to the first (`RedoneSame`), a copy of a complete file and the path of
logs above it add up to the target (`PathCompletes`; the target twice, which the order allows and `ViewExact` does not),
and the block that was executed is the next one (`NextCompletes`).

### DPOS

`VotesAddUp` says that the votes of a candidate are the sum of the stakes of its voters, a
sum over a set that the prover cannot compute.  `EInv` states it for the table itself;
each operation moves the part of one voter and leaves the others (`DataFacts`).
`BanHolds` is an action property: a ban ends when its time has come and not
before, whatever the producer registers or is elected to meanwhile.

`MinersInOffice` is about lists that a loop filters, a sort by votes orders and a slice cuts.  `InOffice`
says of the list that it is not empty and has nobody twice, with its reason: the genesis miners are such a
list, the elected are chosen from a set of producers without repetition, and where fewer than
`minCreateor` are left, the old list is filled up with those not in it.  The sort is specified by what it
returns, and `Those` is a fold, so `DataFacts` gets from `FoldKeeps` that it keeps the
order, loses nobody it should keep and repeats nobody.  A `maxCreateor` of 0 would elect nobody and end the chain; the assumption
excludes it, and a minimum above the maximum.

For the chain, `ChainsKept` says of every node's best chain that its blocks are in turn, each
made by the miner that was due at its index, and that nobody has a block made after it last set its timer; it
gives `TurnsTaken` wherever nodes crashed and however late or early the timeouts end.  Two facts about time carry
it: the index never goes down (`IndexGrows`), and a handler runs only if one more timeout could have ended since the
timer was set (`FiresLater`), where two fall to each boundary: at it, and `Early` before it.  `TimersGoOn` is its own
invariant: without a crash, the table of miners has the row a node needs for the next block.

### dBFT elections

`ValidatorsStayKnown` is `ValidatorsKnown` for any addresses, calls and views, any length of a term, any wait and bounds of
the list, and any rows that are lost.  `ChainKnown` says of every block of the chain (`BlockKnown`): its list of
validators is that of the block whose election governs it (`TermOf`), which makes the row of that block the one to
read; a row names its block's own list if the block elects; and a candidate has been one, without a break,
since the height that its entry gives (`SinceThen`), which is what makes the wait of an election a statement about
all blocks between.  What is known of a block stays known (`OldKnown`), so only the new one must be looked at.  `Terms` has
the arithmetic, for this chain and DPOS.  `ValidatorsAssumption` asks for a genesis validator and a `minValidator`
of at least 1, which no code checks: with 0, an election without candidates empties the list.  TLC checked `ChainKnown`
on the part of `Chains` with five blocks (1,421,341 states) before it was proved.

### Value chain

`CoinsAreKept`: the balances of all users and of the coinbase add up to the
balances at genesis and the wages issued, in every tree including the one a rollback would
restore.  It holds for either storage.  `ReceiptsAreTrue`, that nonces and costs are what the receipts
say, is proved for a storage whose rollback restores the tree under open handles
(`~RollbackReplacesTree`); for the other one, `CostsPaid` fails (see Deviations).
Amounts are natural numbers, which the code leaves to the handlers and to those who send transactions.

`DataFacts` has the lemmas both components need of `MapThenSumSet`: a sum over a finite set
is a number, grows by what one element gains, and is unchanged where no summand is.
They are proved by a set of least size for which they fail, since the library's induction
takes an operator, which the installed provers cannot instantiate.  `Chains_proofs`
has the theorems of this component, of both kinds of elections and of the next one.

### Routines

`Chains_proofs` proves `RoutinesSettle` for any number of tips, of verified
blocks and of faults (`RoutinesSafe`).  The module's assumption `Names` says that names of routines are different
and none of them is `Null`; the code makes them of a hash and a time, so two of the same
millisecond are the case left out.  The argument is about names: whoever loses the
miner is in `taken` for good and a name holds the miner once, so `CheckCancel`
never takes a routine that lost it for the holder (`TakenOnce`).  A child is alive only
while its routine waits for its message, and routines close their storage
before that (`ChildAwaited`).  `RoutinesSettle` alone is not inductive, because a
routine that has not begun could be canceled or taken already.  Steps fall into three kinds, each
with a lemma of its own: a routine moves on while the miner stays whose it was
(`MoveKeepsInv`), a routine is done with the miner (`DoneKeepsInv`), and those that
change hands (`TakeOverKeepsInv` and parts of `AnsweredKeepsInv` and `PushKeepsInv`).
TLC checked the invariant `IInv` on three tips, a verification and two faults (603,198
states) before it was proved.

### Synchronisation

`TipHolds` is `TipVerified` for any number of peers, any finite tree of blocks, any
window and limit.  `SyncAssumption` says what a tree is (every set of blocks has one whose parent is
outside it), that a peer's id `network^peerid` is neither a network's name nor a peerid, that
`undefined` is not a record, and that `confirmDepth` is not 0: the chain would ask for the header above its tip.

The tip alone is not inductive.  `IInv` adds what the chain relies on when it comes back from an await:
the block under execution is stored, known, not judged yet and has a verified parent (`Executable`); who is known
has a known parent and who is verified a verified and stored one (`Linked`, `Grounded`,
`VerifiedStored`); no verified block is above the tip (`Highest`); the headers being saved are those at
the front of their queue (`StepReady`).  Between them run the handlers that request, time out and lose
connections; what they need for themselves is `Tidy`: whatever waits to be added is stored, and
who was asked for a block has a record.  `KeepsGood` says that whoever keeps types and
`Tidy` and touches neither the tree nor the work under way (`Same`) keeps the whole, so each helper has one lemma
`... => Keeps(w, v)` and each action only the step of the tree it makes.

Two things had to be proved that are about data.  `Path`, the recursive way from the genesis to a block,
exists because the parent relation is well-founded (`Way`).  Every loop of the code is a fold over a
sequence (the requests of a list of headers, the blocks freed by a window, the syncs that
continue); `FoldKeeps` proves once, by a least counterexample, that a fold keeps what its step keeps.
Its step and statement are CONSTANTS, since the provers cannot instantiate an operator that
is a parameter of a lemma, and `ChainSync_proofs` instantiates it once for each loop.  `Those` filters with such a fold
instead of `SelectSeq`, which is RECURSIVE.

`RequestsStay` is `RequestsKept`, which is not inductive either.  A pending block needs a source that owes
an answer, and it is put there when the window of a source is closed; but a window of 0 is closed for somebody
who owes nothing.  `RInv` adds that it never gets there: a window starts above 0, is only halved while
its connection owes a block (`HalvedServed`, and then the connection is banned with its requests kept), and
grows with every block (`TakenAgrees`).  Between the block that was taken and the
requests its free window makes, `PendingDriven` is broken: what waits may wait for that connection
alone.  `FreeWindowServed` shows that `_onFreeBlockWnd` asks for the first such block whatever the window is, which
is what makes the code right.  `requestBlocks` chooses the blocks to ask for before it asks for the first,
so a list with a block twice would ask for it twice: `StepDistinct` says the list has no doubles, because the numbers
of headers grow along a package (`SegmentDistinct`) and those to request are known ones and then absent ones (`VerifyFacts`).
What only closes connections or asks for headers is `Steady`, and one lemma serves all of it.

TLC checked `IInv` and `RInv` on the instance of `Sync` (58,681 states), and `RInv` on one with a window
of 2 and two peers that know every block (2,076,416 states), before they were proved.

### Headers and caches

`NodeParts_proofs` has the theorems of this section and the next two.  `BestViewsKept` is `BestViewsAgree` for every tree of
headers, `CachesBehind` is `CacheNotAhead`.  `HeadersAssumption` says that every block descends
from the genesis block and that no valid chain has a transaction twice, which the nonces see to.
`Height`, `HeadersTo` and `ChainOf` are recursive functions over the tree; that they exist and are what
they should be follows from the tree being well-founded.

`HeadersInv` has a part for each thing that must not go wrong half way.  A transaction is open exactly while the
one block that is added runs its statements or a rollback is under way (`OpenInv`).
A verdict in the tables tells of the whole chain below it (`SoundInv`).  What is committed lists the chain of the
tip and its transactions (`BestInv`).  The heart is `ChangeInv`: while a transaction is open, the tables are what the first k
of the planned statements made of the committed ones, and `todo` is the rest of the plan.  `changeBest` plans 2n + 3 of
them for a branch of n new headers: the rows of the old branch leave the transaction view and those of the new one enter it,
the verdict is written, then the heights above the fork are deleted and set again.  After k of them the view is that of
`TxsAt` and the list by height that of `BestAt`, so the commit yields the chain of the new tip; the rollback yields that
of the old one.  `CleanInv` is what holds without a failing
statement: a verified header has a verified parent, and no cache is ahead of the tables.

`CachesServe` is `NoThrow` for any limit, any number of nodes and any uses.  Pointers lead to nodes of keys only, and as long as no key was
removed every node but the head has a `prev`, stale or not (`Listed`); so what `removeTail` unlinks leaves a tail behind
unless it was the last node counted.

### Connections

`ConnectionsStayAgreed` is `ConnectionsAgree` and `WhoIsBannedStaysOut` is `BannedOut`, for any nodes, dials, timestamps, faults and bans.
A tie of timestamps may go either way at each end (`Kept`), so the promise of one connection is for pairs whose timestamps differ,
whatever ties other pairs have; that of the map holds with ties.
The first half of `ConnectionsAgree` needs `Mapped`: the map of a node has a connection of its lists for a peer whenever there is
one, and that one only.  The second half is about two nodes that compare versions on their own, at different moments,
and its invariant is `Calm`, which holds until something breaks or is banned: between two nodes whose dials have different
times (`Untied`) there is one dial at most in each direction, and no answer before the far end has decided (`AckedDecided`); of two dials the one that loses the comparison is gone at an end only if the far end
of the one that beats it is up, and nobody gives up the one that wins.  `BannedOut` holds of every step (`KeepsOut`) without an
invariant: `isBan` never drops a ban without an end.

### Packages

`PackagesComeInOrder` is `PackagesInOrder` for any packages with bodies and data of any length, any cut of the
buffers by the socket and any cut of the bytes into pieces.  `StreamInv` says that the bytes of the packages taken, those
pending at the reader, those on the wire and those still in the writers are, one after the other, the bytes of the packages
added (`InRow`): sending moves the border between the last two (`SendLoop`), arrival that between wire and reader.  The reader's
`while` loop is a fold over as many turns as it may need; that these are enough is proved by a
potential, `Turns`, that every turn makes smaller, and `Waits` says that the loop stops only when bytes are missing.  Both
loops are instances of `FoldKeeps`.

### Only model-checked

| Property | Why |
|---|---|
| `BlocksGetMined`, `SyncEnds`, `AddEnds` | liveness under fairness, out of the prover's reach |
| `EnginesAgree` | what folds over logs and statements compute: two folds must be related, for which `FoldKeeps` has no statement |
| `DifficultyAgreed` | recursive averages over a window of headers |
| `SyncedCaughtUp` | holds of the first peer only: with more initial peers one that is synced may announce before the others are, so no state says where its last header is |

## Deviations

Where the code does not do what it says, besides `DbftFork`, `PendingRivals`,
`SnapRedo` and `SyncBan`.  A property named here is stated in its module and TLC refutes it in
an instance that differs from a run by what the table says.

| Property | Instance | What happens |
|---|---|---|
| `TipGainsWork` | `DbftElections` | two lookups of `DbftMiner._updateTip` end in reverse order and the consensus node goes back to an older tip; the TODO in `updateTip` (`consensus_node.ts:161`) asks for the comparison that is missing |
| `BalanceInPending` | `Pending` | `updateTipBlock` of the value chain clears the balances before it awaits the new view; a transaction added in that gap is subtracted twice (`value_chain/pending.ts:53`) |
| `NonceInMemory` | `PendingRivals` | `onAddedTx` of the value chain does not hand the replaced transaction on (`value_chain/pending.ts:49`), so a replacement of nonce 0 sets the nonce in memory back to 0 while nonce 1 is in the queue |
| `NonceOnChain` | `Pending` | `getNonce` answers with the nonce in memory, where `doc/ref_client.md:57` promises that of the chain |
| `RebuiltFromWhole` | `Snapshots`, four blocks, two readers | the search for the nearest snapshot takes the file of a rebuild that is under way (`log_snapshot_manager.ts:174`) |
| `RebuiltFromWhole` | the same, one reader and one restart | a restart cuts a rebuild short, and `init` lists its file (`log_snapshot_manager.ts:63`) |
| `RebuiltFromWhole` | the same, one reader and `IOErrors` | the copy of the nearest snapshot cannot be opened and is left under the hash of the target (`log_snapshot_manager.ts:207`) |
| `ListedWhenUsed` | the same, one reader | the chain recycles a snapshot between the awaited check for its file and the use of its entry; `log_snapshot_manager.ts:154` asserts the entry |
| `ReferencedWhenReleased` | the same, one reader, `SharedMining` and `MaxClosing` 2 | a snapshot made again has no references while its view is open; `log_snapshot_manager.ts:243` asserts one |
| `PushAccepted` | `KeyValue` in `NodeParts` | after two `rpush`, a row is visited before the one it must make room for, so `lpush` and `lpushx` of the SQLite storage fail on the unique index; `doc/ref_context.md:163` promises them |
| `EnginesAgree`, `RedoSame` | the same, `KeepHandles` TRUE | a JSON rollback replaces the tree under an open handle; a handle opened in a transaction is unknown to a replay after it, which throws |
| `CacheFresh` | `HeaderStorage` in `NodeParts` | a header read between its removal from the cache and the `UPDATE` is cached with the old state for good (`header_storage.ts:319`) |
| `BestIsChain` without `faults = 0` | the same | a verdict whose `UPDATE` failed leaves a block on the best chain that is not marked as verified |
| `ValuesBounded` | `LRUCache` in `NodeParts` | `removeTail` leaves the map's entry, so the cache never forgets a value |
| `NeverThrows` | the same | a key used again after it was the tail leaves a stale `prev`, so that the list has a cycle; the removal of a key can then leave no tail under a count above 0, and the next `set` of a full cache reads a property of `null` (`LRUCache.ts:92`).  The caches of `block/header_storage.ts` are of this kind: `:319`, `:320` and `:383` remove keys |
| `LostForgotten` | `Sync` | `error` names a peer with its network, `ban` without, while the maps of `chain_node.ts` use full names: a lost or banned peer keeps its request, and a later connection gets `ALREADY_EXIST` (comment at `chain_node.ts:614`) |
| `SyncEnds` | `Sync` with two initial peers, or with an invalid block on the only branch | the states of headers are read before an await (`chain.ts:944`) and a last header verified meanwhile is requested in vain; a refused block ends nothing |
| `OneBlockPerTurn` | `DposChain` in `Chains` | a handler that runs late in the last `maxBlockIntervalOffset` of an interval, or a timeout that ends early, makes a block of the next index; the timer is then set for the boundary (`dpos_chain/miner.ts:130`), where the same miner is due again and makes another block.  The comment at `consensus.ts:9` gives the next interval to the next node |
| `LongerChainWins` | the same | an election block that never was the tip has no row of miners, so a longer branch over it is refused and its peer banned; the comment at `dpos_chain/chain.ts:207` prefers the longer chain |
| `MinersGoOn` without `crashes = 0` | the same | after a crash between `changeBest` and `_onVerifiedBlock` (its error is overwritten as well, `chain.ts:1197`) the timer of the miner ends for good |
| `CostsPaid` | `ValueExecutor` in `Chains`, `RollbackReplacesTree` TRUE | over a JSON storage (the debugger's) the cost of a failed transaction is written to the tree that the rollback left |
| `Len(miners)` between the options | `DbftElection` in `Chains`, three to three validators and four addresses | `slice(maxValidator)` (`context.ts:214`) keeps what is behind the first `maxValidator`, so the list may be longer than the maximum or shorter than the minimum of `doc/tool_host.md:284` |
| a header mined by an honest node is accepted | `PowChain` in `Chains`, seven headers | the start of the window is looked up by height in the best chain (`pow_chain/consensus.ts:169`); a node on another branch asks another target and bans the peer |
| nobody in `unserved` | `BlockRoutines` in `Chains` | a worker that is stopped has not exited yet, or a routine that lost the miner has pushed its header first, when the next header is pushed; the error of `push` is not read (`workpool.ts:32`), and the miner waits until another miner's block |
| nobody in `thrown` | the same | a storage that is ready after the miner was given back throws (`chain/miner.ts:216`) and leaves its file |
| `BannedUntilEnd` | `NodeConnections` in `NodeParts` | `isBan` (`node_storage.ts:126`) compares the wrong way round: a ban with an end does not hold, and holds after it; the comment at `:14` calls it the time the ban ends |
| `OneSurvivesTies` | the same | two nodes dial each other with one timestamp: `compare` (`version.ts:28`) decides by `m_random`, which `encode` does not send and which each end draws for itself, so each may close what the other keeps, and both connections are gone.  `:30` repeats the comparison of `:28`, so that the answer never is -1 there |
| `NobodyStranded` | the same, two nodes, two outbound connections wanted | a node that knows fewer peers than it wants connections, and finds no other to add, dials none of them (`random_outbound_network.ts:108`) |

What reading the code shows beside that, at places the models take as they are:

- SQLite: `hclean` (`storage_sqlite/storage.ts:200`) and `toJsonStorage` (`:639`) run malformed statements
  and always fail.
- `HeaderStorage`: a `BEGIN` or `ROLLBACK` that fails keeps the lock for ever; `saveHeader` runs inside
  whatever transaction is open and is rolled back with it, though it reported success.
- `chain_node.ts`: time-outs compare seconds with 10000 and 30000; a catch-up of a chain that is still
  syncing announces no tip (`chain.ts:1102`).
- DPOS: `minCreateor` and `maxCreateor` (`consensus.ts:282`) are not the options of `doc/tool_host.md:210`, so
  all voted candidates become miners.  A genesis miner that never was a candidate is one after its ban.
- POW: `targetTimespa` (`consensus.ts:136`) makes the upper limit of a timespan `NaN`, so there is none; the
  window spans two steps less than the interval; timestamps are not checked.
- dBFT: the error of an election with too few candidates is ignored, which keeps the list.
- Routines: nobody listens for the end of a child (`interprocess_routine.ts:391`), so one that dies leaves
  its routine waiting; the storage of a verified block stays until the next start (`chain.ts:1094`).
- Network: `outbound` is emitted after all dials of a batch have ended, so one that gets no
  answer holds back the others.
- Streams: an error state of the reader is overwritten by the next body (`reader.ts:67`).
- Value chain: listener filters are asynchronous, so always true (`handler.ts:71`).

## Plan

All components with logic of their own have a module.  Next:

| What | Where |
|---|---|
| `ChainSync` over `HeaderStorage` instead of an atomic tree of headers | refinement of the tree by `Committed` and `tip` |
| two miners of `BlockRoutines` whose mined blocks enter one `Snapshots` | composition |

## Not modelled

Encodings, hashes and signatures (`block/*`, `lib/*` but the cache and the lock): pure
functions whose only control is to refuse what does not parse; models treat a
hash as the thing itself and a bad signature as a message that is not there.
Views of the executor read one snapshot and change nothing.
BDT, a vendor's library, and the standalone node, which sends nothing.  The client
(`src/client`): commands.  `chain_creator.ts` and `chain_debuger.ts`: wiring and replay.
Contracts under `demo` and `test` are users of the SDK.

In the modules: `ChainSync` has no packages of transactions, no redo logs with blocks, one network, no
mined blocks, headers whose parents are known when they are saved; `KeyValue` no
index out of range and no range from before the first element; `ValueExecutor` no negative values and no
genesis listener; `NodeConnections` no peer of another chain; `DposElection` takes the shuffle for any
permutation; `DposChain` has one clock.
