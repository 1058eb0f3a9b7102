--------------------------- MODULE HeaderStorage ---------------------------
(***************************************************************************)
(* block/header_storage.ts, block/tx_storage.ts and lib/Lock.ts: the       *)
(* headers, the best chain and the transactions of the best chain in one   *)
(* database, the caches over the headers, and the transaction in which a   *)
(* block becomes the tip (changeBest), as chain/chain.ts uses them.        *)
(*                                                                         *)
(* All callers share one connection: each statement is atomic, but the     *)
(* statements of other callers run inside an open transaction.             *)
(***************************************************************************)
EXTENDS Naturals, Sequences, SequencesExt

CONSTANTS
    Blocks, Genesis,
    Parent,     \* the previous block of each block but Genesis
    Txs,        \* the transactions of each block
    Invalid,    \* the blocks that do not verify
    None,
    MaxFaults   \* bound on the statements that fail

Unverified == Blocks \ {Genesis}
Height[b \in Blocks] == IF b = Genesis THEN 0 ELSE Height[Parent[b]] + 1
Heights == {Height[b] : b \in Blocks}

\* getHeader of a block and count blocks before it, the first one first
HeadersTo[b \in Blocks] == [count \in Nat |->
    IF count = 0 \/ b = Genesis THEN <<b>> ELSE Append(HeadersTo[Parent[b]][count - 1], b)]

ChainOf(b) == ToSet(HeadersTo[b][Height[b]])

Tables ==
    [state : [Blocks -> {None, "notVerified", "verified", "invalid"}],
     best : [Heights -> Blocks \cup {None}],
     txview : SUBSET [tx : UNION {Txs[b] : b \in Blocks}, block : Blocks]]

\* Every block descends from the genesis, which verifies and has no transactions.  The nonces make
\* a block that repeats a transaction of its chain invalid (executor/transaction.ts:77).
ASSUME HeadersAssumption ==
    /\ Genesis \in Blocks \ Invalid /\ Invalid \subseteq Blocks
    /\ Parent \in [Unverified -> Blocks]
    /\ \A S \in SUBSET Unverified : S # {} => \E b \in S : Parent[b] \notin S
    /\ Txs[Genesis] = {}
    /\ \A b \in Blocks : ChainOf(b) \cap Invalid = {} =>
           \A c, d \in ChainOf(b) : c # d => Txs[c] \cap Txs[d] = {}
    /\ None \notin Blocks \cup {"notVerified", "verified", "invalid"}
    /\ None \notin Tables
    /\ MaxFaults \in Nat

VARIABLES
    db,         \* the tables headers, best and txview
    undo,       \* the tables before the open transaction; None without one
    byHash,     \* m_cacheHash: the state cached for a block
    byHeight,   \* m_cacheHeight: the block cached for a height
    lock,       \* m_transactionLock
    adder,      \* the one block the chain is adding
    rolling,    \* a ROLLBACK that its caller did not wait for
    tip,        \* the chain's m_tip
    faults

headerVars == <<db, undo, byHash, byHeight, lock, adder, rolling, tip, faults>>

Idle == [pc |-> "idle", block |-> Genesis, todo |-> <<>>]

HeadersInit ==
    /\ db = [state |-> [b \in Blocks |-> IF b = Genesis THEN "verified" ELSE None],
             best |-> [n \in Heights |-> IF n = 0 THEN Genesis ELSE None],
             txview |-> {}]
    /\ undo = None
    /\ byHash = [b \in Blocks |-> None]
    /\ byHeight = [n \in Heights |-> None]
    /\ lock = [busy |-> FALSE, waiting |-> <<>>]
    /\ adder = Idle
    /\ rolling = FALSE
    /\ tip = Genesis
    /\ faults = 0

-----------------------------------------------------------------------------
(* Reading.  A row read is put into the caches in the same step: results    *)
(* arrive in the order of the statements.                                   *)

\* _loadHeader by hash: the state that the caller is told
KnownState(b) == IF byHash[b] # None THEN byHash[b] ELSE db.state[b]
\* and the cache it leaves
CachedHash(bs) == [b \in Blocks |-> IF b \in bs THEN KnownState(b) ELSE byHash[b]]

LoadHash(b) ==
    /\ db.state[b] # None
    /\ byHash' = CachedHash({b})
    /\ UNCHANGED <<db, undo, byHeight, lock, adder, rolling, tip, faults>>

\* _loadHeader by height: a row replaces what was cached for its hash
LoadHeight(n) ==
    /\ byHeight[n] = None
    /\ db.best[n] # None
    /\ byHeight' = [byHeight EXCEPT ![n] = db.best[n]]
    /\ byHash' = [byHash EXCEPT ![db.best[n]] = db.state[db.best[n]]]
    /\ UNCHANGED <<db, undo, lock, adder, rolling, tip, faults>>

\* _loadHeader of 'latest'
TableTip == CHOOSE b \in Blocks :
    \E n \in Heights : db.best[n] = b /\ \A m \in Heights : m > n => db.best[m] = None

LoadLatest ==
    /\ byHash' = [byHash EXCEPT ![TableTip] = db.state[TableTip]]
    /\ UNCHANGED <<db, undo, byHeight, lock, adder, rolling, tip, faults>>

LoadRange(b) ==
    /\ db.state[b] # None
    /\ byHash' = CachedHash(ToSet(HeadersTo[b][2]))
    /\ UNCHANGED <<db, undo, byHeight, lock, adder, rolling, tip, faults>>

-----------------------------------------------------------------------------
(* Single statements.                                                       *)

MayFail == faults < MaxFaults

\* saveHeader of the header that a peer or the miner has for the next block
SaveHeader(b) ==
    /\ db.state[b] = None
    /\ db.state[Parent[b]] # None
    /\ db' = [db EXCEPT !.state[b] = "notVerified"]
    /\ UNCHANGED <<undo, byHash, byHeight, lock, adder, rolling, tip, faults>>

\* getNextHeader
NextHeaders(b) == {c \in Unverified : db.state[c] # None /\ Parent[c] = b}

-----------------------------------------------------------------------------
(* The chain adds one block at a time (_addBlock).                          *)

AddBlock(b) ==
    /\ adder.pc = "idle"
    /\ b \in NextHeaders(Parent[b])
    /\ KnownState(b) = "notVerified" /\ KnownState(Parent[b]) = "verified"
    /\ byHash' = CachedHash({b, Parent[b]})
    /\ adder' = [Idle EXCEPT !.pc = "verify", !.block = b]
    /\ UNCHANGED <<db, undo, byHeight, lock, rolling, tip, faults>>

\* An UPDATE of a row that a rollback took away changes nothing.
WithState(b, state) == [db EXCEPT !.state[b] = IF @ = None THEN None ELSE state]

\* updateVerified drops the block from the caches before its statement runs.
BeginUpdate ==
    /\ adder.pc = "verify"
    /\ adder.block \in Invalid \/ Height[adder.block] <= Height[tip]
    /\ adder' = [adder EXCEPT !.pc = "update"]
    /\ byHash' = [byHash EXCEPT ![adder.block] = None]
    /\ byHeight' = [byHeight EXCEPT ![Height[adder.block]] = None]
    /\ UNCHANGED <<db, undo, lock, rolling, tip, faults>>

Update ==
    /\ adder.pc = "update"
    /\ adder' = Idle
    /\ \/ db' = WithState(adder.block, IF adder.block \in Invalid THEN "invalid" ELSE "verified") /\ UNCHANGED faults
       \/ MayFail /\ faults' = faults + 1 /\ UNCHANGED db
    /\ UNCHANGED <<undo, byHash, byHeight, lock, rolling, tip>>

-----------------------------------------------------------------------------
(* changeBest                                                               *)

OnBest(b) == \E n \in Heights : db.best[n] = b
\* The blocks up to b that are not on the best chain, the first one first.
Branch[b \in Blocks] == IF OnBest(b) THEN <<>> ELSE Append(Branch[Parent[b]], b)

Statement(op, b) == [op |-> op, block |-> b]
Each(op, bs) == [i \in DOMAIN bs |-> Statement(op, bs[i])]

\* Mutant: in the order in which they are written down, without the two reverse() calls.
ChangeBestOpsInWrittenOrder(b) ==
    LET new == Reverse(Append(Branch[Parent[b]], b))
        fork == Parent[new[Len(new)]]
    IN  Each("addTxs", new) \o <<Statement("removeTxs", fork)>>
        \o Each("extendBest", new) \o <<Statement("cutBest", fork), Statement("verified", b)>>
\* Mutant: only the statements on the view are not reversed.
ChangeBestOpsTxsInWrittenOrder(b) ==
    LET new == Append(Branch[Parent[b]], b)
        fork == Parent[new[1]]
    IN  Each("addTxs", Reverse(new)) \o <<Statement("removeTxs", fork)>>
        \o <<Statement("verified", b), Statement("cutBest", fork)>> \o Each("extendBest", new)

\* The statements of changeBest in the order in which they run.
ChangeBestOps(b) ==
    LET new == Append(Branch[Parent[b]], b)
        fork == Parent[new[1]]
    IN  <<Statement("removeTxs", fork)>> \o Each("addTxs", new)
        \o <<Statement("verified", b), Statement("cutBest", fork)>> \o Each("extendBest", new)

\* Lock.enter, and leave, which hands the lock to the first that waits
Enter(l, who) == IF l.busy THEN [l EXCEPT !.waiting = Append(@, who)] ELSE [l EXCEPT !.busy = TRUE]
Leave(l) == IF l.waiting = <<>> THEN [l EXCEPT !.busy = FALSE] ELSE [l EXCEPT !.waiting = Tail(@)]

\* Its statements are fixed before it has the lock, from lookups that the connection runs after
\* a ROLLBACK issued before them.
ChangeBest ==
    /\ adder.pc = "verify"
    /\ ~rolling
    /\ adder.block \notin Invalid /\ Height[adder.block] > Height[tip]
    /\ adder' = [adder EXCEPT !.pc = "begin", !.todo = ChangeBestOps(adder.block)]
    /\ byHash' = CachedHash(ToSet(Branch[Parent[adder.block]]))
    /\ lock' = Enter(lock, "adder")
    /\ UNCHANGED <<db, undo, byHeight, rolling, tip, faults>>

Begin ==
    /\ adder.pc = "begin"
    /\ lock.busy /\ lock.waiting = <<>>
    /\ undo' = db
    /\ adder' = [adder EXCEPT !.pc = "run"]
    /\ UNCHANGED <<db, byHash, byHeight, lock, rolling, tip, faults>>

\* TxStorage.add and remove, and the statements on headers and best
Rows(b) == {[tx |-> t, block |-> b] : t \in Txs[b]}
Possible(s) ==
    CASE s.op = "addTxs" -> \A r \in db.txview : r.tx \notin Txs[s.block]
      [] s.op = "extendBest" -> db.best[Height[s.block]] = None
      [] OTHER -> TRUE
Executed(s) ==
    CASE s.op = "addTxs" -> [db EXCEPT !.txview = @ \cup Rows(s.block)]
      [] s.op = "removeTxs" -> [db EXCEPT !.txview = {r \in @ : Height[r.block] <= Height[s.block]}]
      [] s.op = "verified" -> WithState(s.block, "verified")
      [] s.op = "cutBest" -> [db EXCEPT !.best = [n \in Heights |-> IF n > Height[s.block] THEN None ELSE @[n]]]
      [] OTHER -> [db EXCEPT !.best[Height[s.block]] = s.block]

\* changeBest returns without waiting for the rollback.
Fail ==
    /\ rolling' = TRUE
    /\ adder' = Idle
    /\ UNCHANGED <<db, undo, byHash, byHeight, lock, tip>>

RunStatement ==
    /\ adder.pc = "run"
    /\ adder.todo # <<>>
    /\ \/ /\ Possible(Head(adder.todo))
          /\ db' = Executed(Head(adder.todo))
          /\ adder' = [adder EXCEPT !.todo = Tail(@)]
          /\ UNCHANGED <<undo, byHash, byHeight, lock, rolling, tip, faults>>
       \/ /\ MayFail \/ ~Possible(Head(adder.todo))
          /\ faults' = IF Possible(Head(adder.todo)) THEN faults + 1 ELSE faults
          /\ Fail

\* Mutant: the heights stay cached when the best chain changes.
CommitKeepingHeights ==
    /\ adder.pc = "run"
    /\ adder.todo = <<>>
    /\ \/ /\ undo' = None
          /\ lock' = Leave(lock)
          /\ byHash' = [byHash EXCEPT ![adder.block] = None]
          /\ tip' = adder.block
          /\ adder' = Idle
          /\ UNCHANGED <<db, byHeight, rolling, faults>>
       \/ MayFail /\ faults' = faults + 1 /\ Fail

Commit ==
    /\ adder.pc = "run"
    /\ adder.todo = <<>>
    /\ \/ /\ undo' = None
          /\ lock' = Leave(lock)
          /\ byHash' = [byHash EXCEPT ![adder.block] = None]
          /\ byHeight' = [n \in Heights |-> None]
          /\ tip' = adder.block
          /\ adder' = Idle
          /\ UNCHANGED <<db, rolling, faults>>
       \/ MayFail /\ faults' = faults + 1 /\ Fail

\* Mutant: the lock is left by commits only.
RollbackKeepingLock ==
    /\ rolling
    /\ db' = undo
    /\ undo' = None
    /\ rolling' = FALSE
    /\ UNCHANGED <<byHash, byHeight, lock, adder, tip, faults>>

Rollback ==
    /\ rolling
    /\ db' = undo
    /\ undo' = None
    /\ lock' = Leave(lock)
    /\ rolling' = FALSE
    /\ UNCHANGED <<byHash, byHeight, adder, tip, faults>>

-----------------------------------------------------------------------------
Database == Update \/ Begin \/ RunStatement \/ Commit \/ Rollback
Verdict == ChangeBest \/ BeginUpdate

HeadersNext ==
    \/ \E b \in Unverified : SaveHeader(b) \/ AddBlock(b) \/ LoadRange(b)
    \/ \E b \in Blocks : LoadHash(b)
    \/ \E n \in Heights : LoadHeight(n)
    \/ LoadLatest
    \/ Verdict
    \/ Database

HeadersSpec == HeadersInit /\ [][HeadersNext]_headerVars
FairHeadersSpec == HeadersSpec /\ WF_headerVars(Database \/ Verdict)

-----------------------------------------------------------------------------
Committed == IF undo = None THEN db ELSE undo

\* The committed best chain is the tip and its ancestors, each of them verified, with a block at
\* every height and none above the tip: the statements of changeBest (header_storage.ts:332-356)
\* make it from any fork, and a failure in any of them changes nothing.
BestIsChain ==
    /\ ChainOf(tip) = {Committed.best[n] : n \in Heights} \ {None}
    /\ \A n \in Heights : Committed.best[n] # None => Height[Committed.best[n]] = n
    /\ faults = 0 => \A n \in Heights : Committed.best[n] # None => Committed.state[Committed.best[n]] = "verified"

\* The transaction view (tx_storage.ts) lists the transactions of the best chain, each under the
\* block of that chain, whatever forks were left and taken.
TxViewIsBest == Committed.txview = UNION {Rows(b) : b \in ChainOf(tip)}

\* What the node answers about its best chain, by height and by transaction.
BestViewsAgree == BestIsChain /\ TxViewIsBest

\* As long as no statement failed, the caches never run ahead of the tables: a cached verdict is
\* the one in the table, and between transactions a cached height is on the best chain
\* (the removals at header_storage.ts:319 and 383).
CacheNotAhead == faults = 0 =>
    /\ \A b \in Blocks : byHash[b] \in {"verified", "invalid"} => db.state[b] = byHash[b]
    /\ undo = None => \A n \in Heights : byHeight[n] # None => byHeight[n] = db.best[n]

\* A block that is being added is done with some day: the lock comes back after every commit and
\* every rollback, awaited or not (header_storage.ts:393-401, Lock.ts:39).
AddEnds == adder.pc # "idle" ~> adder.pc = "idle"

\* Refuted (README, Deviations): a cached state is the one in the table.
CacheFresh == \A b \in Blocks : byHash[b] # None => byHash[b] = db.state[b]
=============================================================================
