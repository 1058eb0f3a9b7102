------------------------ MODULE PendingTransactions ------------------------
(***************************************************************************)
(* The pending transactions of a node: chain/pending.ts and, when          *)
(* ValueChain holds, the overrides of value_chain/pending.ts.              *)
(*                                                                         *)
(* Transactions and changes of the tip are queued as operations and        *)
(* carried out one at a time; every nonce and balance the pool needs is    *)
(* awaited, and what it awaits may come from a snapshot that is no longer  *)
(* the tip's.  `adding' is the operation under way and the await it is in. *)
(***************************************************************************)
EXTENDS Integers, Sequences, FiniteSets, SequencesExt

CONSTANTS
    Addresses,
    Txs,              \* records [address, nonce, fee, value]
    GenesisBalance,   \* balance of each address in the genesis block
    ValueChain,       \* TRUE: ValuePendingTransactions
    FeeLimit,         \* the miner's limit on the fees of a block
    MaxPendingCount,  \* m_maxPengdingCount
    TxLiveTime,       \* m_txLiveTime
    RecordTime,       \* how long the hash of a transaction is refused again
    MaxBlocks,        \* bound: changes of the tip
    MaxTime           \* bound: the clock

ASSUME PendingAssumption ==
    /\ Txs \subseteq [address : Addresses, nonce : Nat, fee : Nat, value : Nat]
    /\ GenesisBalance \in [Addresses -> Nat]
    /\ ValueChain \in BOOLEAN
    /\ {FeeLimit, MaxPendingCount, TxLiveTime, RecordTime, MaxBlocks, MaxTime} \subseteq Nat

VARIABLES
    transactions,  \* m_transactions: what the miner takes from, in order
    orphanTx,      \* m_orphanTx: per address, waiting for a smaller nonce
    mapNonce,      \* m_mapNonce: last nonce in the queue; a partial function
    balance,       \* m_balance: what the queue leaves; a partial function
    queueOpt,      \* m_queueOpt
    adding,        \* m_currAdding, with what its handler is waiting for
    txRecord,      \* m_txRecord: when a transaction was last offered
    view,          \* m_storageView: nonces and balances the pool reads
    tip,           \* nonces and balances on the tip of the chain
    updating,      \* updateTipBlock waits for its snapshot view
    blocks,        \* changes of the tip so far
    now            \* Date.now()

poolVars == <<transactions, orphanTx, mapNonce, balance>>
chainVars == <<view, tip, updating, blocks>>
vars == <<poolVars, queueOpt, adding, txRecord, chainVars, now>>

-----------------------------------------------------------------------------
(* Ledgers: the nonces and balances of a block's storage.                  *)

TotalUse(tx) == tx.value + tx.fee

Genesis == [nonce |-> [a \in Addresses |-> -1], balance |-> GenesisBalance]

\* The nonce of an address after the first k of txs: that of its last one.
NonceAfter(nonces, txs, k, a) ==
    LET own == {j \in 1 .. k : txs[j].address = a}
    IN  IF own = {} THEN nonces[a] ELSE txs[Max(own)].nonce

\* Every transaction has the nonce that follows; one that has not makes the
\* whole block fail.
DealNonce(nonces, txs) ==
    \A k \in DOMAIN txs : txs[k].nonce = NonceAfter(nonces, txs, k - 1, txs[k].address) + 1

\* A transaction the balance does not cover has a receipt and leaves it alone.
ExecuteTransaction(balances, tx) ==
    LET left == balances[tx.address] - TotalUse(tx)
    IN  [balances EXCEPT ![tx.address] = IF left < 0 THEN @ ELSE left]

\* The nonces are used up even so.
ExecuteBlock(ledger, txs) ==
    [nonce   |-> [a \in Addresses |-> NonceAfter(ledger.nonce, txs, Len(txs), a)],
     balance |-> FoldLeft(ExecuteTransaction, ledger.balance, txs)]

-----------------------------------------------------------------------------
(* Helpers on the pool.                                                    *)

\* map.set(k, v)
Put(map, k, v) == [x \in DOMAIN map \cup {k} |-> IF x = k THEN v ELSE map[x]]

IsTimeout(txTime) == now >= txTime.ct + TxLiveTime

CheckSmallNonceTx(txNew, txOld) == ValueChain /\ txNew.fee > txOld.fee

MayReplace(txTime, txOld) == IsTimeout(txOld) \/ CheckSmallNonceTx(txTime.tx, txOld.tx)

SameNonce(s, tx) ==
    {k \in DOMAIN s : s[k].tx.address = tx.address /\ s[k].tx.nonce = tx.nonce}

GetPendingCount ==
    LET lengths == [a \in Addresses |-> Len(orphanTx[a])]
    IN  Len(transactions) + SumFunction(lengths)

IsExist(tx) ==
    \/ \E k \in DOMAIN transactions : transactions[k].tx = tx
    \/ \E k \in DOMAIN orphanTx[tx.address] : orphanTx[tx.address][k].tx = tx

\* getNonce: from memory, or else from the storage.
GetNonce(a) == IF a \in DOMAIN mapNonce THEN mapNonce[a] ELSE view.nonce[a]

GetBalance(a) == IF a \in DOMAIN balance THEN balance[a] ELSE view.balance[a]

\* Mutant: the fee also decides between transactions of one address.
FeeFirstPosition(s, tx) ==
    IF s = <<>> THEN 1 ELSE IF s[Len(s)].tx.fee < tx.fee THEN Len(s) ELSE Len(s) + 1

\* The loop of ValuePendingTransactions overwrites the position at every
\* element, so the last element decides.
ValuePosition(s, tx) ==
    LET last == s[Len(s)].tx
        before == IF last.address = tx.address THEN last.nonce >= tx.nonce
                                               ELSE last.fee < tx.fee
    IN  IF s = <<>> THEN 1 ELSE IF before THEN Len(s) ELSE Len(s) + 1

\* Mutant: the index of the replaced element is forgotten.
AppendToQueue(txTime, at) ==
    Append(IF at = 0 THEN transactions ELSE RemoveAt(transactions, at), txTime)

\* The queue with txTime, which replaces the element at index `at' unless 0.
AddToQueue(txTime, at) ==
    LET rest == IF at = 0 THEN transactions ELSE RemoveAt(transactions, at)
        position == IF ValueChain THEN ValuePosition(rest, txTime.tx)
                    ELSE IF at = 0 THEN Len(rest) + 1 ELSE at
    IN  InsertAt(rest, position, txTime)

AddToOrphanMayNonceExist(l, txTime) ==
    LET same  == SameNonce(l, txTime.tx)
        above == {k \in DOMAIN l : l[k].tx.nonce > txTime.tx.nonce}
    IN  IF same # {}
        THEN [k \in DOMAIN l |->
                 IF k \in same /\ MayReplace(txTime, l[k]) THEN txTime ELSE l[k]]
        ELSE InsertAt(l, Min(above \cup {Len(l) + 1}), txTime)

\* The longest prefix of the queue whose fees stay within maxFee.
PopTransactionWithFee(maxFee) ==
    LET fees(n) == SumFunction([k \in 1 .. n |-> transactions[k].tx.fee])
        fits    == {0} \cup {n \in 1 .. Len(transactions) : fees(n) <= maxFee}
    IN  [k \in 1 .. Max(fits) |-> transactions[k].tx]

-----------------------------------------------------------------------------
(* The operations.                                                         *)

UpdateTip == [type |-> "updateTip"]
AddTx(txTime) == [type |-> "addTx", txTime |-> txTime]

Idle == [pc |-> "idle"]

\* The handler of txTime waits at pc for a value it has asked for; `reading':
\* from the storage, `released': whose view was released in the meantime.
Await(pc, txTime, got, reading) ==
    [pc |-> pc, txTime |-> txTime, at |-> 0, use |-> 0,
     got |-> got, reading |-> reading, released |-> FALSE]

\* The operation is over; the loop goes on in a later turn.
Done == [adding EXCEPT !.pc = "next", !.reading = FALSE, !.released = FALSE]

\* _addTx up to its first await, with the storage v.
StartAddTx(txTime, v) ==
    IF IsTimeout(txTime) THEN Await("next", txTime, 0, FALSE)
    ELSE Await("storageNonce", txTime, v.nonce[txTime.tx.address], TRUE)

\* Mutant: the last transaction of the queue is left behind.
AllButLastAgain == [k \in 1 .. Len(transactions) - 1 |-> AddTx(transactions[k])]

\* What updateTip puts in front of all operations.
AllAgain == [k \in DOMAIN transactions |-> AddTx(transactions[k])]

\* Mutant: updateTip keeps the nonces in memory.
StaleRunQueue(q, v) ==
    LET reset == q # <<>> /\ Head(q) = UpdateTip
        rest  == IF reset THEN AllAgain \o Tail(q) ELSE q
    IN  /\ transactions' = IF reset THEN <<>> ELSE transactions
        /\ queueOpt' = IF rest = <<>> THEN <<>> ELSE Tail(rest)
        /\ adding' = IF rest = <<>> THEN Idle ELSE StartAddTx(Head(rest).txTime, v)
        /\ UNCHANGED mapNonce

\* The loop of addPendingOpt over the operations q, with the storage v.
RunQueue(q, v) ==
    LET reset == q # <<>> /\ Head(q) = UpdateTip
        rest  == IF reset THEN AllAgain \o Tail(q) ELSE q
    IN  /\ transactions' = IF reset THEN <<>> ELSE transactions
        /\ mapNonce' = IF reset THEN <<>> ELSE mapNonce
        /\ queueOpt' = IF rest = <<>> THEN <<>> ELSE Tail(rest)
        /\ adding' = IF rest = <<>> THEN Idle ELSE StartAddTx(Head(rest).txTime, v)

\* Mutant: a change of the tip waits behind the transactions.
UpdateTipLast(q) == Append(q, UpdateTip)

\* updateTip goes to the front and takes the place of one still there.
UpdateTipFirst(q) ==
    <<UpdateTip>> \o (IF q # <<>> /\ Head(q) = UpdateTip THEN Tail(q) ELSE q)

\* addPendingOpt, once the operations are q: a loop that is running goes on.
RunUnlessBusy(q, v) ==
    IF adding = Idle THEN RunQueue(q, v)
    ELSE queueOpt' = q /\ UNCHANGED <<transactions, mapNonce, adding>>

-----------------------------------------------------------------------------
(* Calls from outside.                                                     *)

\* Mutant: what waits to be added is not counted.
HasRoomInPool == GetPendingCount < MaxPendingCount

HasRoom == GetPendingCount + Len(queueOpt) < MaxPendingCount

AddTransaction(tx) ==
    /\ HasRoom
    /\ tx \in DOMAIN txRecord => now - txRecord[tx] >= RecordTime
    /\ txRecord' = Put(txRecord, tx, now)
    /\ IF IsExist(tx) THEN UNCHANGED <<transactions, mapNonce, queueOpt, adding>>
       ELSE RunUnlessBusy(Append(queueOpt, AddTx([tx |-> tx, ct |-> now])), view)
    /\ UNCHANGED <<orphanTx, balance, chainVars, now>>

\* The blocks that may come next: of a peer, of this node's miner, or none
\* when the chain goes over to a branch that has no transaction yet.
NextLedgers ==
    LET candidates == {<<tx>> : tx \in Txs} \cup {PopTransactionWithFee(FeeLimit)}
        right      == {txs \in candidates : DealNonce(tip.nonce, txs)}
    IN  {ExecuteBlock(tip, txs) : txs \in right} \cup {Genesis}

\* The chain has a new tip and calls updateTipBlock, one tip at a time.
UpdateTipBlock ==
    /\ ~updating
    /\ blocks < MaxBlocks
    /\ tip' \in NextLedgers
    /\ updating' = TRUE
    /\ blocks' = blocks + 1
    /\ balance' = IF ValueChain THEN <<>> ELSE balance
    /\ UNCHANGED <<transactions, orphanTx, mapNonce, queueOpt, adding, txRecord, view, now>>

\* Mutant: the queue is emptied at once, not by the operation.
EagerSnapshotView ==
    /\ updating
    /\ updating' = FALSE
    /\ view' = tip
    /\ queueOpt' = AllAgain \o queueOpt
    /\ transactions' = <<>>
    /\ mapNonce' = <<>>
    /\ UNCHANGED <<adding, orphanTx, balance, txRecord, tip, blocks, now>>

\* getSnapshotView answers: the old view is released and the new one used.
SnapshotView ==
    /\ updating
    /\ updating' = FALSE
    /\ view' = tip
    /\ IF adding = Idle THEN RunQueue(UpdateTipFirst(queueOpt), tip)
       ELSE /\ queueOpt' = UpdateTipFirst(queueOpt)
            /\ adding' = [adding EXCEPT !.released = adding.reading]
            /\ UNCHANGED <<transactions, mapNonce>>
    /\ UNCHANGED <<orphanTx, balance, txRecord, tip, blocks, now>>

\* getSnapshotView fails and the pool keeps its view.
SnapshotViewFails ==
    /\ updating
    /\ updating' = FALSE
    /\ UNCHANGED <<poolVars, queueOpt, adding, txRecord, view, tip, blocks, now>>

Tick ==
    /\ now < MaxTime
    /\ now' = now + 1
    /\ UNCHANGED <<poolVars, queueOpt, adding, txRecord, chainVars>>

-----------------------------------------------------------------------------
(* _addTx after each of its awaits.  A read of a released view may fail.   *)

Tx == adding.txTime.tx

\* getStorageNonce answers.
StorageNonce ==
    /\ adding.pc = "storageNonce"
    /\ \/ adding.released /\ adding' = Done
       \/ adding.got >= Tx.nonce /\ adding' = Done
       \/ /\ adding.got < Tx.nonce
          /\ adding' = Await("nonce", adding.txTime, GetNonce(Tx.address),
                             Tx.address \notin DOMAIN mapNonce)
    /\ UNCHANGED <<poolVars, queueOpt, txRecord, chainVars, now>>

\* onCheck asks for the balance; a chain without values has nothing to check.
OnCheck(at) ==
    LET old == IF at = 0 THEN 0 ELSE TotalUse(transactions[at].tx)
        waits == ValueChain /\ Tx.address \notin DOMAIN balance
    IN  adding' = [Await("check", adding.txTime, GetBalance(Tx.address), waits)
                      EXCEPT !.at = at, !.use = TotalUse(Tx) - old]

\* addToQueueMayNonceExist
AddToQueueMayNonceExist ==
    LET same == SameNonce(transactions, Tx)
        at   == Min(same)
    IN  IF same # {} /\ MayReplace(adding.txTime, transactions[at])
        THEN OnCheck(at) ELSE adding' = Done

\* getNonce answers; its error is not looked at, and no comparison with
\* the undefined nonce holds.
Nonce ==
    /\ adding.pc = "nonce"
    /\ \/ /\ adding.got + 1 = Tx.nonce
          /\ OnCheck(0)
          /\ UNCHANGED orphanTx
       \/ /\ adding.got + 1 < Tx.nonce
          /\ orphanTx' = [orphanTx EXCEPT
                ![Tx.address] = AddToOrphanMayNonceExist(@, adding.txTime)]
          /\ adding' = Done
       \/ /\ adding.got + 1 > Tx.nonce \/ adding.released
          /\ AddToQueueMayNonceExist
          /\ UNCHANGED orphanTx
    /\ UNCHANGED <<transactions, mapNonce, balance, queueOpt, txRecord, chainVars, now>>

\* ScanOrphan asks for the nonce once more, now that of the map m.
ToScan(m) ==
    LET known == Tx.address \in DOMAIN m
    IN  Await("scan", adding.txTime, IF known THEN m[Tx.address] ELSE view.nonce[Tx.address], ~known)

\* Mutant: the nonce of a replacement is taken for the last one.
NonceOfAnyAdded == Put(mapNonce, Tx.address, Tx.nonce)

\* onAddedTx of PendingTransactions: the last nonce, unless it replaces.
NonceOfAdded == IF adding.at = 0 THEN Put(mapNonce, Tx.address, Tx.nonce) ELSE mapNonce

\* onCheck has its balance.  The queue changes, and onAddedTx begins: with a
\* second question for the balance in ValuePendingTransactions.
Check ==
    /\ adding.pc = "check"
    /\ \/ adding.released /\ adding' = Done /\ UNCHANGED <<transactions, mapNonce>>
       \/ /\ ValueChain /\ adding.got < adding.use
          /\ adding' = Done
          /\ UNCHANGED <<transactions, mapNonce>>
       \/ /\ ValueChain /\ adding.got >= adding.use
          /\ transactions' = AddToQueue(adding.txTime, adding.at)
          /\ adding' = [adding EXCEPT !.pc = "added", !.got = GetBalance(Tx.address),
                                      !.reading = Tx.address \notin DOMAIN balance,
                                      !.released = FALSE]
          /\ UNCHANGED mapNonce
       \/ /\ ~ValueChain
          /\ transactions' = AddToQueue(adding.txTime, adding.at)
          /\ mapNonce' = NonceOfAdded
          /\ adding' = IF adding.at = 0 THEN ToScan(mapNonce') ELSE Done
    /\ UNCHANGED <<orphanTx, balance, queueOpt, txRecord, chainVars, now>>

\* onAddedTx of ValuePendingTransactions has its balance.  It calls its super
\* method without the replaced transaction, so the nonce is always set.
Added ==
    /\ adding.pc = "added"
    /\ \/ /\ adding.released
          /\ UNCHANGED <<balance, mapNonce>>
       \/ /\ balance' = Put(balance, Tx.address, adding.got - adding.use)
          /\ mapNonce' = Put(mapNonce, Tx.address, Tx.nonce)
    /\ adding' = IF adding.at = 0 THEN ToScan(mapNonce') ELSE Done
    /\ UNCHANGED <<transactions, orphanTx, queueOpt, txRecord, chainVars, now>>

\* ScanOrphan: expired orphans go, and the next one moves if its turn has come.
ScanOrphan ==
    /\ adding.pc = "scan"
    /\ LET l     == orphanTx[Tx.address]
           alive == {k \in DOMAIN l : ~IsTimeout(l[k])}
           rest  == IF alive = {} THEN <<>> ELSE SubSeq(l, Min(alive), Len(l))
       IN  \/ /\ rest # <<>> /\ rest[1].tx.nonce = adding.got + 1
              /\ queueOpt' = Append(queueOpt, AddTx(rest[1]))
              /\ orphanTx' = [orphanTx EXCEPT ![Tx.address] = Tail(rest)]
           \/ /\ rest # <<>> => rest[1].tx.nonce # adding.got + 1 \/ adding.released
              /\ orphanTx' = [orphanTx EXCEPT ![Tx.address] = rest]
              /\ UNCHANGED queueOpt
    /\ adding' = Done
    /\ UNCHANGED <<transactions, mapNonce, balance, txRecord, chainVars, now>>

NextOpt ==
    /\ adding.pc = "next"
    /\ RunQueue(queueOpt, view)
    /\ UNCHANGED <<orphanTx, balance, txRecord, chainVars, now>>

-----------------------------------------------------------------------------
Init ==
    /\ transactions = <<>>
    /\ orphanTx = [a \in Addresses |-> <<>>]
    /\ mapNonce = <<>>
    /\ balance = <<>>
    /\ queueOpt = <<>>
    /\ adding = Idle
    /\ txRecord = <<>>
    /\ view = Genesis
    /\ tip = Genesis
    /\ updating = FALSE
    /\ blocks = 0
    /\ now = 0

Next ==
    \/ \E tx \in Txs : AddTransaction(tx)
    \/ UpdateTipBlock
    \/ SnapshotView
    \/ SnapshotViewFails
    \/ StorageNonce
    \/ Nonce
    \/ Check
    \/ Added
    \/ ScanOrphan
    \/ NextOpt
    \/ Tick

Spec == Init /\ [][Next]_vars

-----------------------------------------------------------------------------
(* Properties.                                                             *)

\* The pool has taken notice of the tip.
Settled == view = tip /\ ~updating /\ (queueOpt # <<>> => Head(queueOpt) # UpdateTip)

\* The queue as the transactions of a block.
Queue == [k \in DOMAIN transactions |-> transactions[k].tx]

Own(a) == {k \in DOMAIN transactions : transactions[k].tx.address = a}

\* What the miner takes from the queue executes on the tip: the nonces of an
\* address follow that of the chain without a gap and in order (pushTx, and
\* _dealNonce, which fails the whole block otherwise).
QueueExecutable == Settled => DealNonce(tip.nonce, Queue)

\* The nonce in memory is that of the last transaction of the address in the
\* queue, and there is one exactly when there are such transactions.
NonceInMemory ==
    Settled /\ adding.pc # "added" => \A a \in Addresses :
        /\ (a \in DOMAIN mapNonce) <=> (Own(a) # {})
        /\ Own(a) # {} => mapNonce[a] = transactions[Max(Own(a))].tx.nonce

\* The balance in memory is the balance on the chain without what the
\* transactions in the queue use.
BalanceInPending ==
    Settled /\ adding = Idle => \A a \in DOMAIN balance :
        balance[a] = tip.balance[a] - SumFunction([k \in Own(a) |-> TotalUse(transactions[k].tx)])

\* The answer of getNonce is the nonce of the address on the chain.
NonceOnChain == Settled => \A a \in Addresses : GetNonce(a) = tip.nonce[a]

\* While a replacement waits for its check the index it found still holds the
\* transaction to be replaced (addToQueueMayNonceExist).
ReplacedStaysInPlace ==
    adding.pc = "check" /\ adding.at # 0 =>
        adding.at \in SameNonce(transactions, Tx)

InQueueOpt == {queueOpt[k].txTime : k \in {j \in DOMAIN queueOpt : queueOpt[j] # UpdateTip}}
InFlight == IF adding.pc \in {"idle", "added", "scan", "next"} THEN {} ELSE {adding.txTime}

\* The limit holds with one transaction to spare, the one being added, which
\* addTransaction does not count.
PoolBounded == GetPendingCount + Cardinality(InQueueOpt \cup InFlight) <= MaxPendingCount + 1

Held == ToSet(transactions) \cup (UNION {ToSet(orphanTx[a]) : a \in Addresses})
            \cup InQueueOpt \cup InFlight

\* A transaction that was accepted only leaves the pool when it is too old,
\* when the ledger it was read against has its nonce, when another one has
\* its nonce, when the balance does not cover it, or when that read failed.
NothingVanishes ==
    [][\A e \in Held \ Held' :
          \/ IsTimeout(e)
          \/ adding.released
          \/ adding.pc \in {"storageNonce", "nonce"} /\ adding.got >= e.tx.nonce
          \/ \E f \in Held' : f.tx.address = e.tx.address /\ f.tx.nonce = e.tx.nonce
          \/ ValueChain /\ adding.pc = "check" /\ adding.got < adding.use]_vars

TypeOK ==
    LET Entries == [tx : Txs, ct : 0 .. MaxTime]
    IN  /\ transactions \in Seq(Entries)
        /\ orphanTx \in [Addresses -> Seq(Entries)]
        /\ DOMAIN mapNonce \subseteq Addresses
        /\ DOMAIN balance \subseteq Addresses
        /\ \A k \in DOMAIN queueOpt : queueOpt[k] = UpdateTip => k = 1
        /\ adding # Idle => adding.txTime \in Entries
        /\ adding = Idle => queueOpt = <<>>
=============================================================================
