---------------------------- MODULE ValueExecutor ----------------------------
(***************************************************************************)
(* executor/block.ts, executor/transaction.ts, value_chain/executor.ts and *)
(* value_chain/context.ts: one block of a value chain is executed on a     *)
(* storage.  The handler's listeners are external: they may transfer what  *)
(* the system account holds, charge a cost and end in any way.             *)
(* A storage is a sequence of trees of which root is the current one and a *)
(* handle is an index: a rollback restores the tree in place (sqlite) or   *)
(* puts another one in its stead, which older handles do not see (JSON).   *)
(***************************************************************************)
EXTENDS Integers, Sequences, FiniteSetsExt

CONSTANTS
    Users, Coinbase,    \* who sends transactions, and one of them for the miner
    SysAddress,
    PreBalance,         \* of every user
    Wages, Amounts,     \* what the wage listener returns; values, costs and fees
    MaxTransactions,    \* bound on the transactions of the block
    MaxCalls,           \* bound on the calls a listener makes
    RollbackReplacesTree,
    Nothing             \* no transaction of the storage, no listener at work

\* An amount is not negative, which the code leaves to the handlers and to who sends a
\* transaction.
ASSUME ValueAssumption ==
    /\ IsFiniteSet(Users) /\ Coinbase \in Users /\ SysAddress \notin Users
    /\ PreBalance \in Nat /\ Wages \subseteq Nat /\ Amounts \subseteq Nat
    /\ RollbackReplacesTree \in BOOLEAN
    /\ Nothing \notin [from : Users, fee : Nat, cost : Nat]
    /\ Nothing \notin [event : {"pre", "post"}]
    /\ Nothing \notin [balance : [Users \cup {SysAddress} -> Nat], nonce : [Users -> Int]]

VARIABLES
    phase,      \* what executes next; "failed" and "unpaid" give up the block
    trees, root,
    saved,      \* the tree at beginTransaction
    running,    \* the transaction or the event whose listener runs
    opened,     \* the handle execute got for that transaction
    calls,      \* of the listener
    receipts,   \* of the transactions so far
    issued,     \* history: the wage
    before      \* history: the balances before the last transaction

valueVars == <<phase, trees, root, saved, running, opened, calls, receipts, issued, before>>

Addresses == Users \cup {SysAddress}

ValueInit ==
    /\ phase = "wage"
    /\ trees = <<[balance |-> [a \in Addresses |-> IF a \in Users THEN PreBalance ELSE 0],
                  nonce |-> [u \in Users |-> -1]]>>
    /\ root = 1
    /\ saved = Nothing
    /\ running = Nothing
    /\ opened = 1
    /\ calls = 0
    /\ receipts = <<>>
    /\ issued = 0
    /\ before = trees[1].balance

-----------------------------------------------------------------------------
\* The handle newBlockExecutor opens for the listeners' context, before the block is executed.
BlockHandle == 1

\* Mutant: the receiver's balance is read before the sender's is written.
TransferToStale(balance, from, to, amount) ==
    IF balance[from] < amount THEN balance
    ELSE [[balance EXCEPT ![from] = @ - amount] EXCEPT ![to] = balance[to] + amount]

TransferTo(balance, from, to, amount) ==
    IF balance[from] < amount THEN balance
    ELSE [[balance EXCEPT ![from] = @ - amount] EXCEPT ![to] = @ + amount]

Issue(balance, to, amount) == [balance EXCEPT ![to] = @ + amount]

\* _dealNonce, once the nonce has been found to be the next one
DealNonce(tree, from) == [tree EXCEPT !.nonce[from] = @ + 1]

\* Mutant: a rollback takes the nonce back as well.
AtBeginWithoutNonce(from) == trees[root]
\* The tree that is saved for a transaction of from.
AtBegin(from) == DealNonce(trees[root], from)

Rolled(ts) == IF RollbackReplacesTree THEN Append(ts, saved) ELSE [ts EXCEPT ![root] = saved]
RootAfterRollback == IF RollbackReplacesTree THEN Len(trees) + 1 ELSE root

-----------------------------------------------------------------------------
(* The wage and the events of the block.                                    *)

ExecuteMinerWageEvent ==
    /\ phase = "wage"
    /\ \E wage \in Wages :
          /\ trees' = [trees EXCEPT ![root].balance = Issue(@, Coinbase, wage)]
          /\ issued' = wage
    /\ phase' = "pre"
    /\ UNCHANGED <<root, saved, running, opened, calls, receipts, before>>

ExecuteBlockEvent ==
    /\ phase \in {"pre", "post"}
    /\ running = Nothing
    /\ running' = [event |-> phase]
    /\ saved' = trees[root]
    /\ calls' = 0
    /\ UNCHANGED <<phase, trees, root, opened, receipts, issued, before>>

\* One listener is enough: the next one of a kind starts as the first did.
EndEvent(succeeds) ==
    /\ phase \in {"pre", "post"}
    /\ running # Nothing
    /\ IF succeeds THEN UNCHANGED <<trees, root>>
       ELSE trees' = Rolled(trees) /\ root' = RootAfterRollback
    /\ phase' = IF ~succeeds THEN "failed" ELSE IF phase = "pre" THEN "transactions" ELSE "done"
    /\ running' = Nothing
    /\ saved' = Nothing
    /\ UNCHANGED <<opened, calls, receipts, issued, before>>

-----------------------------------------------------------------------------
(* The transactions.                                                        *)

\* A transaction whose nonce is not the next fails the block.
WrongNonce ==
    /\ phase = "transactions" /\ running = Nothing
    /\ Len(receipts) < MaxTransactions
    /\ phase' = "failed"
    /\ UNCHANGED <<trees, root, saved, running, opened, calls, receipts, issued, before>>

Needed(tx) == tx.value + tx.fee

Transactions == [from : Users, value : Amounts, fee : Amounts]

NotEnough(tx) ==
    /\ phase = "transactions" /\ running = Nothing
    /\ Len(receipts) < MaxTransactions
    /\ trees[root].balance[tx.from] < Needed(tx)
    /\ trees' = [trees EXCEPT ![root] = DealNonce(@, tx.from)]
    /\ before' = trees[root].balance
    /\ receipts' = Append(receipts, [from |-> tx.from, succeeds |-> FALSE, cost |-> 0])
    /\ UNCHANGED <<phase, root, saved, running, opened, calls, issued>>

ExecuteTransaction(tx) ==
    /\ phase = "transactions" /\ running = Nothing
    /\ Len(receipts) < MaxTransactions
    /\ trees[root].balance[tx.from] >= Needed(tx)
    /\ saved' = AtBegin(tx.from)
    /\ LET tree == DealNonce(trees[root], tx.from)
       IN  trees' = [trees EXCEPT ![root] =
              [tree EXCEPT !.balance = TransferTo(@, tx.from, SysAddress, tx.value)]]
    /\ running' = [from |-> tx.from, fee |-> tx.fee, cost |-> 0]
    /\ opened' = root
    /\ calls' = 0
    /\ before' = trees[root].balance
    /\ UNCHANGED <<phase, root, receipts, issued>>

Called == running # Nothing /\ calls < MaxCalls /\ calls' = calls + 1

\* context.transferTo of newBlockExecutor
ListenerTransfers ==
    /\ Called
    /\ \E to \in Users, amount \in Amounts :
          trees' = [trees EXCEPT ![BlockHandle].balance = TransferTo(@, SysAddress, to, amount)]
    /\ UNCHANGED <<phase, root, saved, running, opened, receipts, issued, before>>

\* context.cost: whether or not the listener heeds RESULT_TX_FEE_NOT_ENOUGH
ListenerCosts ==
    /\ Called
    /\ phase = "transactions"
    /\ \E fee \in Amounts : running' = [running EXCEPT !.cost = Min({@ + fee, running.fee})]
    /\ UNCHANGED <<phase, trees, root, saved, opened, receipts, issued, before>>

Paid(ts) == [ts EXCEPT ![opened].balance = TransferTo(@, running.from, Coinbase, running.cost)]

\* Mutant: the cost is paid inside the storage's transaction.
SettledBeforeRollback(succeeds) == IF succeeds THEN Paid(trees) ELSE Rolled(Paid(trees))
\* What is left of the trees once the listener has returned: the cost is paid after all.
Settled(succeeds) == Paid(IF succeeds THEN trees ELSE Rolled(trees))

\* Whether the last transferTo of execute succeeds.
CanPay(succeeds) ==
    LET tree == (IF succeeds THEN trees ELSE Rolled(trees))[opened]
    IN  tree.balance[running.from] >= running.cost

EndTransaction(succeeds) ==
    /\ phase = "transactions"
    /\ running # Nothing
    /\ trees' = Settled(succeeds)
    /\ root' = IF succeeds THEN root ELSE RootAfterRollback
    /\ phase' = IF CanPay(succeeds) THEN phase ELSE "unpaid"
    /\ receipts' = Append(receipts, [from |-> running.from, succeeds |-> succeeds, cost |-> running.cost])
    /\ running' = Nothing
    /\ saved' = Nothing
    /\ UNCHANGED <<opened, calls, issued, before>>

EndTransactions ==
    /\ phase = "transactions"
    /\ running = Nothing
    /\ phase' = "post"
    /\ UNCHANGED <<trees, root, saved, running, opened, calls, receipts, issued, before>>

ValueNext ==
    \/ ExecuteMinerWageEvent
    \/ ExecuteBlockEvent
    \/ \E succeeds \in BOOLEAN : EndEvent(succeeds) \/ EndTransaction(succeeds)
    \/ WrongNonce
    \/ \E tx \in Transactions : NotEnough(tx) \/ ExecuteTransaction(tx)
    \/ ListenerTransfers
    \/ ListenerCosts
    \/ EndTransactions

ValueSpec == ValueInit /\ [][ValueNext]_valueVars

-----------------------------------------------------------------------------
\* Whatever the listeners do and however they end, nobody's coins come from nothing: all
\* balances add up to the first ones and the wage, and none is negative.
CoinsKept ==
    /\ MapThenSumSet(LAMBDA a : trees[root].balance[a], Addresses) = PreBalance * Cardinality(Users) + issued
    /\ \A a \in Addresses : trees[root].balance[a] >= 0

\* A transaction that fails moves nothing but its cost, from its sender to the coinbase, and the
\* cost of a transaction can always be paid in the end (ValueTransactionExecutor.execute).
CostsPaid ==
    /\ phase # "unpaid"
    /\ phase = "transactions" /\ running = Nothing /\ receipts # <<>> =>
          LET last == receipts[Len(receipts)]
          IN  last.succeeds \/ trees[root].balance = TransferTo(before, last.from, Coinbase, last.cost)

\* A nonce is used up by every transaction with a receipt, the failed ones as well, and by no
\* other: the nonces of a sender count its receipts (PendingTransactions relies on it).
NoncesCount == phase \in {"transactions", "post", "done"} /\ running = Nothing =>
    \A u \in Users : trees[root].nonce[u] + 1 = Cardinality({i \in DOMAIN receipts : receipts[i].from = u})

\* What a receipt stands for.
ReceiptsHold == CostsPaid /\ NoncesCount
=============================================================================
