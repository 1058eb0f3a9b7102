----------------------- MODULE MCPendingTransactions -----------------------
(* Small instances of PendingTransactions: a chain without values or one     *)
(* with them, as class says.                                                 *)
EXTENDS PendingTransactions

CONSTANTS p1, p2

VARIABLE class

MCTx(a, n, f) == [address |-> a, nonce |-> n, fee |-> f, value |-> 1]

\* One transaction per nonce, and a second address that pays more.
MCOnePerNonce == {MCTx(p1, 0, 1), MCTx(p1, 1, 2), MCTx(p1, 2, 1), MCTx(p2, 0, 2)}

\* Two transactions with one nonce.
MCRivals == {MCTx(p1, 0, 1), MCTx(p1, 0, 2), MCTx(p1, 1, 1), MCTx(p2, 0, 1)}

MCTxs == MCOnePerNonce \cup MCRivals

MCBalance == [a \in Addresses |-> IF a = p1 THEN 7 ELSE 3]

Base == INSTANCE PendingTransactions WITH ValueChain <- FALSE, Txs <- MCRivals
Value == INSTANCE PendingTransactions WITH ValueChain <- TRUE, Txs <- MCOnePerNonce

PoolInit == class \in {"base", "value"} /\ Init
PoolNext ==
    \/ class = "base" /\ Base!Next /\ UNCHANGED class
    \/ class = "value" /\ Value!Next /\ UNCHANGED class
PoolSpec == PoolInit /\ [][PoolNext]_<<vars, class>>

\* The same without a choice: transactions with one nonce on a chain with values.
RivalsSpec == class = "value" /\ Init /\ [][Next /\ UNCHANGED class]_<<vars, class>>
=============================================================================
