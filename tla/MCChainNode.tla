---------------------------- MODULE MCChainNode ----------------------------
(* Small chains for TLC.  C validates without owning a wallet; Poor holds a *)
(* block whose second transaction has to be refused, and the fee of Owing   *)
(* takes the wallet of its validator below zero.                            *)
EXTENDS ChainNode

CONSTANTS A, B, C, Z

Mint(n) == [from |-> Z, to |-> A, amount |-> n, fee |-> 0, nonce |-> 0,
            mint |-> TRUE]
Pay(x, y, n, k) == [from |-> x, to |-> y, amount |-> n, fee |-> 1, nonce |-> k,
                    mint |-> FALSE]
Blk(v, txs) == [txs |-> txs, validator |-> v, reward |-> 2,
                fees |-> Len(SelectSeq(txs, LAMBDA x : ~x.mint))]

Swap == <<Blk(C, <<Mint(6)>>), Blk(A, <<Pay(A, B, 2, 0)>>), Blk(C, <<>>)>>
Self == <<Blk(A, <<Mint(6)>>), Blk(C, <<Pay(A, B, 1, 0), Pay(A, A, 1, 1)>>)>>
Poor == <<Blk(B, <<Mint(2)>>), Blk(B, <<Pay(B, A, 1, 0), Pay(A, B, 3, 0)>>)>>
Owing == <<Blk(A, <<Mint(3)>>),
           [txs |-> <<[Pay(A, B, 1, 0) EXCEPT !.fee = -5]>>, validator |-> B,
            reward |-> 2, fees |-> -5]>>

MCAmounts == {-1, 2}

MCOpening == (A :> 0) @@ (B :> 1)

MCWorkloads == {
    [chain |-> Swap, arrives |-> {"gossip", "batch"}],
    [chain |-> Self, arrives |-> {"batch", "local"}],
    [chain |-> Poor, arrives |-> {"local", "tx"}],
    [chain |-> Poor, arrives |-> {"local", "app"}],
    [chain |-> Owing, arrives |-> {"batch"}]}

MCTransactions == {[id |-> 1, block |-> 1], [id |-> 2, block |-> 2]}

TaskSymmetry == Permutations(Tasks)
============================================================================
