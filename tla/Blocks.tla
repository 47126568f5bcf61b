------------------------------- MODULE Blocks -------------------------------
(***************************************************************************)
(* Blocks and chains as data (struct BlockHeader and struct Block of       *)
(* include/CoreTypes.h, ConsensusEngine::GetGenesisBlock), and what a      *)
(* chain says of a coin: created where, spent where, live or not.          *)
(***************************************************************************)
EXTENDS Transactions

CONSTANTS
    MaxTime,     \* the largest header timestamp (a uint32_t), genesis being 0
    Nonces,      \* the header nonces
    GoodNonces,  \* the nonces with which CheckProofOfWork accepts the header
    TxLists,     \* the transaction lists a submitted block may carry
    GenesisTx    \* the coinbase of the genesis block

ASSUME BlocksAssumption ==
    /\ MaxTime \in Nat
    /\ 0 \in Nonces
    /\ GoodNonces \subseteq Nonces
    /\ TxLists \subseteq Seq(Tx)
    /\ GenesisTx \in Tx
    /\ IsCoinbase(GenesisTx)
    /\ Len(Outputs[GenesisTx]) = 1

(* What the hash of a header depends on, besides the previous block's hash. *)
HeaderData == (0 .. MaxTime) \X Nonces

(* A block hash.  Keccak-256 of the header, and the header holds the hash of *)
(* the previous block: without collisions a hash stands for the header and   *)
(* all its ancestors.  It does not stand for the transactions: the Merkle    *)
(* root of a header is never compared with the block's transactions.         *)
Hash == Seq(HeaderData)

(* fits: GetSize() is at most MAX_BLOCK_SIZE (scripts, abstracted here, give *)
(* a transaction list any size).                                             *)
Block == [prev : Hash, time : 0 .. MaxTime, nonce : Nonces,
          fits : BOOLEAN, txs : Seq(Tx)]

(* Block::GetHash. *)
HashOf(b) == Append(b.prev, <<b.time, b.nonce>>)

(* ConsensusEngine::GetGenesisBlock. *)
GenesisBlock == [prev |-> <<>>, time |-> 0, nonce |-> 0,
                 fits |-> TRUE, txs |-> <<GenesisTx>>]

Tip(c) == c[Len(c)]

(* The blocks a client may submit to a node with chain c.  The parent hash  *)
(* is only ever compared with the hash of the tip: one other hash, the zero *)
(* hash, stands for all those that differ from it.                          *)
Submissions(c) ==
    [prev : {HashOf(Tip(c)), <<>>}, time : 0 .. MaxTime,
     nonce : Nonces, fits : BOOLEAN, txs : TxLists]

-----------------------------------------------------------------------------
(* The history of a coin in a chain.  <<i, k>> is the k-th transaction of   *)
(* the i-th block.                                                          *)

Creates(c, i, k, op) == op \in OutPointsOf(c[i].txs[k])

Spends(c, i, k, op) == op \in SpendsOf(c[i].txs[k])

Before(i, k, j, m) == i < j \/ (i = j /\ k < m)

(* op has been created, and not spent since. *)
IsLive(c, op) ==
    \E i \in DOMAIN c : \E k \in DOMAIN c[i].txs :
        /\ Creates(c, i, k, op)
        /\ \A j \in DOMAIN c : \A m \in DOMAIN c[j].txs :
              Spends(c, j, m, op) => ~Before(i, k, j, m)

(* The standard UTXO set of a chain. *)
Live(c) ==
    {op \in UNION {UNION {OutPointsOf(c[i].txs[k]) : k \in DOMAIN c[i].txs} :
                        i \in DOMAIN c} :
        IsLive(c, op)}

(* Each coin the block spends is live in c, and is spent once in the block. *)
SpendsLive(c, b) ==
    \A k \in DOMAIN b.txs : \A op \in SpendsOf(b.txs[k]) :
        /\ IsLive(c, op)
        /\ \A j \in DOMAIN b.txs : j # k => op \notin SpendsOf(b.txs[j])

(* Every spend in the chain consumes a coin created in an earlier block and *)
(* not spent between its creation and this spend.                           *)
SpendsOnlyLive(c) ==
    \A j \in DOMAIN c : \A m \in DOMAIN c[j].txs : \A op \in SpendsOf(c[j].txs[m]) :
        \E i \in 1 .. j-1 : \E k \in DOMAIN c[i].txs :
            /\ Creates(c, i, k, op)
            /\ \A j2 \in 1 .. j : \A m2 \in DOMAIN c[j2].txs :
                  Spends(c, j2, m2, op) /\ Before(j2, m2, j, m)
                      => ~Before(i, k, j2, m2)

(* Every block names the hash of its predecessor and has a later timestamp. *)
IsLinked(c) ==
    \A i \in 2 .. Len(c) :
        /\ c[i].prev = HashOf(c[i-1])
        /\ c[i].time > c[i-1].time
=============================================================================
