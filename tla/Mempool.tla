------------------------------ MODULE Mempool ------------------------------
(***************************************************************************)
(* class Mempool (src/mempool/Mempool.h, src/mempool/Mempool.cpp): the     *)
(* transactions that wait for a block.  src/main.cpp:92 creates one and    *)
(* never calls it, so the callers are the environment here: they add a     *)
(* transaction against the coins of the moment, or remove one, in any      *)
(* order.  Nothing removes a transaction when its coins are spent.         *)
(***************************************************************************)
EXTENDS Transactions

CONSTANT CoinSets     \* the key sets of the UTXOSet that callers may pass

ASSUME MempoolAssumption == CoinSets \subseteq SUBSET OutPoint

VARIABLES
    pool,      \* the keys of m_txs
    spender    \* m_spentOutputs: for an outpoint spent by a pending transaction, which

poolVars == <<pool, spender>>

-----------------------------------------------------------------------------

(* [faulty: the spends of pending transactions are not looked up.] *)
AddAcceptedBlindly(t, u) ==
    /\ t \notin pool
    /\ ~IsCoinbase(t)
    /\ \A op \in InputSet(t) : op \in u

(* What add_transaction returns, u being the coins: neither the amounts nor *)
(* the signatures are looked at, nor an outpoint that two inputs name.      *)
AddAccepted(t, u) ==
    /\ t \notin pool
    /\ ~IsCoinbase(t)
    /\ \A op \in InputSet(t) : op \notin DOMAIN spender /\ op \in u

(* m_spentOutputs after the inputs of t are entered. *)
WithSpends(t) ==
    [op \in DOMAIN spender \cup InputSet(t) |->
        IF op \in InputSet(t) THEN t ELSE spender[op]]

PoolInit ==
    /\ pool = {}
    /\ spender = <<>>

(* [faulty: inputs are entered as they are checked, before all are.] *)
AddTransactionEarly(t, u) ==
    IF AddAccepted(t, u)
    THEN /\ pool' = pool \cup {t}
         /\ spender' = WithSpends(t)
    ELSE /\ spender' = IF t \in pool \/ InputSet(t) \cap DOMAIN spender # {}
                       THEN spender ELSE WithSpends(t)
         /\ UNCHANGED pool

AddTransaction(t, u) ==
    IF AddAccepted(t, u)
    THEN /\ pool' = pool \cup {t}
         /\ spender' = WithSpends(t)
    ELSE UNCHANGED poolVars

RemoveTransaction(t) ==
    IF t \in pool
    THEN /\ pool' = pool \ {t}
         /\ spender' = [op \in DOMAIN spender \ InputSet(t) |-> spender[op]]
    ELSE UNCHANGED poolVars

PoolNext ==
    \/ \E t \in Tx, u \in CoinSets : AddTransaction(t, u)
    \/ \E t \in Tx : RemoveTransaction(t)

PoolSpec == PoolInit /\ [][PoolNext]_poolVars

-----------------------------------------------------------------------------
(* Properties. *)

(* The types, and no dangling reference: m_spentOutputs only ever names     *)
(* transactions that are pending.                                           *)
PoolTypeOK ==
    /\ pool \subseteq Tx
    /\ DOMAIN spender \subseteq OutPoint
    /\ spender \in [DOMAIN spender -> pool]

(* No two pending transactions spend the same coin, whatever was added,     *)
(* refused and removed before.                                              *)
NoConflicts ==
    \A t1, t2 \in pool : t1 # t2 => InputSet(t1) \cap InputSet(t2) = {}

(* A transaction is refused only for a reason that the pool and the coins   *)
(* give by themselves: refused and removed transactions leave nothing in    *)
(* the index of spends that blocks a later one, or lets one through.        *)
RefusalsHaveCause ==
    \A t \in Tx \ pool, u \in CoinSets :
        AddAccepted(t, u) <=>
            /\ ~IsCoinbase(t)
            /\ InputSet(t) \subseteq u
            /\ \A p \in pool : InputSet(p) \cap InputSet(t) = {}
=============================================================================
