----------------------------- MODULE UTXOEngine -----------------------------
(***************************************************************************)
(* class UTXOSet (include/UTXOEngine.h, src/UTXOEngine.cpp): the set of    *)
(* unspent coins and the spends recorded while a block is validated.       *)
(*                                                                         *)
(* m_utxos maps an outpoint to a TxOut.  Every caller adds the output that *)
(* the outpoint names (src/main.cpp:103-104 and 239-240), and an outpoint  *)
(* contains the hash of its transaction, so the outpoint determines the    *)
(* value: the map is modelled by its key set, the value by ValueOf.        *)
(* The operations are used as actions by UTXOSet, and, run to the end of a *)
(* block, as one step by Node.                                             *)
(***************************************************************************)
EXTENDS Transactions

VARIABLES
    utxos,           \* the keys of m_utxos
    spentThisBlock   \* m_spentThisBlock

utxoVars == <<utxos, spentThisBlock>>

-----------------------------------------------------------------------------
(* The scan of one transaction by ValidateAndApplyInputs, as operators of  *)
(* the coins u and the recorded spends s it starts from.                   *)

(* [faulty: spends recorded by earlier transactions are not looked up.] *)
RefusedInputsNoRecord(t, u, s) ==
    {i \in DOMAIN Inputs[t] :
        \/ \E j \in 1 .. i-1 : Inputs[t][j] = Inputs[t][i]
        \/ Inputs[t][i] \notin u}

(* The inputs at which the loop returns false: an outpoint already recorded *)
(* (before this transaction or by an earlier input of it) or not a coin.    *)
RefusedInputs(t, u, s) ==
    {i \in DOMAIN Inputs[t] :
        \/ Inputs[t][i] \in s
        \/ \E j \in 1 .. i-1 : Inputs[t][j] = Inputs[t][i]
        \/ Inputs[t][i] \notin u}

(* [faulty: the totals are not compared.] *)
SpendAcceptedNoTotals(t, u, s) ==
    /\ Inputs[t] # <<>>
    /\ RefusedInputs(t, u, s) = {}

(* The loop over the inputs runs to its end, and no value is created. *)
SpendAccepted(t, u, s) ==
    /\ Inputs[t] # <<>>
    /\ RefusedInputs(t, u, s) = {}
    /\ TotalOutput(t) <= TotalInput(t)

(* What ValidateAndApplyInputs returns. *)
Accepts(t, u, s) == IsCoinbase(t) \/ SpendAccepted(t, u, s)

(* [faulty: an input is recorded before its coin is looked up.] *)
RecordedBeforeLookup(t, u, s) ==
    IF IsCoinbase(t) THEN {}
    ELSE {Inputs[t][i] : i \in {k \in DOMAIN Inputs[t] :
                                   \A j \in 1 .. k-1 : j \notin RefusedInputs(t, u, s)}}

(* The outpoints it inserts in m_spentThisBlock, whatever it returns: those *)
(* of the inputs before the first refused one.                              *)
Recorded(t, u, s) ==
    IF IsCoinbase(t) THEN {}
    ELSE {Inputs[t][i] : i \in {k \in DOMAIN Inputs[t] :
                                   \A j \in 1 .. k : j \notin RefusedInputs(t, u, s)}}

-----------------------------------------------------------------------------
(* The operations of the class. *)

(* An existing coin is kept: with the key set alone, adding it is no change. *)
AddCoin(op) ==
    /\ utxos' = utxos \cup {op}
    /\ UNCHANGED spentThisBlock

RemoveCoin(op) ==
    /\ utxos' = utxos \ {op}
    /\ UNCHANGED spentThisBlock

(* Recorded spends stay recorded when a later input, or the totals, fail. *)
ValidateAndApplyInputs(t) ==
    /\ spentThisBlock' = spentThisBlock \cup Recorded(t, utxos, spentThisBlock)
    /\ UNCHANGED utxos

CommitBlock ==
    /\ utxos' = utxos \ spentThisBlock
    /\ spentThisBlock' = {}

RevertBlock ==
    /\ spentThisBlock' = {}
    /\ UNCHANGED utxos

Clear ==
    /\ utxos' = {}
    /\ spentThisBlock' = {}
=============================================================================
