---------------------------- MODULE Transactions ----------------------------
(***************************************************************************)
(* The transactions of AuraCash as data (include/CoreTypes.h,              *)
(* src/CoreTypes.cpp, include/UTXOEngine.h).                               *)
(*                                                                         *)
(* A transaction id is the Keccak-256 hash of the whole transaction        *)
(* (Transaction::GetHash), so a transaction IS its id here: Tx has one     *)
(* element per distinct content, and Inputs and Outputs give that content. *)
(* Signatures, sequence numbers and lock times are never read by the node  *)
(* and are left out; scripts are read only for listings (module Wallet).   *)
(***************************************************************************)
EXTENDS Integers, Sequences, Functions

CONSTANTS
    Tx,         \* the transactions, each standing for its id
    Inputs,     \* Inputs[t]: the outpoints that the inputs of t name, in order
    Outputs,    \* Outputs[t]: the values of the outputs of t, in order
    ZeroHash,   \* the all-zero hash, the id of no transaction
    Wrap        \* amounts are counted modulo Wrap (2^64: the width of uint64_t)

(* struct OutPoint {txHash, vout}; vout is counted from 1. *)
OutPoint == (Tx \cup {ZeroHash}) \X Nat

(* The outpoint a coinbase input names: zero hash, vout 0xffffffff. *)
NullOutPoint == <<ZeroHash, 0>>

ASSUME TransactionsAssumption ==
    /\ ZeroHash \notin Tx
    /\ Wrap \in Nat \ {0}
    /\ Inputs \in [Tx -> Seq(OutPoint)]
    /\ Outputs \in [Tx -> Seq(0 .. Wrap - 1)]

-----------------------------------------------------------------------------

(* Transaction::IsCoinbase: a single input, naming the null outpoint. *)
IsCoinbase(t) == Inputs[t] = <<NullOutPoint>>

(* The outpoints the inputs of t name, a coinbase's null outpoint included. *)
InputSet(t) == {Inputs[t][i] : i \in DOMAIN Inputs[t]}

(* The coins t consumes: a coinbase consumes none. *)
SpendsOf(t) == IF IsCoinbase(t) THEN {} ELSE InputSet(t)

(* [faulty: the index of an output is off by one.] *)
OutPointsOfOffByOne(t) == {<<t, i - 1>> : i \in DOMAIN Outputs[t]}

(* The outpoints of the outputs of t: (t.GetHash(), idx). *)
OutPointsOf(t) == {t} \X DOMAIN Outputs[t]

(* The TxOut::value of the coin at op. *)
ValueOf(op) == Outputs[op[1]][op[2]]

(* What the coins of a set are worth: the exact sum, which does not wrap.   *)
WorthOf(coins) == SumFunction([op \in coins |-> ValueOf(op)])

(* uint64_t total += value, over a list of values: the sum wraps. *)
WrappedSum(values) ==
    LET sum[i \in 0 .. Len(values)] ==
            IF i = 0 THEN 0 ELSE (sum[i-1] + values[i]) % Wrap
    IN  sum[Len(values)]

(* Transaction::GetTotalOutput. *)
TotalOutput(t) == WrappedSum(Outputs[t])

(* What a spend pays beyond that total, which wraps at 2^64.                *)
BeyondTotal(t) == IF IsCoinbase(t) THEN 0 ELSE WorthOf(OutPointsOf(t)) - TotalOutput(t)

(* totalIn of ValidateAndApplyInputs, once every input is a known coin. *)
TotalInput(t) == WrappedSum([i \in DOMAIN Inputs[t] |-> ValueOf(Inputs[t][i])])
=============================================================================
