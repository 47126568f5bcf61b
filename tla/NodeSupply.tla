----------------------------- MODULE NodeSupply -----------------------------
(***************************************************************************)
(* The money in a node: what the coins of its UTXO set are worth, against  *)
(* what the coinbases of its chain have issued.  Sums here are exact;      *)
(* those of Node wrap as in the code.                                      *)
(***************************************************************************)
EXTENDS Node

(* What UTXOSet::GetTotalSupply adds up. *)
Supply == WorthOf(utxos)

(* The value that a transaction issues: all of its outputs for a coinbase.  *)
IssuedBy(t) == IF IsCoinbase(t) THEN WorthOf(OutPointsOf(t)) ELSE 0

(* The coinbases of the chain have issued so much. *)
Issued ==
    SumFunction([i \in DOMAIN chain |->
                    SumFunction([k \in DOMAIN chain[i].txs |-> IssuedBy(chain[i].txs[k])])])

(* Its transactions have paid so much beyond their totals. *)
Overflowed ==
    SumFunction([i \in DOMAIN chain |->
                    SumFunction([k \in DOMAIN chain[i].txs |-> BeyondTotal(chain[i].txs[k])])])

(* The one way to make money is a total that wraps: the coins are never     *)
(* worth more than what the coinbases have issued and what the outputs of   *)
(* transactions on the chain add up to beyond 2^64 (the test commented      *)
(* "inflation: spent more than input" compares the wrapped totals).         *)
SupplyIssued == Supply <= Issued + Overflowed
=============================================================================
