------------------------------ MODULE MCNodeCap ------------------------------
(***************************************************************************)
(* The transactions of MCNode with a coinbase m, whose output alone is     *)
(* worth more than MaxSupply.  Submitted blocks carry it, the coinbase c,  *)
(* or spends of the genesis coin: no total wraps.                          *)
(***************************************************************************)
EXTENDS MCNode

CONSTANTS
    m,
    MaxSupply      \* MAX_SUPPLY of include/EmissionModel.h

CapTx == MCTx \cup {m}

CapInputs == MCInputs @@ (m :> <<<<zero, 0>>>>)

CapOutputs == MCOutputs @@ (m :> <<MaxSupply + 1>>)

CapTxLists == {<<m>>, <<c>>, <<c, a>>, <<b>>}

(* "Ensure we never mine more than the max supply" (ComputeBlockReward),    *)
(* "Max Token Supply: 21,000,000,000 XAC" (README.md).  The reward that a   *)
(* miner computes is under it, but no check of a submitted block compares   *)
(* the outputs of its coinbase with anything: ValidateAndApplyInputs        *)
(* returns true for every coinbase.                                         *)
SupplyIsCapped == Supply <= MaxSupply
=============================================================================
