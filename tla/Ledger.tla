------------------------------- MODULE Ledger -------------------------------
(***************************************************************************)
(* The promise of the node, README.md sections 1 and 3: a single linear    *)
(* chain that only grows, each block linked to the one before, and every   *)
(* transaction spending coins that its chain says are unspent.  The state  *)
(* is the chain alone: no UTXO set, no record of spends in progress.       *)
(* Node implements this specification.                                     *)
(***************************************************************************)
EXTENDS Blocks

VARIABLE chain

Init == chain = <<GenesisBlock>>

(* A step appends one block, stated of the chains before and after it. *)
AddBlock ==
    LET added == Tip(chain')
    IN  /\ chain' = Append(chain, added)
        /\ added \in Block
        /\ added.prev = HashOf(Tip(chain))
        /\ added.time > Tip(chain).time
        /\ SpendsLive(chain, added)

Next == AddBlock

Spec == Init /\ [][Next]_chain

(* A node that keeps its chain in memory only: each start is from genesis.  *)
Forget == chain' = <<GenesisBlock>>

LivesSpec == Init /\ [][Next \/ Forget]_chain

-----------------------------------------------------------------------------
(* What every chain of the ledger satisfies: a linked history of blocks     *)
(* without double spends.                                                   *)
ChainSafe ==
    /\ chain \in Seq(Block)
    /\ Len(chain) > 0
    /\ SpendsOnlyLive(chain)
    /\ IsLinked(chain)
=============================================================================
