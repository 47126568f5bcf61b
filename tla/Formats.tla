------------------------------ MODULE Formats -------------------------------
(***************************************************************************)
(* What passes between miner, wallet and node, and what each makes of it:  *)
(* methods, parameters and results as JSON (RpcCall), and blocks as hex    *)
(* digits in a parameter of submitblock (Wire).                            *)
(***************************************************************************)
EXTENDS RpcCall, Wire

CONSTANTS
    Blocks,        \* blocks that miners submit
    SubmitBlock    \* the name of the method submitblock

ASSUME FormatsAssumption ==
    /\ SubmitBlock \in Methods
    /\ Blocks \subseteq BlockData

VARIABLE submitted     \* the block that the client submits, or None

formatsVars == <<vars, submitted>>

FormatsInit ==
    /\ Init
    /\ submitted = None

(* The call of submitblock in main of Miner.cpp. *)
Submit(block) ==
    /\ Call(SubmitBlock, <<String(HexText(BlockBytes(block)))>>)
    /\ submitted' = block

FormatsNext ==
    \/ Next /\ UNCHANGED submitted
    \/ request = None /\ \E block \in Blocks : Submit(block)

FormatsSpec == FormatsInit /\ [][FormatsNext]_formatsVars

-----------------------------------------------------------------------------
(* Properties. *)

(* The block that the handler of submitblock reads is the block that the    *)
(* miner has built, to the last byte of the text.  Hence two blocks, and    *)
(* two transactions, that differ have different bytes: what other modules   *)
(* take for granted when they let a transaction be its own identifier.      *)
SubmittedBlocksArrive ==
    (submitted # None /\ handled # None) =>
        LET raw == Unhex(handled[2][1][2])
        IN  ReadBlock(raw) = <<submitted, Len(raw) + 1>>
=============================================================================
