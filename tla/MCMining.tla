------------------------------ MODULE MCMining ------------------------------
(***************************************************************************)
(* Mining with two miners that are paid to the same address, and rewards   *)
(* that decay to the same value in the end.                                *)
(***************************************************************************)
EXTENDS Mining, TLC

CONSTANTS g, x, y, zero

MCTx == {g, x, y}

MCInputs == [t \in MCTx |-> <<<<zero, 0>>>>]

MCOutputs == (g :> <<6>>) @@ (x :> <<5>>) @@ (y :> <<4>>)

MCReward == [h \in 1 .. MaxTime + 1 |-> IF h = 1 THEN 5 ELSE 4]

MCCoinbaseOf == [m \in Miner |-> (5 :> x) @@ (4 :> y)]
=============================================================================
