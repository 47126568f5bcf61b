----------------------------- MODULE MCNodeParts ----------------------------
(***************************************************************************)
(* The classes UTXOSet, Mempool and RpcServer, each for itself.  They      *)
(* share no state, so a behaviour calls only one of them: the others stay  *)
(* as they start, and the states are those of the three side by side.      *)
(*                                                                         *)
(* The transactions are a coinbase k of two coins (3 and 2), a that spends *)
(* its first, d that spends both for a total of 105 that wraps to 5, e of  *)
(* one coin twice, f that is worth more than its inputs, of which the      *)
(* second may be missing, and n without inputs.                            *)
(***************************************************************************)
EXTENDS UTXOSet, Mempool, RpcServer, TLC

CONSTANTS k, a, d, e, f, n, zero, r1, r2, m1, m2

MCTx == {k, a, d, e, f, n}

MCInputs == (k :> <<<<zero, 0>>>>) @@ (a :> <<<<k, 1>>>>)
            @@ (d :> <<<<k, 1>>, <<k, 2>>>>) @@ (e :> <<<<k, 2>>, <<k, 2>>>>)
            @@ (f :> <<<<k, 2>>, <<a, 1>>>>) @@ (n :> <<>>)

MCOutputs == (k :> <<3, 2>>) @@ (a :> <<3>>) @@ (d :> <<98, 7>>)
             @@ (e :> <<>>) @@ (f :> <<6>>) @@ (n :> <<>>)

Mined(txs) == UNION {OutPointsOf(t) : t \in txs} \ UNION {SpendsOf(t) : t \in txs}

(* The coins before any block, after a block with k, and after further     *)
(* blocks with some of the spends; and those of a set to which the coins   *)
(* of k and a were added by hand.                                          *)
MCCoinSets ==
    {Mined({}), Mined({k}), Mined({k, a}), Mined({k, d}), OutPointsOf(k) \cup OutPointsOf(a)}

-----------------------------------------------------------------------------

allVars == <<vars, poolVars, serverVars>>

PartsInit == Init /\ PoolInit /\ ServerInit

SetAlone == PoolInit /\ ServerInit /\ Next /\ UNCHANGED <<poolVars, serverVars>>

PoolAlone == Init /\ ServerInit /\ PoolNext /\ UNCHANGED <<vars, serverVars>>

ServerAlone == Init /\ PoolInit /\ ServerNext /\ UNCHANGED <<vars, poolVars>>

PartsNext == SetAlone \/ PoolAlone \/ ServerAlone

PartsSpec == PartsInit /\ [][PartsNext]_allVars /\ ServerFairness
=============================================================================
