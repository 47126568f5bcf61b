------------------------------- MODULE MCNode -------------------------------
(***************************************************************************)
(* NodeSupply on a small set of transactions: the genesis coinbase g, a    *)
(* coinbase c that any number of blocks may carry, two spends a and b in   *)
(* conflict over the genesis coin (b splits it), d that joins coins of a   *)
(* and c, e that names one coin twice, n that has no input at all, o that  *)
(* is worth more than its input, and w whose outputs add up to the value   *)
(* of its input only because the sum wraps.                                *)
(***************************************************************************)
EXTENDS NodeSupply, SequencesExt

CONSTANTS g, c, a, b, d, e, n, o, w, zero

MCTx == {g, c, a, b, d, e, n, o, w}

MCInputs == (g :> <<<<zero, 0>>>>) @@ (c :> <<<<zero, 0>>>>)
            @@ (a :> <<<<g, 1>>>>) @@ (b :> <<<<g, 1>>>>)
            @@ (d :> <<<<c, 1>>, <<a, 1>>>>)
            @@ (e :> <<<<c, 1>>, <<c, 1>>>>)
            @@ (n :> <<>>) @@ (o :> <<<<c, 1>>>>) @@ (w :> <<<<g, 1>>>>)

MCOutputs == (g :> <<3>>) @@ (c :> <<2>>) @@ (a :> <<3>>) @@ (b :> <<1, 2>>)
             @@ (d :> <<5>>) @@ (e :> <<4>>) @@ (n :> <<0>>) @@ (o :> <<7>>)
             @@ (w :> <<Wrap - 1, 4>>)

(* The lists of at most two transactions of c, a, b and d; the genesis      *)
(* coinbase carried again, around a spend of its coin; and lists that the   *)
(* scan leaves at a second input, at a second transaction, or at the totals;*)
(* and the transaction whose outputs wrap, before and after a coinbase.     *)
MCTxLists ==
    SeqOf({c, a, b, d}, 2)
        \cup {<<g, a>>, <<a, g>>, <<e>>, <<a, e>>, <<c, n>>, <<o>>, <<a, o>>}
        \cup {<<w>>, <<c, w>>}
=============================================================================
