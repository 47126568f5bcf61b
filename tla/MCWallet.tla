------------------------------ MODULE MCWallet ------------------------------
(***************************************************************************)
(* Wallet with two addresses and the empty one: short is read by the node  *)
(* as it is written by the wallet, long is not, and for the empty one it   *)
(* lists all coins.  One request has an amount and a fee that add up to    *)
(* Wrap and more.  A transaction is the record of its inputs, of the       *)
(* values of its outputs and of whom they pay: the genesis transaction g,  *)
(* whose script is too short to pay anyone, the coinbase x to short, and   *)
(* what wallets may make of their coins in two steps: as many as the bound *)
(* on the transactions that they create.                                   *)
(***************************************************************************)
EXTENDS Wallet, TLC

CONSTANTS zero, short, long, hashA, hashB, hashC, zeros, nobody

MCAddress == {short, long, Empty}
MCWritten == (short :> hashA) @@ (long :> hashB) @@ (Empty :> zeros)
MCRead == (short :> hashA) @@ (long :> hashC) @@ (Empty :> zeros)

MCRequest == {[from |-> short, to |-> long, amount |-> 1, fee |-> 1],
              [from |-> short, to |-> short, amount |-> 15, fee |-> 4],
              [from |-> Empty, to |-> short, amount |-> 1, fee |-> 1]}

MadeOf(ins, outs, pays) == [ins |-> ins, outs |-> outs, pays |-> pays]

g == MadeOf(<<<<zero, 0>>>>, <<6>>, <<nobody>>)
x == MadeOf(<<<<zero, 0>>>>, <<3>>, <<hashA>>)

CoinsIn(txs) == UNION {{<<t, i>> : i \in DOMAIN t.outs} : t \in txs}

ValueIn(coins) == WrappedSum([i \in DOMAIN coins |-> coins[i][1].outs[coins[i][2]]])

(* The choices of up to three of these coins with which a wallet stops.     *)
Chosen(own, r) ==
    LET short1 == {<<op>> : op \in {o \in own : ValueIn(<<o>>) < Need(r)}}
        longer(some) == {Append(s, op) : s \in some, op \in own}
        short2 == {s \in longer(short1) : IsInjective(s) /\ ValueIn(s) < Need(r)}
    IN  {s \in {<<op>> : op \in own} \cup longer(short1) \cup longer(short2) :
            IsInjective(s) /\ ValueIn(s) >= Need(r)}

(* The transactions that wallets make of coins for the requests, with no    *)
(* more coins than they need.                                               *)
MadeFrom(coins) ==
    UNION {LET own == {op \in coins : r.from # Empty => op[1].pays[op[2]] = MCRead[r.from]}
           IN  {MadeOf(ins, OutputsFor(r, ValueIn(ins)), PaysFor(r, ValueIn(ins))) :
                  ins \in Chosen(own, r)} :
             r \in Request}

(* What wallets may have made in all, in one step more.                     *)
More(made) == UNION {{s \cup {t} : t \in MadeFrom(CoinsIn({g, x} \cup s))} : s \in made}

Made == {g, x} \cup UNION More(More({{}}))

(* These transactions in a list: a transaction is its number in it.         *)
List ==
    LET made == Made
        first[n \in 0 .. Cardinality(made)] ==
            IF n = 0 THEN <<>>
            ELSE LET some == first[n - 1]
                 IN  Append(some, CHOOSE t \in made : t \notin {some[i] : i \in 1 .. n - 1})
    IN  first[Cardinality(made)]

IdIn(list, t) == CHOOSE n \in DOMAIN list : list[n] = t

MCTx == DOMAIN List
MCInputs ==
    LET list == List
        named(op) == IF op[1] = zero THEN op ELSE <<IdIn(list, op[1]), op[2]>>
    IN  [n \in DOMAIN list |-> [i \in DOMAIN list[n].ins |-> named(list[n].ins[i])]]
MCOutputs == LET list == List IN [n \in DOMAIN list |-> list[n].outs]
MCPays == LET list == List IN [n \in DOMAIN list |-> list[n].pays]
MCGenesis == IdIn(List, g)
MCCoinbase == {IdIn(List, x)}

(* No caller differs from another.                                          *)
Symmetry == Permutations(Caller)
=============================================================================
