------------------------------- MODULE Wallet -------------------------------
(***************************************************************************)
(* Wallets at work on a node: Wallet::create_transaction and the listing   *)
(* it starts from (src/wallet/Wallet.cpp), the handlers of listunspent and *)
(* sendrawtransaction (src/main.cpp), and the node of module Node.         *)
(*                                                                         *)
(* The node stores no transaction that is sent to it: sendrawtransaction   *)
(* returns the id and forgets.  A wallet's transaction reaches the chain   *)
(* when someone carries it in a block to submitblock; no program of the    *)
(* repository does, so the carrier is external.  Wallets keep nothing from *)
(* one call to the next, and nothing tells a wallet, or the node, which    *)
(* coins another call has already promised.                                *)
(*                                                                         *)
(* Who a coin belongs to is the 20 bytes in its script.  The wallet takes  *)
(* them from an address in one way, the node in another.                   *)
(***************************************************************************)
EXTENDS Blocks, FiniteSetsExt, SequencesExt

CONSTANTS
    Caller,      \* the processes that call create_transaction
    Address,     \* the addresses, each a string
    Empty,       \* the empty string
    Written,     \* Written[a]: the 20 bytes build_p2pkh_script takes from a
    Read,        \* Read[a]: the 20 bytes parse_address_pkhash takes from a
    Pays,        \* Pays[t]: the 20 bytes in the script of each output of t
    Request,     \* what callers may ask for: from, to, amount and fee
    Coinbase,    \* the coinbases that blocks may carry
    MaxIssued,   \* bound on the transactions that wallets create
    None         \* no request

ASSUME WalletAssumption ==
    /\ \A t \in Tx : Len(Pays[t]) = Len(Outputs[t])
    /\ \A r \in Request : r \in [from : Address, to : Address,
                                 amount : 0 .. Wrap - 1, fee : 0 .. Wrap - 1]
    /\ Coinbase \subseteq {t \in Tx : IsCoinbase(t)}
    /\ MaxIssued \in Nat
    /\ None \notin Request

VARIABLES
    utxos, spentThisBlock, chain,   \* the node
    request,   \* the call of create_transaction each caller is in, or None
    listing,   \* the coins in the reply to its listunspent
    issued     \* the transactions created, each with its request

node == <<utxos, spentThisBlock, chain>>
vars == <<node, request, listing, issued>>

N == INSTANCE NodeSupply

-----------------------------------------------------------------------------
(* Coin selection and amounts. *)

(* What listunspent lists for an address: the coins for which               *)
(* script_pub_key_matches_address holds, or all if the address is empty.    *)
CoinsOf(a) == {op \in utxos : a # Empty => Pays[op[1]][op[2]] = Read[a]}

TotalOf(coins) == WrappedSum([i \in DOMAIN coins |-> ValueOf(coins[i])])

(* amount + fee, of type uint64_t. *)
Need(r) == (r.amount + r.fee) % Wrap

(* Coins whose total is enough, and is so only with the last of them.       *)
JustEnough(coins, r) ==
    /\ coins # <<>>
    /\ TotalOf(coins) >= Need(r)
    /\ \A n \in 1 .. Len(coins) - 1 : TotalOf(SubSeq(coins, 1, n)) < Need(r)

(* The loop over the coins: those up to the first with which the total is   *)
(* enough.  They come in the order of the node's unordered_map: any order.  *)
Selections(S, r) == {coins \in SetToAllKPermutations(S) : JustEnough(coins, r)}

(* [faulty: the amount is not taken off the change.] *)
ChangeWithAmount(r, total) == (total - r.fee) % Wrap

Change(r, total) == (total - r.amount - r.fee) % Wrap

(* Its outputs: the amount, and the change if any, with who they pay. *)
OutputsFor(r, total) ==
    IF Change(r, total) > 0 THEN <<r.amount, Change(r, total)>> ELSE <<r.amount>>

PaysFor(r, total) ==
    IF Change(r, total) > 0 THEN <<Written[r.to], Written[r.from]>> ELSE <<Written[r.to]>>

-----------------------------------------------------------------------------

Init ==
    /\ N!Init
    /\ request = [w \in Caller |-> None]
    /\ listing = [w \in Caller |-> {}]
    /\ issued = {}

(* create_transaction, up to the reply of the node to listunspent. *)
FetchUtxos(w, r) ==
    /\ request[w] = None
    /\ request' = [request EXCEPT ![w] = r]
    /\ listing' = [listing EXCEPT ![w] = CoinsOf(r.from)]
    /\ UNCHANGED <<node, issued>>

Return(w) ==
    /\ request' = [request EXCEPT ![w] = None]
    /\ listing' = [listing EXCEPT ![w] = {}]

(* No UTXOs found, Insufficient funds, or a private key that sign refuses:  *)
(* keys are not part of the model, so that any call may come to this.       *)
GiveUp(w) ==
    /\ request[w] # None
    /\ Return(w)
    /\ UNCHANGED <<node, issued>>

(* The rest of create_transaction: selection, outputs, and signatures,      *)
(* which are a function of the transaction and the key.                     *)
CreateTransaction(w) ==
    /\ request[w] # None
    /\ Cardinality(issued) < MaxIssued
    /\ LET r == request[w]
       IN  \E coins \in Selections(listing[w], r), t \in Tx :
              /\ Inputs[t] = coins
              /\ Outputs[t] = OutputsFor(r, TotalOf(coins))
              /\ Pays[t] = PaysFor(r, TotalOf(coins))
              /\ issued' = issued \cup {[tx |-> t, request |-> r]}
    /\ Return(w)
    /\ UNCHANGED node

(* The transactions that someone may put in one block: a coinbase, wallets' *)
(* transactions, in conflict or not, or both.                               *)
Carried ==
    LET sent == {i.tx : i \in issued}
    IN  {<<c>> : c \in Coinbase} \cup (Coinbase \X sent) \cup (sent \X sent)

(* submitblock for a block whose header is in order.                        *)
SubmitBlock(txs) ==
    /\ Tip(chain).time < MaxTime
    /\ N!SubmitBlock([prev |-> HashOf(Tip(chain)), time |-> Tip(chain).time + 1, nonce |-> 0,
                      fits |-> TRUE, txs |-> txs])
    /\ UNCHANGED <<request, listing, issued>>

Next ==
    \/ \E w \in Caller :
          (\E r \in Request : FetchUtxos(w, r)) \/ GiveUp(w) \/ CreateTransaction(w)
    \/ \E txs \in Carried : SubmitBlock(txs)

Spec == Init /\ [][Next]_vars

-----------------------------------------------------------------------------
(* Properties. *)

(* What a wallet creates the node takes if the coins it names pay the fee:  *)
(* as long as they are there and no refused block has recorded them, its    *)
(* totals pass however late it comes, and whatever has wrapped on the way.  *)
(* The wallet itself compares the coins with amount + fee, and if that      *)
(* wraps, they may not pay the fee: then the node does not take it.         *)
IssuedAreAccepted ==
    \A i \in issued :
        InputSet(i.tx) \subseteq utxos \ spentThisBlock
            => (N!SpendAccepted(i.tx, utxos, spentThisBlock)
                  <=> i.request.fee <= TotalInput(i.tx))

(* How many transactions of the chain create the coin op, and spend it. *)
TimesCreated(op) ==
    Cardinality({p \in (DOMAIN chain) \X (1 .. 2) :
                    p[2] \in DOMAIN chain[p[1]].txs /\ Creates(chain, p[1], p[2], op)})
TimesSpent(op) ==
    Cardinality({p \in (DOMAIN chain) \X (1 .. 2) :
                    p[2] \in DOMAIN chain[p[1]].txs /\ Spends(chain, p[1], p[2], op)})

(* A signed transaction can come again, or one in conflict with it, since   *)
(* wallets promise the same coins twice and a coinbase with the same reward *)
(* and payout is the same transaction: but a coin is spent no more often    *)
(* than it has been created.                                                *)
SpentNoMoreThanCreated ==
    \A i \in issued : \A op \in InputSet(i.tx) : TimesSpent(op) <= TimesCreated(op)

(* What wallets have made t for adds up to 2^64 or more, and t pays that    *)
(* much more than its coins are worth.                                      *)
Inflation(t) ==
    IF \E i \in issued : i.tx = t /\ i.request.amount + i.request.fee >= Wrap
    THEN Wrap ELSE 0

(* Wallets make no money but this: the coins of the node are never worth    *)
(* more than what the coinbases have issued, and 2^64 for each transaction  *)
(* of the chain that was asked for with an amount and a fee of 2^64 or more *)
(* together, which the wallet does not check.  Sums of coins that wrap, and *)
(* change, make none.                                                       *)
WalletsMakeNoMoney ==
    N!Supply <= N!Issued
        + SumFunction([j \in DOMAIN chain |->
              SumFunction([k \in DOMAIN chain[j].txs |-> Inflation(chain[j].txs[k])])])

(* Wallet.h:49: "Get UTXOs for address via RPC".  What wallets' transactions*)
(* pay to an address on the chain should be listed for it until it is spent.*)
PaymentsAreListed ==
    \A i \in issued :
        <<i.tx, 1>> \in utxos => <<i.tx, 1>> \in CoinsOf(i.request.to)
=============================================================================
