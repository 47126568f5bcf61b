---------------------------- MODULE WalletProofs ----------------------------
(***************************************************************************)
(* Wallets at work on a node, for every set of callers, of addresses read  *)
(* and written in any way, of requests and of transactions: what wallets   *)
(* create the node takes, makes no money, and spends no coin more often    *)
(* than it has been created.                                               *)
(*                                                                         *)
(* The node's part is module NodeProofs: what it proves of the submission  *)
(* of a block holds for the blocks that carry wallets' transactions.       *)
(***************************************************************************)
EXTENDS Wallet, SumsProofs

NP == INSTANCE NodeProofs

-----------------------------------------------------------------------------
(* The node of Wallet is the one that NodeProofs is about. *)

(* Both add up as this module does.                                         *)
LEMMA NodeSums ==
    ASSUME NEW f
    PROVE  /\ NP!SumFunction(f) = SumFunction(f)
           /\ N!SumFunction(f) = SumFunction(f)
PROOF
<1> DEFINE S == DOMAIN f
           Sum == (CHOOSE it : SumsOn(it, f, SUBSET S))[S]
<1>1. SumFunction(f) = Sum
  BY SumUnfolds DEF SumFunction
<1>2. NP!SumFunctionOnSet(f, S) = Sum
  BY DEF NP!SumFunctionOnSet, NP!FoldFunctionOnSet, NP!MapThenFoldSet, SumsOn, Pick
<1>3. N!SumFunctionOnSet(f, S) = Sum
  BY DEF N!SumFunctionOnSet, N!FoldFunctionOnSet, N!MapThenFoldSet, SumsOn, Pick
<1>4. QED
  BY <1>1, <1>2, <1>3 DEF NP!SumFunction, N!SumFunction

(* Both read blocks and transactions as this module does.                   *)
LEMMA NodeReads ==
    /\ NP!Block = Block
    /\ NP!Coin = Coin
    /\ \A t : /\ NP!IsCoinbase(t) <=> IsCoinbase(t)
              /\ NP!OutPointsOf(t) = OutPointsOf(t)
              /\ NP!SpendsOf(t) = SpendsOf(t)
    /\ \A c, j, k, op : /\ NP!Creates(c, j, k, op) <=> Creates(c, j, k, op)
                        /\ NP!Spends(c, j, k, op) <=> Spends(c, j, k, op)
    /\ \A S : NP!WorthOf(S) = WorthOf(S) /\ N!WorthOf(S) = WorthOf(S)
    /\ \A t : NP!BeyondTotal(t) = N!BeyondTotal(t)
    /\ \A t : N!TotalOutput(t) = TotalOutput(t)
PROOF
<1>1. NP!Block = Block
  BY DEF Block, Hash, HeaderData, NP!Block, NP!Hash, NP!HeaderData
<1>2. \A t : /\ NP!IsCoinbase(t) <=> IsCoinbase(t)
             /\ NP!OutPointsOf(t) = OutPointsOf(t)
             /\ NP!SpendsOf(t) = SpendsOf(t)
  BY DEF SpendsOf, OutPointsOf, InputSet, IsCoinbase, NullOutPoint, NP!SpendsOf,
         NP!OutPointsOf, NP!InputSet, NP!IsCoinbase, NP!NullOutPoint
<1>3. NP!Coin = Coin
  BY <1>2 DEF Coin, NP!Coin
<1>4. \A c, j, k, op : /\ NP!Creates(c, j, k, op) <=> Creates(c, j, k, op)
                       /\ NP!Spends(c, j, k, op) <=> Spends(c, j, k, op)
  BY <1>2 DEF Creates, Spends, NP!Creates, NP!Spends
<1>5. \A S : NP!WorthOf(S) = WorthOf(S) /\ N!WorthOf(S) = WorthOf(S)
  BY NodeSums DEF WorthOf, ValueOf, NP!WorthOf, NP!ValueOf, N!WorthOf, N!ValueOf
<1>6. \A t : NP!TotalOutput(t) = TotalOutput(t) /\ N!TotalOutput(t) = TotalOutput(t)
  BY DEF TotalOutput, NP!TotalOutput, N!TotalOutput, WrappedSum, NP!WrappedSum, N!WrappedSum
<1>7. \A t : NP!BeyondTotal(t) = N!BeyondTotal(t)
  BY <1>2, <1>5, <1>6
     DEF NP!BeyondTotal, N!BeyondTotal, IsCoinbase, N!IsCoinbase, NullOutPoint, N!NullOutPoint,
         OutPointsOf, N!OutPointsOf
<1>8. QED
  BY <1>1, <1>2, <1>3, <1>4, <1>5, <1>6, <1>7

(* It starts in the same states.                                            *)
LEMMA NodeStarts == N!Init => NP!Init
BY DEF N!Init, N!GenesisBlock, N!OutPointsOf, NP!Init, NP!GenesisBlock, NP!OutPointsOf

(* It takes the same transactions.                                          *)
LEMMA NodeAccepts ==
    ASSUME NEW t, NEW u, NEW s
    PROVE  /\ NP!Accepts(t, u, s) <=> N!Accepts(t, u, s)
           /\ NP!Recorded(t, u, s) = N!Recorded(t, u, s)
PROOF
<1>1. NP!RefusedInputs(t, u, s) = N!RefusedInputs(t, u, s)
  BY DEF NP!RefusedInputs, N!RefusedInputs
<1>2. NP!IsCoinbase(t) <=> N!IsCoinbase(t)
  BY DEF NP!IsCoinbase, N!IsCoinbase, NP!NullOutPoint, N!NullOutPoint
<1>3. NP!TotalOutput(t) = N!TotalOutput(t) /\ NP!TotalInput(t) = N!TotalInput(t)
  BY DEF NP!TotalOutput, N!TotalOutput, NP!TotalInput, N!TotalInput, NP!WrappedSum,
         N!WrappedSum, NP!ValueOf, N!ValueOf
<1>4. NP!Accepts(t, u, s) <=> N!Accepts(t, u, s)
  BY <1>1, <1>2, <1>3 DEF NP!Accepts, N!Accepts, NP!SpendAccepted, N!SpendAccepted
<1>5. NP!Recorded(t, u, s) = N!Recorded(t, u, s)
  BY <1>1, <1>2 DEF NP!Recorded, N!Recorded
<1>6. QED
  BY <1>4, <1>5

(* It does the same with a block.                                           *)
LEMMA NodeSubmits ==
    ASSUME NEW b, N!SubmitBlock(b)
    PROVE  NP!SubmitBlock(b)
PROOF
<1>1. NP!HeaderAccepted(b) <=> N!HeaderAccepted(b)
  BY DEF NP!HeaderAccepted, N!HeaderAccepted, NP!CheckParentHash, N!CheckParentHash,
         NP!CheckTimestamp, N!CheckTimestamp, NP!CheckProofOfWork, N!CheckProofOfWork,
         NP!CheckBlockSize, N!CheckBlockSize, NP!HashOf, N!HashOf, NP!Tip, N!Tip
<1>2. \A t : NP!SpendsOf(t) = N!SpendsOf(t) /\ NP!InputSet(t) = N!InputSet(t)
             /\ NP!OutPointsOf(t) = N!OutPointsOf(t)
  BY DEF NP!SpendsOf, N!SpendsOf, NP!InputSet, N!InputSet, NP!IsCoinbase, N!IsCoinbase,
         NP!NullOutPoint, N!NullOutPoint, NP!OutPointsOf, N!OutPointsOf
<1>3. \A k : NP!SpentBefore(b, k) = N!SpentBefore(b, k)
  BY <1>2 DEF NP!SpentBefore, N!SpentBefore
<1>4. NP!RefusedTxs(b) = N!RefusedTxs(b)
  BY <1>3, NodeAccepts DEF NP!RefusedTxs, N!RefusedTxs
<1>5. NP!FirstRefused(b) = N!FirstRefused(b)
  BY <1>4 DEF NP!FirstRefused, N!FirstRefused
<1>6. \A u : NP!ApplyTxs(b.txs, u) = N!ApplyTxs(b.txs, u)
  BY <1>2 DEF NP!ApplyTxs, N!ApplyTxs
<1>7. CASE N!RejectHeader(b)
  BY <1>1, <1>7 DEF N!RejectHeader, NP!RejectHeader, NP!SubmitBlock, NP!vars, N!vars
<1>8. CASE N!RejectSpend(b)
  BY <1>1, <1>3, <1>4, <1>5, <1>8, NodeAccepts
     DEF N!RejectSpend, NP!RejectSpend, NP!SubmitBlock
<1>9. CASE N!AcceptBlock(b)
  BY <1>1, <1>3, <1>4, <1>6, <1>9 DEF N!AcceptBlock, NP!AcceptBlock, NP!SubmitBlock
<1>10. QED
  BY <1>7, <1>8, <1>9 DEF N!SubmitBlock

-----------------------------------------------------------------------------
(* What a wallet creates. *)

(* A number below w, and the same with w more or less, are the same to w.   *)
LEMMA RemainderAround ==
    ASSUME NEW a \in Nat, NEW w \in Nat \ {0}, a < w
    PROVE  (a + w) % w = a /\ (a - w) % w = a
OBVIOUS

(* One output is worth what it holds, and two what both hold.               *)
LEMMA SumOfOutputs ==
    ASSUME NEW a \in Nat, NEW b \in Nat
    PROVE  /\ SumFunction(<<a>>) = a
           /\ SumFunction(<<a, b>>) = a + b
PROOF
<1> DEFINE f == <<a>>
           g == <<a, b>>
<1>1. /\ DOMAIN f = {1} /\ f[1] = a
      /\ DOMAIN g = {1} \cup {2} /\ g[1] = a /\ g[2] = b
  OBVIOUS
<1>2. /\ SumFunction(f) = SumFunctionOnSet(f, {1})
      /\ SumFunction(g) = SumFunctionOnSet(g, {1} \cup {2})
  BY <1>1 DEF SumFunction
<1> HIDE DEF f, g
<1>3. SumFunctionOnSet(f, {1}) = a
  BY <1>1, SumOfOne
<1>4. IsFiniteSet({1}) /\ 2 \notin {1}
  BY FS_Singleton
<1>5. \A y \in {1} : f[y] \in Nat /\ g[y] = f[y]
  BY <1>1
<1>6. g[2] \in Nat
  BY <1>1
<1>7. SumFunctionOnSet(g, {1} \cup {2}) = SumFunctionOnSet(f, {1}) + g[2]
  BY <1>4, <1>5, <1>6, SumExtended
<1>8. QED
  BY <1>1, <1>2, <1>3, <1>7 DEF f, g

(* The same for the total that the node computes of two outputs.            *)
LEMMA TotalOfTwo ==
    ASSUME NEW a \in 0 .. Wrap - 1, NEW b \in 0 .. Wrap - 1
    PROVE  WrappedSum(<<a, b>>) = IF a + b < Wrap THEN a + b ELSE a + b - Wrap
PROOF
<1> DEFINE values == <<a, b>>
           sum == CHOOSE s : WrapsOn(s, values, 2)
<1>1. Len(values) = 2 /\ values[1] = a /\ values[2] = b
  OBVIOUS
<1>2. WrapsOn(sum, values, 2) /\ WrappedSum(values) = sum[2]
  BY <1>1, WrappedSumExists, WrappedSumUnfolds
<1> HIDE DEF sum, values
<1>3. Wrap \in Nat \ {0} /\ a \in Nat /\ b \in Nat /\ a < Wrap /\ b < Wrap
  BY TransactionsAssumption
<1>4. sum[0] = 0
  BY <1>2 DEF WrapsOn
<1>5. sum[1] = (sum[0] + values[1]) % Wrap
  BY <1>2 DEF WrapsOn
<1>6. sum[2] = (sum[1] + values[2]) % Wrap
  BY <1>2 DEF WrapsOn
<1>7. sum[1] = a
  <2>1. sum[0] + values[1] = a
    BY <1>1, <1>3, <1>4
  <2>2. a % Wrap = a
    BY <1>3, Remainder
  <2>3. QED
    BY <1>5, <2>1, <2>2
<1>8. sum[2] = (a + b) % Wrap
  BY <1>1, <1>6, <1>7
<1>9. CASE a + b < Wrap
  <2>1. a + b \in Nat
    BY <1>3
  <2>2. (a + b) % Wrap = a + b
    BY <1>3, <1>9, <2>1, Remainder
  <2>3. QED
    BY <1>2, <1>8, <1>9, <2>2 DEF values
<1>10. CASE ~(a + b < Wrap)
  <2>1. a + b - Wrap \in Nat /\ a + b - Wrap < Wrap /\ (a + b - Wrap) + Wrap = a + b
    BY <1>3, <1>10
  <2>2. (a + b) % Wrap = a + b - Wrap
    BY <1>3, <2>1, RemainderAround
  <2>3. QED
    BY <1>2, <1>8, <1>10, <2>2 DEF values
<1>11. QED
  BY <1>9, <1>10

(* What amount and fee have too much for Need.                              *)
Around(r) == IF r.amount + r.fee >= Wrap THEN Wrap ELSE 0

(* The outputs of create_transaction hold what the coins hold, less the     *)
(* fee; and Wrap more if amount and fee wrap around.  Their total is that,  *)
(* wrapped around.                                                          *)
LEMMA OutputsHoldTheRest ==
    ASSUME NEW r \in Request, NEW total \in 0 .. Wrap - 1, total >= Need(r)
    PROVE  LET rest == total - r.fee + Around(r)
               outs == OutputsFor(r, total)
           IN  /\ rest \in Nat
               /\ SumFunction(outs) = rest
               /\ WrappedSum(outs) = IF rest < Wrap THEN rest ELSE rest - Wrap
PROOF
<1> DEFINE rest == total - r.fee + Around(r)
           outs == OutputsFor(r, total)
           need == r.amount + r.fee - Around(r)
<1>1. /\ r.amount \in 0 .. Wrap - 1 /\ r.fee \in 0 .. Wrap - 1 /\ Wrap \in Nat \ {0}
      /\ Around(r) \in {0, Wrap}
  BY WalletAssumption, TransactionsAssumption DEF Around
<1>2. need \in 0 .. Wrap - 1
  BY <1>1 DEF Around
<1>3. Need(r) = need
  <2>1. CASE r.amount + r.fee < Wrap
    <3>1. r.amount + r.fee \in Nat
      BY <1>1
    <3>2. (r.amount + r.fee) % Wrap = r.amount + r.fee
      BY <1>1, <2>1, <3>1, Remainder
    <3>3. QED
      BY <1>1, <2>1, <3>1, <3>2 DEF Need, Around
  <2>2. CASE ~(r.amount + r.fee < Wrap)
    <3>1. need \in Nat /\ need < Wrap /\ need + Wrap = r.amount + r.fee
      BY <1>1, <1>2, <2>2 DEF Around
    <3> HIDE DEF need
    <3>2. (need + Wrap) % Wrap = need
      BY <1>1, <3>1, RemainderAround
    <3>3. QED
      BY <3>1, <3>2 DEF Need
  <2>3. QED
    BY <2>1, <2>2
<1>4. total - need \in Nat /\ total - need < Wrap
  BY <1>1, <1>2, <1>3
<1>5. Change(r, total) = total - need
  <2>1. CASE Around(r) = 0
    <3>1. total - r.amount - r.fee = total - need
      BY <1>1, <2>1
    <3>2. QED
      BY <1>1, <1>4, <3>1, Remainder DEF Change
  <2>2. CASE Around(r) = Wrap
    <3> DEFINE change == total - need
    <3>1. total - r.amount - r.fee = change - Wrap
      BY <1>1, <2>2
    <3>2. change \in Nat /\ change < Wrap
      BY <1>4
    <3> HIDE DEF change
    <3>3. (change - Wrap) % Wrap = change
      BY <1>1, <3>2, RemainderAround
    <3>4. QED
      BY <3>1, <3>3 DEF Change, change
  <2>3. QED
    BY <1>1, <2>1, <2>2
<1>6. rest = r.amount + (total - need)
  BY <1>1
<1>7. rest \in Nat
  BY <1>1, <1>4, <1>6
<1> HIDE DEF rest, need
<1>8. CASE Change(r, total) > 0
  <2>1. outs = <<r.amount, Change(r, total)>>
    BY <1>8 DEF OutputsFor
  <2>2. Change(r, total) \in 0 .. Wrap - 1 /\ rest = r.amount + Change(r, total)
    BY <1>1, <1>4, <1>5, <1>6
  <2>3. SumFunction(outs) = rest
    <3>1. r.amount \in Nat /\ Change(r, total) \in Nat
      BY <1>1, <2>2
    <3>2. SumFunction(<<r.amount, Change(r, total)>>) = r.amount + Change(r, total)
      BY <3>1, SumOfOutputs
    <3>3. QED
      BY <2>1, <2>2, <3>2
  <2>4. WrappedSum(outs) = IF rest < Wrap THEN rest ELSE rest - Wrap
    BY <1>1, <2>1, <2>2, TotalOfTwo
  <2>5. QED
    BY <1>7, <2>3, <2>4 DEF rest
<1>9. CASE ~(Change(r, total) > 0)
  <2>1. outs = <<r.amount>>
    BY <1>9 DEF OutputsFor
  <2>2. rest = r.amount
    BY <1>1, <1>4, <1>5, <1>6, <1>9
  <2>3. SumFunction(outs) = rest /\ rest < Wrap
    <3>1. r.amount \in Nat /\ r.amount < Wrap
      BY <1>1
    <3>2. SumFunction(<<r.amount>>) = r.amount
      BY <3>1, SumOfOutputs
    <3>3. QED
      BY <2>1, <2>2, <3>1, <3>2
  <2>4. WrappedSum(outs) = rest
    <3>1. outs \in Seq(Nat)
      BY <1>1, <2>1
    <3> HIDE DEF outs
    <3>2. QED
      BY <1>1, <2>3, <3>1, WrappedSumBound
  <2>5. QED
    BY <1>7, <2>3, <2>4 DEF rest
<1>10. QED
  BY <1>8, <1>9

(* The coins selected are distinct, and are some of those listed.           *)
LEMMA SelectionsAreListed ==
    ASSUME NEW S, NEW r, NEW coins \in Selections(S, r)
    PROVE  /\ coins # <<>>
           /\ TotalOf(coins) >= Need(r)
           /\ \A m \in DOMAIN coins : coins[m] \in S
           /\ \A m, n \in DOMAIN coins : m # n => coins[m] # coins[n]
PROOF
<1>1. /\ coins \in SetToAllKPermutations(S)
      /\ coins # <<>>
      /\ TotalOf(coins) >= Need(r)
  BY DEF Selections, JustEnough
<1>2. PICK U \in SUBSET S : coins \in SetToSeqs(U)
  BY <1>1 DEF SetToAllKPermutations
<1>3. /\ coins \in [1 .. Cardinality(U) -> U]
      /\ \A m, n \in 1 .. Cardinality(U) : m # n => coins[m] # coins[n]
  BY <1>2 DEF SetToSeqs
<1>4. QED
  BY <1>1, <1>3

(* A transaction that wallets have created: it names distinct coins, its    *)
(* total is no more than theirs if they pay the fee, and only then, and its *)
(* outputs hold no more than this total but what amount and fee wrap.       *)
WellMade(i) ==
    /\ i.request \in Request
    /\ i.tx \in Tx
    /\ Inputs[i.tx] # <<>>
    /\ InputSet(i.tx) \subseteq Coin
    /\ \A m \in DOMAIN Inputs[i.tx] : \A n \in 1 .. m-1 : Inputs[i.tx][n] # Inputs[i.tx][m]
    /\ TotalOutput(i.tx) <= TotalInput(i.tx) <=> i.request.fee <= TotalInput(i.tx)
    /\ N!BeyondTotal(i.tx) \in 0 .. Around(i.request)

LEMMA CreatedIsWellMade ==
    ASSUME NEW S \in SUBSET Coin, NEW r \in Request, NEW coins \in Selections(S, r),
           NEW t \in Tx, Inputs[t] = coins, Outputs[t] = OutputsFor(r, TotalOf(coins))
    PROVE  WellMade([tx |-> t, request |-> r])
PROOF
<1>1. /\ coins # <<>>
      /\ TotalOf(coins) >= Need(r)
      /\ \A m \in DOMAIN coins : coins[m] \in S
      /\ \A m, n \in DOMAIN coins : m # n => coins[m] # coins[n]
  BY SelectionsAreListed
<1>2. InputSet(t) \subseteq Coin
  BY <1>1 DEF InputSet
<1>3. DOMAIN Inputs[t] = 1 .. Len(Inputs[t]) /\ Len(Inputs[t]) \in Nat
  BY TransactionsAssumption
<1>4. \A m \in DOMAIN Inputs[t] : \A n \in 1 .. m-1 : Inputs[t][n] # Inputs[t][m]
  BY <1>1, <1>3
<1>5. TotalInput(t) = TotalOf(coins)
  BY DEF TotalInput, TotalOf
<1>6. TotalOf(coins) \in 0 .. Wrap - 1
  BY <1>2, <1>4, <1>5, WorthOfInputs
<1>7. /\ TotalOutput(t) <= TotalInput(t) <=> r.fee <= TotalInput(t)
      /\ N!BeyondTotal(t) \in 0 .. Around(r)
  <2> DEFINE total == TotalOf(coins)
             rest == total - r.fee + Around(r)
  <2>1. /\ rest \in Nat
        /\ SumFunction(Outputs[t]) = rest
        /\ WrappedSum(Outputs[t]) = IF rest < Wrap THEN rest ELSE rest - Wrap
    BY <1>1, <1>6, OutputsHoldTheRest
  <2>2. /\ total \in 0 .. Wrap - 1 /\ r.fee \in 0 .. Wrap - 1 /\ Wrap \in Nat \ {0}
        /\ Around(r) \in {0, Wrap}
    BY <1>6, WalletAssumption, TransactionsAssumption DEF Around
  <2>3. WorthOf(OutPointsOf(t)) = rest
    BY <2>1, WorthOfOutputs
  <2>4. TotalOutput(t) = IF rest < Wrap THEN rest ELSE rest - Wrap
    BY <2>1 DEF TotalOutput
  <2>5. N!BeyondTotal(t) \in {0, rest - TotalOutput(t)}
    <3>1. /\ N!WorthOf(OutPointsOf(t)) = WorthOf(OutPointsOf(t))
          /\ N!TotalOutput(t) = TotalOutput(t)
          /\ N!OutPointsOf(t) = OutPointsOf(t)
      BY NodeReads DEF N!OutPointsOf, OutPointsOf
    <3>2. QED
      BY <2>3, <3>1 DEF N!BeyondTotal
  <2>6. TotalInput(t) = total
    BY <1>5
  <2> DEFINE out == TotalOutput(t)
             around == Around(r)
             fee == r.fee
  <2>7. /\ total \in 0 .. Wrap - 1 /\ fee \in 0 .. Wrap - 1 /\ Wrap \in Nat \ {0}
        /\ around \in {0, Wrap} /\ rest = total - fee + around /\ rest \in Nat
        /\ out = IF rest < Wrap THEN rest ELSE rest - Wrap
    BY <2>1, <2>2, <2>4
  <2> HIDE DEF out, around, fee, total, rest
  <2>8. (out <= total <=> fee <= total) /\ rest - out \in 0 .. around /\ 0 \in 0 .. around
    BY <2>7
  <2>9. QED
    BY <2>5, <2>6, <2>8 DEF out, around, fee
<1>8. QED
  BY <1>1, <1>2, <1>4, <1>7 DEF WellMade

(* What a wallet creates the node takes, if its coins pay the fee, and only *)
(* then: whatever coins it names, and however late, if they are there and   *)
(* unrecorded.                                                              *)
LEMMA WellMadeIsAccepted ==
    ASSUME NEW i, WellMade(i), InputSet(i.tx) \subseteq utxos \ spentThisBlock
    PROVE  N!SpendAccepted(i.tx, utxos, spentThisBlock) <=> i.request.fee <= TotalInput(i.tx)
PROOF
<1> DEFINE t == i.tx
<1>1. /\ Inputs[t] # <<>>
      /\ \A m \in DOMAIN Inputs[t] : \A n \in 1 .. m-1 : Inputs[t][n] # Inputs[t][m]
      /\ TotalOutput(t) <= TotalInput(t) <=> i.request.fee <= TotalInput(t)
  BY DEF WellMade
<1>2. N!RefusedInputs(t, utxos, spentThisBlock) = {}
  BY <1>1 DEF N!RefusedInputs, InputSet
<1>3. N!TotalOutput(t) = TotalOutput(t) /\ N!TotalInput(t) = TotalInput(t)
  BY DEF TotalOutput, TotalInput, WrappedSum, ValueOf, N!TotalOutput, N!TotalInput,
         N!WrappedSum, N!ValueOf
<1>4. QED
  BY <1>1, <1>2, <1>3 DEF N!SpendAccepted

-----------------------------------------------------------------------------
(* How often a coin is created and spent on a chain. *)

(* The places of a chain, block and transaction, at which a transaction     *)
(* creates the coin, and spends it: TimesCreated and TimesSpent count them. *)
CreatedAt(c, op) ==
    {p \in (DOMAIN c) \X (1 .. 2) : p[2] \in DOMAIN c[p[1]].txs /\ Creates(c, p[1], p[2], op)}
SpentAt(c, op) ==
    {p \in (DOMAIN c) \X (1 .. 2) : p[2] \in DOMAIN c[p[1]].txs /\ Spends(c, p[1], p[2], op)}

LEMMA PlacesAreFinite ==
    ASSUME NEW c \in Seq(Block), NEW op
    PROVE  /\ IsFiniteSet(CreatedAt(c, op)) /\ Cardinality(CreatedAt(c, op)) \in Nat
           /\ IsFiniteSet(SpentAt(c, op)) /\ Cardinality(SpentAt(c, op)) \in Nat
PROOF
<1>1. DOMAIN c = 1 .. Len(c) /\ Len(c) \in Int
  OBVIOUS
<1>2. IsFiniteSet(1 .. Len(c)) /\ IsFiniteSet(1 .. 2)
  <2>1. 1 \in Int /\ 2 \in Int
    OBVIOUS
  <2>2. QED
    BY <1>1, <2>1, FS_Interval
<1>3. IsFiniteSet((DOMAIN c) \X (1 .. 2))
  BY <1>1, <1>2, FS_Product
<1>4. /\ CreatedAt(c, op) \in SUBSET ((DOMAIN c) \X (1 .. 2))
      /\ SpentAt(c, op) \in SUBSET ((DOMAIN c) \X (1 .. 2))
  BY DEF CreatedAt, SpentAt
<1>5. IsFiniteSet(CreatedAt(c, op)) /\ IsFiniteSet(SpentAt(c, op))
  BY <1>3, <1>4, FS_Subset
<1>6. QED
  BY <1>5, FS_CardinalityType

(* An appended block leaves the places before it alone: the coin is created *)
(* once more at least if a transaction of the block creates it.             *)
LEMMA CreatedGrows ==
    ASSUME NEW c \in Seq(Block), NEW b \in Block, NEW op
    PROVE  /\ Cardinality(CreatedAt(c, op)) <= Cardinality(CreatedAt(Append(c, b), op))
           /\ \A k \in (1 .. 2) \cap DOMAIN b.txs : op \in OutPointsOf(b.txs[k]) =>
                 Cardinality(CreatedAt(c, op)) + 1 <= Cardinality(CreatedAt(Append(c, b), op))
PROOF
<1> DEFINE d == Append(c, b)
           n == Len(c) + 1
           Old == CreatedAt(c, op)
           New == CreatedAt(d, op)
<1>1. /\ d \in Seq(Block)
      /\ DOMAIN d = 1 .. n
      /\ DOMAIN c = 1 .. Len(c)
      /\ Len(c) \in Nat
      /\ n \notin DOMAIN c
      /\ \A i \in DOMAIN c : i \in DOMAIN d /\ d[i] = c[i]
      /\ d[n] = b
  OBVIOUS
<1> HIDE DEF d
<1>2. Old \in SUBSET New
  BY <1>1 DEF CreatedAt, Creates
<1>3. IsFiniteSet(Old) /\ IsFiniteSet(New) /\ Cardinality(Old) \in Nat
  BY <1>1, PlacesAreFinite
<1>4. Cardinality(Old) <= Cardinality(New)
  BY <1>2, <1>3, FS_Subset
<1>5. ASSUME NEW k \in (1 .. 2) \cap DOMAIN b.txs, op \in OutPointsOf(b.txs[k])
      PROVE  Cardinality(Old) + 1 <= Cardinality(New)
  <2>1. <<n, k>> \in New
    BY <1>1, <1>5 DEF CreatedAt, Creates
  <2>2. <<n, k>> \notin Old
    BY <1>1 DEF CreatedAt
  <2> HIDE DEF Old, New
  <2>3. Old \cup {<<n, k>>} \in SUBSET New
    BY <1>2, <2>1
  <2>4. Cardinality(Old \cup {<<n, k>>}) = Cardinality(Old) + 1
    BY <1>3, <2>2, FS_AddElement
  <2>5. Cardinality(Old \cup {<<n, k>>}) <= Cardinality(New)
    BY <1>3, <2>3, FS_Subset
  <2>6. QED
    BY <2>4, <2>5
<1>6. QED
  BY <1>4, <1>5 DEF d

(* It is spent as often as before if none spends it, and once more if one   *)
(* does.                                                                    *)
LEMMA SpentGrows ==
    ASSUME NEW c \in Seq(Block), NEW b \in Block, NEW op
    PROVE  /\ (\A k \in DOMAIN b.txs : op \notin SpendsOf(b.txs[k])) =>
                 SpentAt(Append(c, b), op) = SpentAt(c, op)
           /\ \A k \in DOMAIN b.txs :
                 (\A j \in DOMAIN b.txs : j # k => op \notin SpendsOf(b.txs[j])) =>
                    Cardinality(SpentAt(Append(c, b), op)) <= Cardinality(SpentAt(c, op)) + 1
PROOF
<1> DEFINE d == Append(c, b)
           n == Len(c) + 1
           Old == SpentAt(c, op)
           New == SpentAt(d, op)
<1>1. /\ d \in Seq(Block)
      /\ DOMAIN d = 1 .. n
      /\ DOMAIN c = 1 .. Len(c)
      /\ Len(c) \in Nat
      /\ DOMAIN d = DOMAIN c \cup {n}
      /\ \A i \in DOMAIN c : i \in DOMAIN d /\ d[i] = c[i]
      /\ d[n] = b
  OBVIOUS
<1> HIDE DEF d
<1>2. Old \subseteq New
  BY <1>1 DEF SpentAt, Spends
<1>3. \A p \in New \ Old : /\ p[2] \in DOMAIN b.txs
                          /\ op \in SpendsOf(b.txs[p[2]])
                          /\ p = <<n, p[2]>>
  BY <1>1 DEF SpentAt, Spends
<1>4. IsFiniteSet(Old) /\ Cardinality(Old) \in Nat
  BY <1>1, PlacesAreFinite
<1> HIDE DEF Old, New
<1>5. ASSUME \A k \in DOMAIN b.txs : op \notin SpendsOf(b.txs[k])
      PROVE  New = Old
  BY <1>2, <1>3, <1>5
<1>6. ASSUME NEW k \in DOMAIN b.txs,
             \A j \in DOMAIN b.txs : j # k => op \notin SpendsOf(b.txs[j])
      PROVE  Cardinality(New) <= Cardinality(Old) + 1
  <2> DEFINE p == <<n, k>>
  <2>1. New \in SUBSET (Old \cup {p})
    BY <1>3, <1>6
  <2> HIDE DEF p
  <2>2. /\ IsFiniteSet(Old \cup {p})
        /\ Cardinality(Old \cup {p}) \in {Cardinality(Old), Cardinality(Old) + 1}
    BY <1>4, FS_AddElement
  <2>3. IsFiniteSet(New) /\ Cardinality(New) <= Cardinality(Old \cup {p})
    BY <2>1, <2>2, FS_Subset
  <2>4. Cardinality(New) \in Nat
    BY <2>3, FS_CardinalityType
  <2>5. QED
    BY <1>4, <2>2, <2>3, <2>4
<1>7. QED
  BY <1>5, <1>6 DEF d, Old, New

-----------------------------------------------------------------------------
(* The invariant. *)

(* The types of what callers hold.                                          *)
CallersTyped ==
    /\ request \in [Caller -> Request \cup {None}]
    /\ listing \in [Caller -> SUBSET Coin]

(* Blocks carry one or two transactions, coinbases or wallets'.             *)
BlocksCarry ==
    \A j \in DOMAIN chain : \A k \in DOMAIN chain[j].txs :
        /\ k \in 1 .. 2
        /\ \/ IsCoinbase(chain[j].txs[k])
           \/ \E i \in issued : i.tx = chain[j].txs[k]

(* A coin is spent no more often than it has been created, and is not a     *)
(* coin of the node any more when it is spent as often.                     *)
BooksKept ==
    \A op \in Coin :
        /\ TimesSpent(op) <= TimesCreated(op)
        /\ op \in utxos => TimesSpent(op) + 1 <= TimesCreated(op)

(* With what NodeProofs shows of any node, the inductive invariant.         *)
WalletInv ==
    /\ NP!NodeInv
    /\ NP!SupplyInv
    /\ CallersTyped
    /\ \A i \in issued : WellMade(i)
    /\ BlocksCarry
    /\ BooksKept

(* The times that a coin is created and spent are those of its places.      *)
LEMMA TimesCountPlaces ==
    ASSUME NEW op
    PROVE  /\ TimesCreated(op) = Cardinality(CreatedAt(chain, op))
           /\ TimesSpent(op) = Cardinality(SpentAt(chain, op))
BY DEF TimesCreated, TimesSpent, CreatedAt, SpentAt

(* What NodeProofs assumes of its constants.                                *)
LEMMA NodeAssumptions ==
    /\ NP!TransactionsAssumption
    /\ NP!BlocksAssumption
BY TransactionsAssumption, BlocksAssumption
   DEF NP!TransactionsAssumption, NP!BlocksAssumption, NP!OutPoint, OutPoint, NP!IsCoinbase,
       IsCoinbase, NP!NullOutPoint, NullOutPoint

(* It holds when the node has started.                                      *)
LEMMA WalletInvInit == Init => WalletInv
PROOF
<1> SUFFICES ASSUME Init
             PROVE  WalletInv
  OBVIOUS
<1>1. NP!Init
  BY NodeStarts DEF Init
<1>2. NP!NodeInv /\ NP!SupplyInv
  BY <1>1, NodeAssumptions, NP!NodeInvInit, NP!SupplyInvInit
<1>3. CallersTyped
  BY DEF Init, CallersTyped
<1>4. /\ chain = <<GenesisBlock>>
      /\ utxos = OutPointsOf(GenesisTx)
      /\ issued = {}
  BY DEF Init, N!Init, N!GenesisBlock, GenesisBlock, N!OutPointsOf, OutPointsOf
<1>5. /\ DOMAIN chain = {1}
      /\ DOMAIN chain[1].txs = {1}
      /\ chain[1].txs[1] = GenesisTx
      /\ IsCoinbase(GenesisTx)
  BY <1>4, BlocksAssumption DEF GenesisBlock
<1>6. BlocksCarry
  BY <1>5 DEF BlocksCarry
<1>7. BooksKept
  <2>1. ASSUME NEW op \in Coin
        PROVE  /\ TimesSpent(op) <= TimesCreated(op)
               /\ op \in utxos => TimesSpent(op) + 1 <= TimesCreated(op)
    <3>1. SpentAt(chain, op) = {}
      BY <1>5 DEF SpentAt, Spends, SpendsOf
    <3>2. TimesSpent(op) = 0
      BY <3>1, FS_EmptySet, TimesCountPlaces
    <3>3. chain \in Seq(Block)
      BY <1>2, NodeReads DEF NP!NodeInv, NP!TypeOK
    <3>4. TimesCreated(op) \in Nat
      BY <3>3, PlacesAreFinite, TimesCountPlaces
    <3>5. ASSUME op \in utxos
          PROVE  1 <= TimesCreated(op)
      <4>1. CreatedAt(chain, op) = {<<1, 1>>}
        BY <1>4, <1>5, <3>5 DEF CreatedAt, Creates
      <4>2. Cardinality({<<1, 1>>}) = 1
        BY FS_Singleton
      <4>3. QED
        BY <4>1, <4>2, TimesCountPlaces
    <3>6. QED
      BY <3>2, <3>4, <3>5
  <2>2. QED
    BY <2>1 DEF BooksKept
<1>8. QED
  BY <1>2, <1>3, <1>4, <1>6, <1>7 DEF WalletInv

(* Nothing but a block changes the node: the callers' steps leave its part  *)
(* alone.                                                                   *)
LEMMA NodeUntouched ==
    ASSUME WalletInv, UNCHANGED node, issued \subseteq issued'
    PROVE  NP!NodeInv' /\ NP!SupplyInv' /\ BlocksCarry' /\ BooksKept'
PROOF
<1>1. NP!NodeInv /\ NP!SupplyInv
  BY DEF WalletInv
<1>2. UNCHANGED NP!vars /\ UNCHANGED <<utxos, chain>>
  BY DEF node, NP!vars
<1>3. NP!NodeInv' /\ NP!SupplyInv'
  BY <1>1, <1>2, NodeAssumptions, NP!NodeInvUnchanged, NP!SupplyInvUnchanged
<1>4. BlocksCarry'
  BY <1>2 DEF WalletInv, BlocksCarry
<1>5. BooksKept'
  BY <1>2 DEF WalletInv, BooksKept, TimesSpent, TimesCreated
<1>6. QED
  BY <1>3, <1>4, <1>5

LEMMA FetchKeepsInv ==
    ASSUME WalletInv, NEW w \in Caller, NEW r \in Request, FetchUtxos(w, r)
    PROVE  WalletInv'
PROOF
<1>1. /\ request' = [request EXCEPT ![w] = r]
      /\ listing' = [listing EXCEPT ![w] = CoinsOf(r.from)]
      /\ UNCHANGED node
      /\ issued' = issued
  BY DEF FetchUtxos
<1>2. utxos \subseteq Coin
  BY NodeReads DEF WalletInv, NP!SupplyInv
<1>3. CoinsOf(r.from) \in SUBSET Coin
  BY <1>2 DEF CoinsOf
<1>4. request' \in [Caller -> Request \cup {None}]
  BY <1>1 DEF WalletInv, CallersTyped
<1>5. listing' \in [Caller -> SUBSET Coin]
  BY <1>1, <1>3 DEF WalletInv, CallersTyped
<1>6. (\A i \in issued : WellMade(i))'
  BY <1>1 DEF WalletInv, WellMade
<1>7. QED
  BY <1>1, <1>4, <1>5, <1>6, NodeUntouched DEF WalletInv, CallersTyped

(* A caller that has returned holds no request and no listing.              *)
LEMMA ReturnKeepsTypes ==
    ASSUME CallersTyped, NEW w \in Caller, Return(w)
    PROVE  CallersTyped'
PROOF
<1>1. request' \in [Caller -> Request \cup {None}]
  BY DEF CallersTyped, Return
<1>2. listing' \in [Caller -> SUBSET Coin]
  BY DEF CallersTyped, Return
<1>3. QED
  BY <1>1, <1>2 DEF CallersTyped

LEMMA GiveUpKeepsInv ==
    ASSUME WalletInv, NEW w \in Caller, GiveUp(w)
    PROVE  WalletInv'
PROOF
<1>1. Return(w) /\ UNCHANGED node /\ issued' = issued
  BY DEF GiveUp
<1>2. CallersTyped'
  BY <1>1, ReturnKeepsTypes DEF WalletInv
<1>3. (\A i \in issued : WellMade(i))'
  BY <1>1 DEF WalletInv, WellMade
<1>4. QED
  BY <1>1, <1>2, <1>3, NodeUntouched DEF WalletInv

LEMMA CreateKeepsInv ==
    ASSUME WalletInv, NEW w \in Caller, CreateTransaction(w)
    PROVE  WalletInv'
PROOF
<1> DEFINE r == request[w]
<1>1. Return(w) /\ UNCHANGED node /\ r # None
  BY DEF CreateTransaction
<1>2. r \in Request /\ listing[w] \in SUBSET Coin
  BY <1>1 DEF WalletInv, CallersTyped
<1>3. PICK coins \in Selections(listing[w], r), t \in Tx :
          /\ Inputs[t] = coins
          /\ Outputs[t] = OutputsFor(r, TotalOf(coins))
          /\ issued' = issued \cup {[tx |-> t, request |-> r]}
  BY DEF CreateTransaction
<1>4. WellMade([tx |-> t, request |-> r])
  BY <1>2, <1>3, CreatedIsWellMade
<1>5. CallersTyped'
  BY <1>1, ReturnKeepsTypes DEF WalletInv
<1> HIDE DEF r
<1>6. (\A i \in issued : WellMade(i))'
  <2>1. \A i \in issued' : WellMade(i)
    BY <1>3, <1>4 DEF WalletInv
  <2>2. QED
    BY <2>1 DEF WellMade
<1>7. issued \subseteq issued'
  BY <1>3
<1>8. QED
  BY <1>1, <1>5, <1>6, <1>7, NodeUntouched DEF WalletInv

-----------------------------------------------------------------------------
(* The submission of a block that carries wallets' transactions. *)

(* What is carried are one or two transactions, coinbases or wallets'.      *)
LEMMA CarriedTxs ==
    ASSUME \A i \in issued : WellMade(i), NEW txs \in Carried
    PROVE  /\ txs \in Seq(Tx)
           /\ \A k \in DOMAIN txs :
                 /\ k \in 1 .. 2
                 /\ IsCoinbase(txs[k]) \/ \E i \in issued : i.tx = txs[k]
PROOF
<1> DEFINE sent == {i.tx : i \in issued}
<1>1. sent \subseteq Tx
  BY DEF WellMade
<1>2. Coinbase \subseteq Tx /\ \A c \in Coinbase : IsCoinbase(c)
  BY WalletAssumption
<1>3. \A t \in sent : \E i \in issued : i.tx = t
  OBVIOUS
<1>4. txs \in {<<c>> : c \in Coinbase} \cup (Coinbase \X sent) \cup (sent \X sent)
  BY DEF Carried
<1> HIDE DEF sent
<1>5. CASE txs \in {<<c>> : c \in Coinbase}
  <2>1. PICK c \in Coinbase : txs = <<c>>
    BY <1>5
  <2>2. QED
    BY <1>2, <2>1
<1>6. CASE txs \in (Coinbase \X sent) \cup (sent \X sent)
  <2>1. PICK t1 \in Coinbase \cup sent, t2 \in sent : txs = <<t1, t2>>
    BY <1>6
  <2>2. t1 \in Tx /\ t2 \in Tx
    BY <1>1, <1>2, <2>1
  <2>3. IsCoinbase(t1) \/ \E i \in issued : i.tx = t1
    BY <1>2, <1>3, <2>1
  <2>4. \E i \in issued : i.tx = t2
    BY <1>3, <2>1
  <2>5. DOMAIN txs = 1 .. 2 /\ txs[1] = t1 /\ txs[2] = t2
    BY <2>1
  <2>6. QED
    BY <2>1, <2>2, <2>3, <2>4, <2>5
<1>7. QED
  BY <1>4, <1>5, <1>6

(* An accepted block keeps the books of a coin: a coin spent was there, and *)
(* one that is there was there unspent, or has been created again.          *)
LEMMA AcceptKeepsBooks ==
    ASSUME WalletInv, NEW b \in Block, \A k \in DOMAIN b.txs : k \in 1 .. 2,
           NP!AcceptBlock(b)
    PROVE  BooksKept'
PROOF
<1>1. chain \in Seq(Block) /\ NP!TypeOK
  BY NodeReads DEF WalletInv, NP!NodeInv, NP!TypeOK
<1>2. /\ NP!RefusedTxs(b) = {}
      /\ chain' = Append(chain, b)
      /\ utxos' = NP!ApplyTxs(b.txs, utxos \ NP!SpentBefore(b, Len(b.txs) + 1))
  BY DEF NP!AcceptBlock
<1>3. \A k \in DOMAIN b.txs : \A op \in SpendsOf(b.txs[k]) :
          \A j \in DOMAIN b.txs : j # k => op \notin SpendsOf(b.txs[j])
  <2>1. NP!SpendsLive(chain, b)
    BY <1>2, NodeAssumptions, NodeReads, NP!AcceptedSpendsLive DEF WalletInv
  <2>2. QED
    BY <2>1, NodeReads DEF NP!SpendsLive
<1>4. \A k \in DOMAIN b.txs : SpendsOf(b.txs[k]) \subseteq utxos
  <2>1. ASSUME NEW k \in DOMAIN b.txs
        PROVE  SpendsOf(b.txs[k]) \subseteq utxos
    <3>1. b.txs[k] \in Tx
      BY DEF Block
    <3>2. NP!Accepts(b.txs[k], utxos, NP!SpentBefore(b, k))
      BY <1>2 DEF NP!RefusedTxs
    <3>3. \A op \in NP!SpendsOf(b.txs[k]) : op \in utxos
      BY <3>1, <3>2, NodeAssumptions, NP!AcceptedSpendsCoins
    <3>4. QED
      BY <3>3, NodeReads
  <2>2. QED
    BY <2>1
<1>5. \A op \in utxos' : \/ op \in utxos /\ \A j \in DOMAIN b.txs : op \notin SpendsOf(b.txs[j])
                        \/ \E k \in DOMAIN b.txs : op \in OutPointsOf(b.txs[k])
  BY <1>1, <1>2, NodeAssumptions, NodeReads, NP!AppliedCoins
<1>6. ASSUME NEW op \in Coin
      PROVE  /\ TimesSpent(op)' <= TimesCreated(op)'
             /\ op \in utxos' => TimesSpent(op)' + 1 <= TimesCreated(op)'
  <2> DEFINE s == Cardinality(SpentAt(chain, op))
             c == Cardinality(CreatedAt(chain, op))
             s1 == Cardinality(SpentAt(Append(chain, b), op))
             c1 == Cardinality(CreatedAt(Append(chain, b), op))
  <2>1. /\ s \in Nat /\ c \in Nat /\ s1 \in Nat /\ c1 \in Nat
    <3>1. Append(chain, b) \in Seq(Block)
      BY <1>1
    <3>2. QED
      BY <1>1, <3>1, PlacesAreFinite
  <2>2. s <= c /\ (op \in utxos => s + 1 <= c)
    BY TimesCountPlaces DEF WalletInv, BooksKept
  <2>3. TimesSpent(op)' = s1 /\ TimesCreated(op)' = c1
    BY <1>2 DEF TimesSpent, TimesCreated, SpentAt, CreatedAt
  <2>4. /\ c <= c1
        /\ (\E k \in DOMAIN b.txs : op \in OutPointsOf(b.txs[k])) => c + 1 <= c1
    BY <1>1, CreatedGrows
  <2>5. (\A k \in DOMAIN b.txs : op \notin SpendsOf(b.txs[k])) => s1 = s
    BY <1>1, SpentGrows
  <2>6. \A k \in DOMAIN b.txs : op \in SpendsOf(b.txs[k]) => s1 <= s + 1
    BY <1>1, <1>3, SpentGrows
  <2> HIDE DEF s, c, s1, c1
  <2>7. CASE \A k \in DOMAIN b.txs : op \notin SpendsOf(b.txs[k])
    BY <1>5, <2>1, <2>2, <2>3, <2>4, <2>5, <2>7
  <2>8. CASE \E k \in DOMAIN b.txs : op \in SpendsOf(b.txs[k])
    <3>1. op \in utxos /\ s1 <= s + 1
      BY <1>4, <2>6, <2>8
    <3>2. op \in utxos' => c + 1 <= c1
      BY <1>5, <2>4, <2>8
    <3>3. QED
      BY <2>1, <2>2, <2>3, <2>4, <3>1, <3>2
  <2>9. QED
    BY <2>7, <2>8
<1>7. QED
  BY <1>6 DEF BooksKept

LEMMA SubmitBlockKeepsInv ==
    ASSUME WalletInv, NEW txs \in Carried, SubmitBlock(txs)
    PROVE  WalletInv'
PROOF
<1> DEFINE b == [prev |-> HashOf(Tip(chain)), time |-> Tip(chain).time + 1, nonce |-> 0,
                 fits |-> TRUE, txs |-> txs]
<1>1. /\ txs \in Seq(Tx)
      /\ \A k \in DOMAIN txs :
            /\ k \in 1 .. 2
            /\ IsCoinbase(txs[k]) \/ \E i \in issued : i.tx = txs[k]
  BY CarriedTxs DEF WalletInv
<1>2. chain \in Seq(Block) \ {<<>>}
  BY NodeReads DEF WalletInv, NP!NodeInv, NP!TypeOK
<1>3. b \in Block
  <2>1. Tip(chain) \in Block
    BY <1>2 DEF Tip
  <2>2. /\ Tip(chain).time + 1 \in 0 .. MaxTime
        /\ HashOf(Tip(chain)) \in Hash
    BY <2>1, BlocksAssumption DEF SubmitBlock, HashOf, Block, Hash, HeaderData
  <2>3. QED
    BY <1>1, <2>2, BlocksAssumption DEF Block
<1>4. N!SubmitBlock(b) /\ request' = request /\ listing' = listing /\ issued' = issued
  BY DEF SubmitBlock
<1>5. b.txs = txs
  OBVIOUS
<1> HIDE DEF b
<1>6. NP!SubmitBlock(b)
  BY <1>4, NodeSubmits
<1>7. NP!NodeInv' /\ NP!SupplyInv'
  BY <1>3, <1>6, NodeAssumptions, NodeReads, NP!SubmitKeepsInv, NP!SubmitKeepsSupply
     DEF WalletInv
<1>8. CallersTyped' /\ (\A i \in issued : WellMade(i))'
  BY <1>4 DEF WalletInv, CallersTyped, WellMade
<1>9. CASE UNCHANGED <<utxos, chain>>
  <2>1. BlocksCarry'
    BY <1>4, <1>9 DEF WalletInv, BlocksCarry
  <2>2. BooksKept'
    BY <1>9 DEF WalletInv, BooksKept, TimesSpent, TimesCreated
  <2>3. QED
    BY <1>7, <1>8, <2>1, <2>2 DEF WalletInv
<1>10. CASE NP!AcceptBlock(b)
  <2>1. chain' = Append(chain, b)
    BY <1>10 DEF NP!AcceptBlock
  <2>2. BlocksCarry'
    <3>1. /\ DOMAIN chain' = DOMAIN chain \cup {Len(chain) + 1}
          /\ \A j \in DOMAIN chain : chain'[j] = chain[j]
          /\ chain'[Len(chain) + 1] = b
      BY <1>2, <1>3, <2>1
    <3>2. QED
      BY <1>1, <1>4, <1>5, <3>1 DEF WalletInv, BlocksCarry
  <2>3. BooksKept'
    BY <1>1, <1>3, <1>5, <1>10, AcceptKeepsBooks
  <2>4. QED
    BY <1>7, <1>8, <2>2, <2>3 DEF WalletInv
<1>11. QED
  BY <1>6, <1>9, <1>10 DEF NP!SubmitBlock, NP!RejectHeader, NP!RejectSpend, NP!vars

LEMMA WalletInvNext == WalletInv /\ [Next]_vars => WalletInv'
PROOF
<1>1. ASSUME WalletInv, UNCHANGED vars
      PROVE  WalletInv'
  <2>1. UNCHANGED node /\ issued' = issued /\ request' = request /\ listing' = listing
    BY <1>1 DEF vars
  <2>2. CallersTyped' /\ (\A i \in issued : WellMade(i))'
    BY <1>1, <2>1 DEF WalletInv, CallersTyped, WellMade
  <2>3. QED
    BY <1>1, <2>1, <2>2, NodeUntouched DEF WalletInv
<1>2. QED
  BY <1>1, FetchKeepsInv, GiveUpKeepsInv, CreateKeepsInv, SubmitBlockKeepsInv DEF Next

(* The invariant holds whatever the callers and the carrier do.             *)
THEOREM WalletInvariant == Spec => []WalletInv
BY WalletInvInit, WalletInvNext, PTL DEF Spec

(* What a wallet creates the node takes if the coins it names pay the fee,  *)
(* and only then, as long as they are there and unrecorded: whatever it     *)
(* selects among those listed, in whatever order, whatever amounts wrap,    *)
(* and however late the transaction comes.                                  *)
THEOREM WhatIsIssuedIsAccepted == Spec => []IssuedAreAccepted
PROOF
<1>1. WalletInv => IssuedAreAccepted
  BY WellMadeIsAccepted DEF WalletInv, IssuedAreAccepted
<1>2. QED
  BY <1>1, WalletInvariant, PTL

(* No coin that wallets spend is spent more often than it has been created, *)
(* though callers promise the same coins, and a transaction may come again. *)
THEOREM NoCoinIsOverspent == Spec => []SpentNoMoreThanCreated
PROOF
<1>1. WalletInv => SpentNoMoreThanCreated
  BY DEF WalletInv, WellMade, BooksKept, SpentNoMoreThanCreated
<1>2. QED
  BY <1>1, WalletInvariant, PTL

(* What transactions of the chain pay beyond their totals, they have been   *)
(* asked for with amounts and fees that wrap around.                        *)
Inflated == [j \in DOMAIN chain |->
                SumFunction([k \in DOMAIN chain[j].txs |-> Inflation(chain[j].txs[k])])]

LEMMA OverflowIsInflation ==
    ASSUME WalletInv
    PROVE  /\ N!Overflowed \in Nat /\ SumFunction(Inflated) \in Nat
           /\ N!Overflowed <= SumFunction(Inflated)
PROOF
<1> DEFINE In(j) == [k \in DOMAIN chain[j].txs |-> N!BeyondTotal(chain[j].txs[k])]
           Out(j) == [k \in DOMAIN chain[j].txs |-> Inflation(chain[j].txs[k])]
           all == [j \in DOMAIN chain |-> SumFunction(In(j))]
<1>1. /\ chain \in Seq(Block)
      /\ IsFiniteSet(DOMAIN chain)
  <2>1. chain \in Seq(Block)
    BY NodeReads DEF WalletInv, NP!NodeInv, NP!TypeOK
  <2>2. QED
    BY <2>1, SeqRangeFinite
<1>2. Wrap \in Nat
  BY TransactionsAssumption
<1>3. ASSUME NEW j \in DOMAIN chain
      PROVE  /\ SumFunction(In(j)) \in Nat /\ SumFunction(Out(j)) \in Nat
             /\ SumFunction(In(j)) <= SumFunction(Out(j))
  <2>1. chain[j] \in Block
    BY <1>1
  <2>2. IsFiniteSet(DOMAIN chain[j].txs)
    <3>1. chain[j].txs \in Seq(Tx)
      BY <2>1 DEF Block
    <3>2. QED
      BY <3>1, SeqRangeFinite
  <2>3. \A k \in DOMAIN chain[j].txs :
           In(j)[k] \in Nat /\ Out(j)[k] \in Nat /\ In(j)[k] <= Out(j)[k]
    <3>1. ASSUME NEW k \in DOMAIN chain[j].txs
          PROVE  LET t == chain[j].txs[k]
                 IN  /\ N!BeyondTotal(t) \in Nat /\ Inflation(t) \in Nat
                     /\ N!BeyondTotal(t) <= Inflation(t)
      <4> DEFINE t == chain[j].txs[k]
      <4>1. Inflation(t) \in {0, Wrap}
        BY DEF Inflation
      <4>2. CASE IsCoinbase(t)
        <5>1. N!BeyondTotal(t) = 0
          BY <4>2 DEF N!BeyondTotal, N!IsCoinbase, IsCoinbase, N!NullOutPoint, NullOutPoint
        <5>2. QED
          BY <1>2, <4>1, <5>1
      <4>3. CASE \E i \in issued : i.tx = t
        <5>1. PICK i \in issued : i.tx = t
          BY <4>3
        <5>2. N!BeyondTotal(t) \in 0 .. Around(i.request)
          BY <5>1 DEF WalletInv, WellMade
        <5>3. CASE i.request.amount + i.request.fee >= Wrap
          <6>1. Inflation(t) = Wrap /\ Around(i.request) = Wrap
            BY <5>1, <5>3 DEF Inflation, Around
          <6>2. QED
            BY <1>2, <5>2, <6>1
        <5>4. CASE ~(i.request.amount + i.request.fee >= Wrap)
          <6>1. Around(i.request) = 0
            BY <5>4 DEF Around
          <6>2. QED
            BY <1>2, <4>1, <5>2, <6>1
        <5>5. QED
          BY <5>3, <5>4
      <4>4. QED
        BY <4>2, <4>3 DEF WalletInv, BlocksCarry
    <3>2. QED
      BY <3>1
  <2>4. /\ SumFunction(In(j)) = SumFunctionOnSet(In(j), DOMAIN chain[j].txs)
        /\ SumFunction(Out(j)) = SumFunctionOnSet(Out(j), DOMAIN chain[j].txs)
    BY DEF SumFunction
  <2> HIDE DEF In, Out
  <2>5. QED
    BY <2>2, <2>3, <2>4, SumMonotone, SumNatural
<1>4. N!Overflowed = SumFunction(all)
  BY NodeSums DEF N!Overflowed
<1>5. /\ SumFunction(all) = SumFunctionOnSet(all, DOMAIN chain)
      /\ SumFunction(Inflated) = SumFunctionOnSet(Inflated, DOMAIN chain)
      /\ \A j \in DOMAIN chain :
            all[j] \in Nat /\ Inflated[j] \in Nat /\ all[j] <= Inflated[j]
  BY <1>3 DEF SumFunction, Inflated
<1> HIDE DEF all
<1>6. QED
  BY <1>1, <1>4, <1>5, SumMonotone, SumNatural

(* Wallets make no money but what amounts and fees wrap: the coins of the   *)
(* node are worth at most what the coinbases issue, and Wrap for each       *)
(* transaction of the chain whose amount and fee do.                        *)
THEOREM NoMoneyFromWallets == Spec => []WalletsMakeNoMoney
PROOF
<1>1. WalletInv => WalletsMakeNoMoney
  <2> SUFFICES ASSUME WalletInv
               PROVE  N!Supply <= N!Issued + SumFunction(Inflated)
    BY DEF WalletsMakeNoMoney, Inflated
  <2>1. NP!Supply <= NP!Issued + NP!Overflowed
    BY DEF WalletInv, NP!SupplyInv, NP!SupplyIssued
  <2>2. NP!Supply = N!Supply /\ NP!Issued = N!Issued /\ NP!Overflowed = N!Overflowed
    <3>1. NP!Supply = N!Supply
      BY NodeReads DEF NP!Supply, N!Supply
    <3>2. \A t : NP!IssuedBy(t) = N!IssuedBy(t)
      BY NodeReads DEF NP!IssuedBy, N!IssuedBy, IsCoinbase, N!IsCoinbase, NullOutPoint,
                       N!NullOutPoint, OutPointsOf, N!OutPointsOf
    <3>3. NP!Issued = N!Issued
      BY <3>2, NodeSums DEF NP!Issued, N!Issued
    <3>4. NP!Overflowed = N!Overflowed
      BY NodeReads, NodeSums DEF NP!Overflowed, N!Overflowed
    <3>5. QED
      BY <3>1, <3>3, <3>4
  <2>3. /\ N!Overflowed \in Nat /\ SumFunction(Inflated) \in Nat
        /\ N!Overflowed <= SumFunction(Inflated)
    BY OverflowIsInflation
  <2>4. N!Issued \in Nat
    <3>1. NP!Issued = NP!IssuedOn(chain) /\ chain \in Seq(NP!Block) \ {<<>>}
      BY NodeAssumptions, NP!BooksOfChain DEF WalletInv, NP!NodeInv, NP!TypeOK
    <3>2. chain[1] \in NP!Block
      BY <3>1
    <3>3. NP!IssuedOn(chain) \in Nat
      BY <3>1, <3>2, NodeAssumptions, NP!BooksGrow
    <3>4. QED
      BY <2>2, <3>1, <3>3
  <2>5. N!Supply \in Nat
    <3>1. utxos \in SUBSET NP!Coin /\ NP!IsFiniteSet(utxos)
      BY DEF WalletInv, NP!SupplyInv
    <3>2. NP!WorthOf(utxos) \in Nat
      BY <3>1, NodeAssumptions, NP!WorthIsSum
    <3>3. QED
      BY <2>2, <3>2 DEF NP!Supply
  <2>6. QED
    BY <2>1, <2>2, <2>3, <2>4, <2>5
<1>2. QED
  BY <1>1, WalletInvariant, PTL
=============================================================================
