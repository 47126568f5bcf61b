-------------------------- MODULE NodePartsProofs ---------------------------
(***************************************************************************)
(* What the classes of the node promise each for itself, under any order   *)
(* of calls: UTXOSet, Mempool and RpcServer.  Each has its specification,  *)
(* and its inductive invariant.                                            *)
(***************************************************************************)
EXTENDS UTXOSet, Mempool, RpcServer, SumsProofs

-----------------------------------------------------------------------------
(* class UTXOSet, for every universe of transactions and batches of any      *)
(* length.                                                                    *)

(* The inductive invariant.  That no coin is spent twice needs that what an *)
(* accepted transaction spends is recorded, and that the records are the    *)
(* batch's needs that they end with it.                                     *)
BatchInv ==
    /\ batch \in Seq([tx : Tx, ok : BOOLEAN])
    /\ MarksAreOfBatch
    /\ BatchSpendsOnce

(* An accepted spend names no recorded outpoint, and all its inputs are     *)
(* recorded.                                                                *)
LEMMA AcceptedIsRecorded ==
    ASSUME NEW t \in Tx, NEW u, NEW s, Accepts(t, u, s), ~IsCoinbase(t)
    PROVE  Recorded(t, u, s) = SpendsOf(t) /\ SpendsOf(t) \cap s = {}
PROOF
<1>1. RefusedInputs(t, u, s) = {}
  BY DEF Accepts, SpendAccepted
<1>2. SpendsOf(t) = {Inputs[t][i] : i \in DOMAIN Inputs[t]}
  BY DEF SpendsOf, InputSet
<1>3. Recorded(t, u, s) = {Inputs[t][i] : i \in DOMAIN Inputs[t]}
  BY <1>1 DEF Recorded
<1>4. \A i \in DOMAIN Inputs[t] : Inputs[t][i] \notin s
  BY <1>1 DEF RefusedInputs
<1>5. QED
  BY <1>2, <1>3, <1>4

(* A refused transaction records at most its own inputs.                    *)
LEMMA RecordedAreSpends ==
    ASSUME NEW t \in Tx, NEW u, NEW s
    PROVE  Recorded(t, u, s) \subseteq SpendsOf(t)
BY DEF Recorded, SpendsOf, InputSet

LEMMA ValidateKeepsInv ==
    ASSUME BatchInv, NEW t \in Tx, Validate(t)
    PROVE  BatchInv'
PROOF
<1> DEFINE n == Len(batch) + 1
           call == [tx |-> t, ok |-> Accepts(t, utxos, spentThisBlock)]
<1>1. /\ batch \in Seq([tx : Tx, ok : BOOLEAN])
      /\ Len(batch) \in Nat
      /\ batch' = Append(batch, call)
      /\ spentThisBlock' = spentThisBlock \cup Recorded(t, utxos, spentThisBlock)
  BY DEF BatchInv, Validate, ValidateAndApplyInputs
<1>2. Accepts(t, utxos, spentThisBlock) \in BOOLEAN
  BY DEF Accepts, SpendAccepted, IsCoinbase
<1>3. batch' \in Seq([tx : Tx, ok : BOOLEAN])
  BY <1>1, <1>2
<1>4. /\ DOMAIN batch = 1 .. Len(batch)
      /\ DOMAIN batch' = (1 .. Len(batch)) \cup {n}
      /\ \A i \in 1 .. Len(batch) : batch'[i] = batch[i]
      /\ batch'[n] = call
  BY <1>1
<1> HIDE DEF n, call
<1>5. /\ call.tx = t
      /\ call.ok <=> Accepts(t, utxos, spentThisBlock)
      /\ n \notin 1 .. Len(batch)
  BY <1>1 DEF call, n
<1>6. /\ AcceptedSpends' \subseteq AcceptedSpends \cup {n}
      /\ AcceptedSpends \subseteq 1 .. Len(batch)
  BY <1>4 DEF AcceptedSpends
<1>7. ASSUME n \in AcceptedSpends'
      PROVE  /\ SpendsOf(t) \subseteq spentThisBlock'
             /\ SpendsOf(t) \cap spentThisBlock = {}
  <2>1. Accepts(t, utxos, spentThisBlock) /\ ~IsCoinbase(t)
    BY <1>4, <1>5, <1>7 DEF AcceptedSpends
  <2>2. QED
    BY <1>1, <2>1, AcceptedIsRecorded
<1>8. ASSUME NEW i \in AcceptedSpends', i # n
      PROVE  /\ batch'[i] = batch[i]
             /\ i \in AcceptedSpends
             /\ SpendsOf(batch[i].tx) \subseteq spentThisBlock
  BY <1>4, <1>6, <1>8 DEF BatchInv, MarksAreOfBatch
<1>9. MarksAreOfBatch'
  <2>1. ASSUME NEW i \in AcceptedSpends'
        PROVE  SpendsOf(batch'[i].tx) \subseteq spentThisBlock'
    <3>1. CASE i = n
      BY <3>1, <1>4, <1>5, <1>7, <2>1
    <3>2. CASE i # n
      BY <3>2, <1>1, <1>8, <2>1
    <3>3. QED
      BY <3>1, <3>2
  <2>2. ASSUME NEW op \in spentThisBlock'
        PROVE  \E i \in DOMAIN batch' : op \in SpendsOf(batch'[i].tx)
    <3>1. CASE op \in spentThisBlock
      BY <3>1, <1>4 DEF BatchInv, MarksAreOfBatch
    <3>2. CASE op \in Recorded(t, utxos, spentThisBlock)
      BY <3>2, <1>4, <1>5, RecordedAreSpends
    <3>3. QED
      BY <3>1, <3>2, <1>1
  <2>3. QED
    BY <2>1, <2>2 DEF MarksAreOfBatch
<1>10. BatchSpendsOnce'
  <2>1. ASSUME NEW i \in AcceptedSpends', NEW j \in AcceptedSpends', i # j
        PROVE  SpendsOf(batch'[i].tx) \cap SpendsOf(batch'[j].tx) = {}
    <3>1. CASE i = n
      BY <3>1, <2>1, <1>4, <1>5, <1>7, <1>8
    <3>2. CASE j = n
      BY <3>2, <2>1, <1>4, <1>5, <1>7, <1>8
    <3>3. CASE i # n /\ j # n
      BY <3>3, <2>1, <1>8 DEF BatchInv, BatchSpendsOnce
    <3>4. QED
      BY <3>1, <3>2, <3>3
  <2>2. QED
    BY <2>1 DEF BatchSpendsOnce
<1>11. QED
  BY <1>3, <1>9, <1>10 DEF BatchInv

(* The inductive invariant holds: whatever is called and in whatever order, *)
(* the records are the batch's, all of them and nothing else.               *)
THEOREM BatchInvariant == Spec => []BatchInv
PROOF
<1>1. Init => BatchInv
  BY DEF Init, BatchInv, MarksAreOfBatch, BatchSpendsOnce, AcceptedSpends
<1>2. BatchInv /\ [Next]_vars => BatchInv'
  <2> SUFFICES ASSUME BatchInv, [Next]_vars
               PROVE  BatchInv'
    OBVIOUS
  <2>1. CASE UNCHANGED <<batch, spentThisBlock>>
    BY <2>1 DEF BatchInv, MarksAreOfBatch, BatchSpendsOnce, AcceptedSpends
  <2>2. CASE \E t \in Tx : \E op \in OutPointsOf(t) : Change(op)
    BY <2>2, <2>1 DEF Change, AddCoin, RemoveCoin
  <2>3. CASE \E t \in Tx : Validate(t)
    BY <2>3, ValidateKeepsInv
  <2>4. CASE EndBatch
    BY <2>4 DEF EndBatch, CommitBlock, RevertBlock, Clear, BatchInv, MarksAreOfBatch,
                BatchSpendsOnce, AcceptedSpends
  <2>5. CASE UNCHANGED vars
    BY <2>5, <2>1 DEF vars
  <2>6. QED
    BY <2>2, <2>3, <2>4, <2>5 DEF Next
<1>3. QED
  BY <1>1, <1>2, PTL DEF Spec

(* No coin is spent twice in a batch, although coins may be removed and     *)
(* added again between the calls, and refused transactions leave records.   *)
THEOREM BatchesSpendOnce == Spec => []BatchSpendsOnce
PROOF
<1>1. BatchInv => BatchSpendsOnce
  BY DEF BatchInv
<1>2. QED
  BY <1>1, BatchInvariant, PTL

-----------------------------------------------------------------------------
(* What the batch pays with. *)

(* No coin pays for two totals.                                             *)
TotalsArePaid ==
    SumFunction([i \in AcceptedSpends |-> TotalOutput(batch[i].tx)])
        <= WorthOf(spentThisBlock)

(* With BatchInv, the inductive invariant of BatchIsPaid: all coins and all *)
(* records are outputs of transactions, so they have a value to add up, and *)
(* there are finitely many records.                                         *)
PaidInv ==
    /\ utxos \subseteq Coin
    /\ spentThisBlock \subseteq Coin
    /\ IsFiniteSet(spentThisBlock)
    /\ TotalsArePaid

(* The total output of each accepted spend of the batch.                    *)
Paid == [i \in AcceptedSpends |-> TotalOutput(batch[i].tx)]

(* Only coins are recorded, and finitely many of them.                      *)
LEMMA RecordedAreCoins ==
    ASSUME NEW t \in Tx, NEW u, NEW s
    PROVE  Recorded(t, u, s) \subseteq u /\ IsFiniteSet(Recorded(t, u, s))
PROOF
<1> DEFINE ins == Inputs[t]
           I == {k \in DOMAIN ins : \A j \in 1 .. k : j \notin RefusedInputs(t, u, s)}
<1>1. ins \in Seq(OutPoint)
  BY TransactionsAssumption
<1>2. /\ DOMAIN ins = 1 .. Len(ins) /\ Len(ins) \in Nat
      /\ \A k \in DOMAIN ins : k \in 1 .. k
  BY <1>1
<1>3. \A k \in I : ins[k] \in u
  BY <1>2 DEF RefusedInputs
<1>4. Recorded(t, u, s) \subseteq {ins[k] : k \in I}
  BY DEF Recorded
<1>5. Recorded(t, u, s) \subseteq {ins[k] : k \in DOMAIN ins}
  BY DEF Recorded
<1>6. IsFiniteSet({ins[k] : k \in DOMAIN ins})
  BY <1>1, SeqRangeFinite
<1>7. QED
  BY <1>3, <1>4, <1>5, <1>6, FS_Subset

(* An accepted spend pays for its outputs with the coins that it names.     *)
LEMMA AcceptedIsPaid ==
    ASSUME NEW t \in Tx, NEW u \in SUBSET Coin, NEW s,
           Accepts(t, u, s), ~IsCoinbase(t)
    PROVE  /\ SpendsOf(t) \subseteq Coin
           /\ IsFiniteSet(SpendsOf(t))
           /\ TotalOutput(t) <= WorthOf(SpendsOf(t))
           /\ WorthOf(SpendsOf(t)) \in Nat
PROOF
<1>1. /\ RefusedInputs(t, u, s) = {}
      /\ TotalOutput(t) <= TotalInput(t)
      /\ SpendsOf(t) = InputSet(t)
  BY DEF Accepts, SpendAccepted, SpendsOf
<1>2. InputSet(t) \subseteq Coin
  BY <1>1 DEF RefusedInputs, InputSet
<1>3. \A i \in DOMAIN Inputs[t] : \A j \in 1 .. i-1 : Inputs[t][j] # Inputs[t][i]
  BY <1>1 DEF RefusedInputs
<1>4. /\ IsFiniteSet(InputSet(t))
      /\ WorthOf(InputSet(t)) \in Nat
      /\ TotalInput(t) \in 0 .. Wrap - 1
      /\ TotalInput(t) <= WorthOf(InputSet(t))
  BY <1>2, <1>3, WorthOfInputs
<1>5. TotalOutput(t) \in 0 .. Wrap - 1
  BY WorthOfOutputs
<1>6. QED
  BY <1>1, <1>2, <1>4, <1>5, TransactionsAssumption

(* The accepted calls of a batch are finitely many, and their totals are    *)
(* amounts.                                                                 *)
PaidTyped ==
    /\ IsFiniteSet(AcceptedSpends)
    /\ \A i \in AcceptedSpends : Paid[i] \in Nat
    /\ TotalsArePaid <=> SumFunctionOnSet(Paid, AcceptedSpends) <= WorthOf(spentThisBlock)

LEMMA BatchInvTypesPaid == BatchInv => PaidTyped
PROOF
<1> DEFINE B == [tx : Tx, ok : BOOLEAN]
<1>1. SUFFICES ASSUME batch \in Seq(B)
               PROVE  PaidTyped
  BY DEF BatchInv
<1>2. \A b \in B : b.tx \in Tx
  OBVIOUS
<1> HIDE DEF B
<1>3. IsFiniteSet(DOMAIN batch) /\ \A i \in DOMAIN batch : batch[i] \in B
  <2>1. IsFiniteSet(DOMAIN batch)
    BY <1>1, SeqRangeFinite
  <2>2. QED
    BY <1>1, <2>1
<1>4. AcceptedSpends \subseteq DOMAIN batch
  BY DEF AcceptedSpends
<1>5. IsFiniteSet(AcceptedSpends)
  BY <1>3, <1>4, FS_Subset
<1>6. \A i \in AcceptedSpends : Paid[i] \in Nat
  BY <1>2, <1>3, <1>4, WorthOfOutputs DEF Paid
<1>7. QED
  BY <1>5, <1>6 DEF PaidTyped, TotalsArePaid, SumFunction, Paid

LEMMA ValidateKeepsPaid ==
    ASSUME BatchInv, BatchInv', PaidInv, NEW t \in Tx, Validate(t)
    PROVE  PaidInv'
PROOF
<1> DEFINE n == Len(batch) + 1
           R == Recorded(t, utxos, spentThisBlock)
           Ok == Accepts(t, utxos, spentThisBlock)
           B == [tx : Tx, ok : BOOLEAN]
<1>1. /\ batch \in Seq(B) /\ batch' \in Seq(B)
      /\ batch' = Append(batch, [tx |-> t, ok |-> Ok])
      /\ spentThisBlock' = spentThisBlock \cup R
      /\ utxos' = utxos
  BY DEF BatchInv, Validate, ValidateAndApplyInputs
<1>2. /\ DOMAIN batch = 1 .. Len(batch) /\ Len(batch) \in Nat
      /\ DOMAIN batch' = (1 .. Len(batch)) \cup {n}
      /\ \A i \in 1 .. Len(batch) : batch'[i] = batch[i]
      /\ batch'[n].tx = t /\ (batch'[n].ok <=> Ok)
      /\ n \notin 1 .. Len(batch)
  <2> HIDE DEF Ok
  <2>1. QED
    BY <1>1
<1>3. /\ R \subseteq Coin /\ IsFiniteSet(R)
      /\ spentThisBlock \subseteq Coin /\ IsFiniteSet(spentThisBlock)
  BY RecordedAreCoins DEF PaidInv
<1>4. spentThisBlock' \subseteq Coin /\ IsFiniteSet(spentThisBlock')
  BY <1>1, <1>3, FS_Union
<1>5. /\ IsFiniteSet(AcceptedSpends) /\ \A i \in AcceptedSpends : Paid[i] \in Nat
      /\ SumFunctionOnSet(Paid, AcceptedSpends) <= WorthOf(spentThisBlock)
  BY BatchInvTypesPaid DEF PaidInv, PaidTyped
<1>6. /\ IsFiniteSet(AcceptedSpends') /\ \A i \in AcceptedSpends' : Paid'[i] \in Nat
      /\ TotalsArePaid' <=> SumFunctionOnSet(Paid', AcceptedSpends') <= WorthOf(spentThisBlock')
  <2>1. PaidTyped'
    BY BatchInvTypesPaid, PTL
  <2>2. QED
    BY <2>1 DEF PaidTyped
<1>7. SumFunctionOnSet(Paid', AcceptedSpends) = SumFunctionOnSet(Paid, AcceptedSpends)
  <2>1. \A i \in AcceptedSpends : Paid'[i] = Paid[i]
    BY <1>2 DEF Paid, AcceptedSpends
  <2>2. QED
    BY <1>5, <2>1, SumCongruence
<1>8. SumFunctionOnSet(Paid', AcceptedSpends') <= WorthOf(spentThisBlock')
  <2>1. SumFunctionOnSet(Paid, AcceptedSpends) \in Nat /\ WorthOf(spentThisBlock) \in Nat
    BY <1>3, <1>5, SumNatural, WorthIsSum
  <2>2. CASE Ok /\ ~IsCoinbase(t)
    <3>1. AcceptedSpends' = AcceptedSpends \cup {n} /\ n \notin AcceptedSpends
      BY <1>2, <2>2 DEF AcceptedSpends
    <3>2. Paid'[n] = TotalOutput(t) /\ Paid'[n] \in Nat
      BY <1>2, <1>6, <3>1 DEF Paid
    <3>3. R = SpendsOf(t) /\ R \cap spentThisBlock = {}
      BY <2>2, AcceptedIsRecorded
    <3>4. TotalOutput(t) <= WorthOf(R) /\ WorthOf(R) \in Nat
      BY <2>2, <3>3, AcceptedIsPaid DEF PaidInv
    <3>5. WorthOf(spentThisBlock') = WorthOf(spentThisBlock) + WorthOf(R)
      BY <1>1, <1>3, <3>3, WorthOfUnion
    <3>6. SumFunctionOnSet(Paid', AcceptedSpends')
            = SumFunctionOnSet(Paid', AcceptedSpends) + Paid'[n]
      <4>1. \A i \in AcceptedSpends \cup {n} : Paid'[i] \in Nat
        BY <1>6, <3>1
      <4> DEFINE P == Paid'
                 A == AcceptedSpends
      <4>2. /\ \A i \in A \cup {n} : P[i] \in Nat
            /\ IsFiniteSet(A) /\ n \notin A
        BY <1>5, <3>1, <4>1
      <4> HIDE DEF P, A, n
      <4>3. SumFunctionOnSet(P, A \cup {n}) = SumFunctionOnSet(P, A) + P[n]
        BY <4>2, SumAddElement
      <4>4. QED
        BY <3>1, <4>3 DEF P, A
    <3>7. QED
      BY <1>5, <1>7, <2>1, <3>2, <3>4, <3>5, <3>6
  <2>3. CASE ~(Ok /\ ~IsCoinbase(t))
    <3>1. AcceptedSpends' = AcceptedSpends
      BY <1>2, <2>3 DEF AcceptedSpends
    <3>2. WorthOf(spentThisBlock) <= WorthOf(spentThisBlock') /\ WorthOf(spentThisBlock') \in Nat
      BY <1>1, <1>3, <1>4, WorthOfDifference, WorthIsSum
    <3>3. QED
      BY <1>5, <1>7, <2>1, <3>1, <3>2
  <2>4. QED
    BY <2>2, <2>3
<1>9. QED
  BY <1>1, <1>4, <1>6, <1>8 DEF PaidInv

(* The outputs of the accepted spends are worth their totals, and what they *)
(* add up to beyond those.                                                  *)
LEMMA WorthIsTotalsAndBeyond == BatchInv /\ PaidInv => BatchIsPaid
PROOF
<1> SUFFICES ASSUME BatchInv, PaidInv
             PROVE  BatchIsPaid
  OBVIOUS
<1> DEFINE A == AcceptedSpends
           f == [i \in A |-> TotalOutput(batch[i].tx)]
           g == [i \in A |-> BeyondTotal(batch[i].tx)]
           h == [i \in A |-> WorthOf(OutPointsOf(batch[i].tx))]
<1>1. IsFiniteSet(A)
  BY BatchInvTypesPaid DEF PaidTyped
<1>2. \A i \in A : batch[i].tx \in Tx /\ ~IsCoinbase(batch[i].tx)
  <2> DEFINE B == [tx : Tx, ok : BOOLEAN]
  <2>1. batch \in Seq(B)
    BY DEF BatchInv
  <2>2. \A b \in B : b.tx \in Tx
    OBVIOUS
  <2> HIDE DEF B
  <2>3. \A i \in DOMAIN batch : batch[i] \in B
    BY <2>1
  <2>4. QED
    BY <2>2, <2>3 DEF AcceptedSpends
<1>3. \A i \in A : f[i] \in Nat /\ g[i] \in Nat /\ h[i] = f[i] + g[i]
  BY <1>2, WorthOfOutputs, TransactionsAssumption DEF BeyondTotal
<1>4. /\ SumFunction(f) = SumFunctionOnSet(f, A)
      /\ SumFunction(g) = SumFunctionOnSet(g, A)
      /\ SumFunction(h) = SumFunctionOnSet(h, A)
  BY DEF SumFunction
<1>5. SumFunction(f) <= WorthOf(spentThisBlock)
  BY DEF PaidInv, TotalsArePaid
<1>6. BatchIsPaid <=> SumFunction(h) <= WorthOf(spentThisBlock) + SumFunction(g)
  BY DEF BatchIsPaid
<1>7. WorthOf(spentThisBlock) \in Nat
  BY WorthIsSum, SumNatural DEF PaidInv
<1> HIDE DEF A, f, g, h
<1>8. SumFunctionOnSet(h, A) = SumFunctionOnSet(f, A) + SumFunctionOnSet(g, A)
  BY <1>1, <1>3, SumOfPlus
<1>9. SumFunctionOnSet(f, A) \in Nat /\ SumFunctionOnSet(g, A) \in Nat
  BY <1>1, <1>3, SumNatural
<1>10. QED
  BY <1>4, <1>5, <1>6, <1>7, <1>8, <1>9

(* The batch is paid for but for totals that wrap, whatever is called and   *)
(* in whatever order.                                                       *)
THEOREM BatchesArePaid == Spec => []BatchIsPaid
PROOF
<1>1. Init => PaidInv
  <2> SUFFICES ASSUME Init
               PROVE  PaidInv
    OBVIOUS
  <2>1. utxos = {} /\ spentThisBlock = {} /\ AcceptedSpends = {}
    BY DEF Init, AcceptedSpends
  <2>2. IsFiniteSet({}) /\ {} \in SUBSET Coin
    BY FS_EmptySet
  <2>3. WorthOf({}) = 0
    <3>1. WorthOf({}) = SumFunctionOnSet(Values, {})
      BY <2>2, WorthIsSum
    <3>2. QED
      BY <3>1, SumOfEmpty
  <2>4. SumFunction([i \in {} |-> TotalOutput(batch[i].tx)]) = 0
    BY SumOfEmpty DEF SumFunction
  <2>5. QED
    BY <2>1, <2>2, <2>3, <2>4 DEF PaidInv, TotalsArePaid
<1>2. BatchInv /\ BatchInv' /\ PaidInv /\ [Next]_vars => PaidInv'
  <2> SUFFICES ASSUME BatchInv, BatchInv', PaidInv, [Next]_vars
               PROVE  PaidInv'
    OBVIOUS
  <2>1. CASE UNCHANGED <<batch, spentThisBlock>> /\ utxos' \subseteq Coin
    BY <2>1 DEF PaidInv, TotalsArePaid, AcceptedSpends
  <2>2. ASSUME NEW t \in Tx, NEW op \in OutPointsOf(t), Change(op)
        PROVE  PaidInv'
    <3>1. op \in Coin
      BY <2>2 DEF Coin
    <3>2. QED
      BY <2>1, <2>2, <3>1 DEF Change, AddCoin, RemoveCoin, PaidInv
  <2>3. CASE \E t \in Tx : Validate(t)
    BY <2>3, ValidateKeepsPaid
  <2>4. CASE EndBatch
    <3>1. /\ batch' = <<>> /\ spentThisBlock' = {} /\ utxos' \subseteq utxos
      BY <2>4 DEF EndBatch, CommitBlock, RevertBlock, Clear
    <3>2. AcceptedSpends' = {}
      BY <3>1 DEF AcceptedSpends
    <3>3. /\ IsFiniteSet({}) /\ {} \in SUBSET Coin
          /\ WorthOf({}) = SumFunctionOnSet(Values, {})
      BY FS_EmptySet, WorthIsSum
    <3>4. WorthOf(spentThisBlock') = 0
      BY <3>1, <3>3, SumOfEmpty
    <3>5. SumFunction([i \in {} |-> TotalOutput(batch'[i].tx)]) = 0
      BY SumOfEmpty DEF SumFunction
    <3>6. TotalsArePaid'
      BY <3>2, <3>4, <3>5 DEF TotalsArePaid
    <3>7. QED
      BY <3>1, <3>3, <3>6 DEF PaidInv
  <2>5. CASE UNCHANGED vars
    BY <2>5, <2>1 DEF vars, PaidInv
  <2>6. QED
    BY <2>2, <2>3, <2>4, <2>5 DEF Next
<1>3. BatchInv /\ PaidInv => BatchIsPaid
  BY WorthIsTotalsAndBeyond
<1>4. QED
  BY <1>1, <1>2, <1>3, BatchInvariant, PTL DEF Spec

-----------------------------------------------------------------------------
(* The loop of ValidateAndApplyInputs. *)

(* One turn of the loop.                                                    *)
ScanNext(a, op) ==
    IF ~a.ok \/ op \in a.marks \/ op \notin utxos
    THEN [a EXCEPT !.ok = FALSE]
    ELSE [ok |-> TRUE, marks |-> a.marks \cup {op}, in |-> (a.in + ValueOf(op)) % Wrap]

(* What the recursion of Scan has for the first n inputs.                   *)
ScansOn(acc, t, n) ==
    acc = [i \in 0 .. n |->
              IF i = 0 THEN [ok |-> TRUE, marks |-> spentThisBlock, in |-> 0]
              ELSE ScanNext(acc[i-1], Inputs[t][i])]

LEMMA ScanUnfolds ==
    ASSUME NEW t
    PROVE  Scan(t) = (CHOOSE acc : ScansOn(acc, t, Len(Inputs[t])))[Len(Inputs[t])]
BY DEF Scan, ScansOn, ScanNext

(* The recursion defines a function.                                        *)
LEMMA ScanExists ==
    ASSUME NEW t, NEW n \in Nat
    PROVE  ScansOn(CHOOSE acc : ScansOn(acc, t, n), t, n)
PROOF
<1> DEFINE G == {m \in Nat : \E acc : ScansOn(acc, t, m)}
<1>1. 0 \in G
  <2> DEFINE acc == [i \in 0 .. 0 |-> [ok |-> TRUE, marks |-> spentThisBlock, in |-> 0]]
  <2>1. ScansOn(acc, t, 0)
    BY DEF ScansOn
  <2>2. QED
    BY <2>1
<1>2. ASSUME NEW m \in Nat, m \in G
      PROVE  m + 1 \in G
  <2>1. PICK acc : ScansOn(acc, t, m)
    BY <1>2
  <2> DEFINE new == [i \in 0 .. m + 1 |->
                       IF i = 0 THEN [ok |-> TRUE, marks |-> spentThisBlock, in |-> 0]
                       ELSE ScanNext(acc[i-1], Inputs[t][i])]
  <2>2. \A i \in 0 .. m : new[i] = acc[i]
    <3>1. \A i \in 0 .. m :
             acc[i] = IF i = 0 THEN [ok |-> TRUE, marks |-> spentThisBlock, in |-> 0]
                      ELSE ScanNext(acc[i-1], Inputs[t][i])
      BY <2>1 DEF ScansOn
    <3>2. \A i \in 0 .. m : i \in 0 .. m + 1
      OBVIOUS
    <3>3. QED
      BY <3>1, <3>2
  <2>3. \A i \in 0 .. m + 1 : i # 0 => i - 1 \in 0 .. m
    OBVIOUS
  <2>4. ScansOn(new, t, m + 1)
    BY <2>2, <2>3 DEF ScansOn
  <2>5. QED
    BY <2>4
<1>3. n \in G
  <2> HIDE DEF G
  <2>1. QED
    BY <1>1, <1>2, NatInductionOnSet
<1>4. QED
  BY <1>3

(* The inputs before the first refused one among the first i.               *)
Passed(t, R, i) == {k \in 1 .. i : \A j \in 1 .. k : j \notin R}

(* After i inputs the loop runs on if none of them is refused, has recorded *)
(* those before the first refused, and has summed up the coins so far.      *)
LEMMA ScanAfter ==
    ASSUME NEW t \in Tx,
           NEW n, n = Len(Inputs[t]),
           NEW R, R = RefusedInputs(t, utxos, spentThisBlock),
           NEW acc, ScansOn(acc, t, n),
           NEW sum, WrapsOn(sum, [k \in DOMAIN Inputs[t] |-> ValueOf(Inputs[t][k])], n),
           NEW i \in 0 .. n
    PROVE  /\ DOMAIN acc[i] = {"ok", "marks", "in"}
           /\ acc[i].ok \in BOOLEAN
           /\ acc[i].ok <=> \A k \in 1 .. i : k \notin R
           /\ acc[i].marks = spentThisBlock \cup {Inputs[t][k] : k \in Passed(t, R, i)}
           /\ acc[i].ok => acc[i].in = sum[i]
PROOF
<1> DEFINE Good(m) ==
              /\ DOMAIN acc[m] = {"ok", "marks", "in"}
              /\ acc[m].ok \in BOOLEAN
              /\ acc[m].ok <=> \A k \in 1 .. m : k \notin R
              /\ acc[m].marks = spentThisBlock \cup {Inputs[t][k] : k \in Passed(t, R, m)}
              /\ acc[m].ok => acc[m].in = sum[m]
           G == {m \in Nat : m \in 0 .. n => Good(m)}
<1>1. n \in Nat /\ DOMAIN Inputs[t] = 1 .. n
  BY TransactionsAssumption
<1>2. 0 \in G
  <2>1. acc[0] = [ok |-> TRUE, marks |-> spentThisBlock, in |-> 0] /\ sum[0] = 0
    BY <1>1 DEF ScansOn, WrapsOn
  <2>2. 1 .. 0 = {} /\ Passed(t, R, 0) = {}
    BY DEF Passed
  <2>3. acc[0].marks = spentThisBlock \cup {Inputs[t][k] : k \in Passed(t, R, 0)}
    BY <2>1, <2>2
  <2>4. Good(0)
    BY <2>1, <2>2, <2>3
  <2>5. QED
    BY <2>4
<1>3. ASSUME NEW m \in Nat, m \in G, m + 1 \in 0 .. n
      PROVE  Good(m + 1)
  <2> DEFINE op == Inputs[t][m + 1]
  <2>1. Good(m)
    BY <1>1, <1>3
  <2>2. /\ acc[m + 1] = ScanNext(acc[m], op)
        /\ sum[m + 1] = (sum[m] + ValueOf(op)) % Wrap
    <3>1. m + 1 \in 0 .. n /\ m + 1 # 0 /\ (m + 1) - 1 = m /\ m + 1 \in DOMAIN Inputs[t]
      BY <1>1, <1>3
    <3>2. QED
      BY <3>1 DEF ScansOn, WrapsOn
  <2>3. m + 1 \in R <=> \/ op \in spentThisBlock
                        \/ \E j \in 1 .. m : Inputs[t][j] = op
                        \/ op \notin utxos
    BY <1>1, <1>3 DEF RefusedInputs
  <2>4. 1 .. m + 1 = (1 .. m) \cup {m + 1}
    BY <1>3
  <2>5. /\ Passed(t, R, m) = {k \in 1 .. m : \A j \in 1 .. k : j \notin R}
        /\ (\A k \in 1 .. m : k \notin R) => Passed(t, R, m) = 1 .. m
        /\ Passed(t, R, m + 1) = IF \A k \in 1 .. m + 1 : k \notin R
                                 THEN Passed(t, R, m) \cup {m + 1} ELSE Passed(t, R, m)
    BY <1>3, <2>4 DEF Passed
  <2> HIDE DEF op
  <2>6. CASE ~acc[m].ok
    <3>1. acc[m + 1] = [acc[m] EXCEPT !.ok = FALSE]
      BY <2>2, <2>6 DEF ScanNext
    <3>2. Passed(t, R, m + 1) = Passed(t, R, m) /\ ~(\A k \in 1 .. m + 1 : k \notin R)
      BY <2>1, <2>4, <2>5, <2>6
    <3>3. QED
      BY <2>1, <3>1, <3>2
  <2>7. CASE acc[m].ok /\ m + 1 \in R
    <3>1. op \in acc[m].marks \/ op \notin utxos
      BY <2>1, <2>3, <2>5, <2>7
    <3>2. acc[m + 1] = [acc[m] EXCEPT !.ok = FALSE]
      BY <2>2, <3>1 DEF ScanNext
    <3>3. Passed(t, R, m + 1) = Passed(t, R, m) /\ ~(\A k \in 1 .. m + 1 : k \notin R)
      BY <2>4, <2>5, <2>7
    <3>4. QED
      BY <2>1, <3>2, <3>3
  <2>8. CASE acc[m].ok /\ m + 1 \notin R
    <3>1. \A k \in 1 .. m : k \notin R
      BY <2>1, <2>8
    <3>2. acc[m].marks = spentThisBlock \cup {Inputs[t][k] : k \in 1 .. m}
      BY <2>1, <2>5, <3>1
    <3>3. op \notin acc[m].marks /\ op \in utxos
      BY <2>3, <2>8, <3>2
    <3>4. acc[m + 1] = [ok |-> TRUE, marks |-> acc[m].marks \cup {op},
                        in |-> (acc[m].in + ValueOf(op)) % Wrap]
      BY <2>2, <2>8, <3>3 DEF ScanNext
    <3>5. /\ \A k \in 1 .. m + 1 : k \notin R
          /\ Passed(t, R, m + 1) = Passed(t, R, m) \cup {m + 1}
      BY <2>4, <2>5, <2>8, <3>1
    <3>6. acc[m + 1].marks
            = spentThisBlock \cup {Inputs[t][k] : k \in Passed(t, R, m + 1)}
      BY <2>1, <3>4, <3>5 DEF op
    <3>7. acc[m + 1].in = sum[m + 1]
      BY <2>1, <2>2, <2>8, <3>4
    <3>8. QED
      BY <3>4, <3>5, <3>6, <3>7
  <2>9. QED
    BY <2>1, <2>6, <2>7, <2>8
<1>4. \A m \in Nat : m \in G => m + 1 \in G
  <2> HIDE DEF Good
  <2>1. QED
    BY <1>3
<1>5. i \in Nat /\ i \in 0 .. n
  BY <1>1
<1>6. i \in G
  <2> HIDE DEF G
  <2>1. QED
    BY <1>2, <1>4, <1>5, NatInductionOnSet
<1>7. QED
  BY <1>5, <1>6

(* The closed forms of module UTXOEngine, Accepts and Recorded, are what    *)
(* the loop computes, for any number of inputs and in every state.          *)
THEOREM ClosedFormsAreTheLoop == Spec => []ScannedInOrder
PROOF
<1>1. ASSUME NEW t \in Tx, ~IsCoinbase(t)
      PROVE  /\ Accepts(t, utxos, spentThisBlock)
                <=> Inputs[t] # <<>> /\ Scan(t).ok /\ TotalOutput(t) <= Scan(t).in
             /\ spentThisBlock \cup Recorded(t, utxos, spentThisBlock) = Scan(t).marks
  <2> DEFINE n == Len(Inputs[t])
             R == RefusedInputs(t, utxos, spentThisBlock)
             values == [k \in DOMAIN Inputs[t] |-> ValueOf(Inputs[t][k])]
             acc == CHOOSE a : ScansOn(a, t, n)
             sum == CHOOSE w : WrapsOn(w, values, n)
  <2>1. n \in Nat /\ DOMAIN Inputs[t] = 1 .. n /\ Len(values) = n
    BY TransactionsAssumption
  <2>2. ScansOn(acc, t, n) /\ WrapsOn(sum, values, n)
    BY <2>1, ScanExists, WrappedSumExists
  <2>3. Scan(t) = acc[n]
    BY ScanUnfolds
  <2>4. TotalInput(t) = sum[n]
    BY <2>1, WrappedSumUnfolds DEF TotalInput
  <2>5. n \in 0 .. n
    BY <2>1
  <2>6. R \subseteq 1 .. n /\ R = RefusedInputs(t, utxos, spentThisBlock)
    BY <2>1 DEF RefusedInputs
  <2>7. Recorded(t, utxos, spentThisBlock) = {Inputs[t][k] : k \in Passed(t, R, n)}
    BY <1>1, <2>1 DEF Recorded, Passed
  <2> HIDE DEF acc, sum, R
  <2>8. /\ acc[n].ok <=> \A k \in 1 .. n : k \notin R
        /\ acc[n].marks = spentThisBlock \cup {Inputs[t][k] : k \in Passed(t, R, n)}
        /\ acc[n].ok => acc[n].in = sum[n]
    BY <2>2, <2>5, <2>6, ScanAfter
  <2>9. acc[n].ok <=> R = {}
    BY <2>6, <2>8
  <2>10. Accepts(t, utxos, spentThisBlock)
           <=> Inputs[t] # <<>> /\ R = {} /\ TotalOutput(t) <= TotalInput(t)
    BY <1>1, <2>6 DEF Accepts, SpendAccepted
  <2>11. QED
    BY <2>3, <2>4, <2>7, <2>8, <2>9, <2>10
<1>2. ScannedInOrder
  BY <1>1 DEF ScannedInOrder
<1>3. QED
  BY <1>2, PTL

-----------------------------------------------------------------------------
(* class Mempool keeps its index of spends exact, for any transactions and   *)
(* any coins.                                                                 *)

(* m_spentOutputs says of exactly the inputs of the pending transactions    *)
(* that they are spent, each by the transaction it is an input of.          *)
SpendsAreExact ==
    /\ DOMAIN spender = UNION {InputSet(t) : t \in pool}
    /\ \A t \in pool : \A op \in InputSet(t) : spender[op] = t

(* The inductive invariant.  Exactness is what NoConflicts needs when a     *)
(* transaction is added, and NoConflicts what exactness needs when one is   *)
(* removed: the outpoints erased are then its own.                          *)
PoolInv == PoolTypeOK /\ SpendsAreExact /\ NoConflicts

(* The inputs of a transaction are outpoints. *)
LEMMA InputsTyped == \A t \in Tx : InputSet(t) \subseteq OutPoint
  BY TransactionsAssumption DEF InputSet

(* add_transaction keeps the invariant. *)
LEMMA AddKeeps ==
  ASSUME PoolInv, NEW t \in Tx, NEW u \in CoinSets, AddTransaction(t, u)
  PROVE  PoolInv'
<1>1. CASE ~AddAccepted(t, u)
  BY <1>1 DEF AddTransaction, poolVars, PoolInv, PoolTypeOK, SpendsAreExact, NoConflicts
<1>2. CASE AddAccepted(t, u)
  <2> USE DEF PoolInv
  <2>1. pool' = pool \cup {t} /\ spender' = WithSpends(t)
    BY <1>2 DEF AddTransaction
  <2>2. /\ t \notin pool
        /\ \A op \in InputSet(t) : op \notin DOMAIN spender
    BY <1>2 DEF AddAccepted
  <2>3. DOMAIN spender' = DOMAIN spender \cup InputSet(t)
    BY <2>1 DEF WithSpends
  <2>4. \A op \in InputSet(t) : spender'[op] = t
    BY <2>1 DEF WithSpends
  <2>5. \A op \in DOMAIN spender : spender'[op] = spender[op]
    BY <2>1, <2>2 DEF WithSpends
  <2>6. PoolTypeOK'
    <3>1. spender' \in [DOMAIN spender' -> pool']
      BY <2>1, <2>3 DEF WithSpends, PoolTypeOK
    <3> QED  BY <3>1, <2>1, <2>3, InputsTyped DEF PoolTypeOK
  <2>7. SpendsAreExact'
    <3>1. DOMAIN spender' = UNION {InputSet(p) : p \in pool'}
      BY <2>1, <2>3 DEF SpendsAreExact
    <3>2. ASSUME NEW p \in pool', NEW op \in InputSet(p)
          PROVE  spender'[op] = p
      <4>1. CASE p = t  BY <4>1, <2>4
      <4>2. CASE p \in pool  BY <4>2, <2>5 DEF SpendsAreExact
      <4> QED  BY <2>1, <4>1, <4>2
    <3> QED  BY <3>1, <3>2 DEF SpendsAreExact, InputSet
  <2>8. NoConflicts'
    <3>1. \A p \in pool : InputSet(p) \cap InputSet(t) = {}
      BY <2>2 DEF SpendsAreExact
    <3> QED  BY <3>1, <2>1 DEF NoConflicts, InputSet
  <2> QED  BY <2>6, <2>7, <2>8
<1> QED  BY <1>1, <1>2

(* remove_transaction keeps the invariant. *)
LEMMA RemoveKeeps ==
  ASSUME PoolInv, NEW t \in Tx, RemoveTransaction(t)
  PROVE  PoolInv'
<1>1. CASE t \notin pool
  BY <1>1 DEF RemoveTransaction, poolVars, PoolInv, PoolTypeOK, SpendsAreExact, NoConflicts
<1>2. CASE t \in pool
  <2> USE DEF PoolInv
  <2>1. /\ pool' = pool \ {t}
        /\ spender' = [op \in DOMAIN spender \ InputSet(t) |-> spender[op]]
    BY <1>2 DEF RemoveTransaction
  <2>2. \A p \in pool' : InputSet(p) \cap InputSet(t) = {}
    BY <1>2, <2>1 DEF NoConflicts
  <2>3. SpendsAreExact'
    <3>1. DOMAIN spender' = UNION {InputSet(p) : p \in pool'}
      BY <1>2, <2>1, <2>2 DEF SpendsAreExact
    <3>2. ASSUME NEW p \in pool', NEW op \in InputSet(p)
          PROVE  spender'[op] = p
      BY <2>1, <2>2 DEF SpendsAreExact
    <3> QED  BY <3>1, <3>2 DEF SpendsAreExact, InputSet
  <2>4. PoolTypeOK'
    <3>1. \A op \in DOMAIN spender' : spender'[op] \in pool'
      BY <2>3 DEF SpendsAreExact, InputSet
    <3>2. spender' \in [DOMAIN spender' -> pool']
      BY <2>1, <3>1
    <3> QED  BY <2>1, <3>2 DEF PoolTypeOK
  <2>5. NoConflicts'
    BY <2>1 DEF NoConflicts, InputSet
  <2> QED  BY <2>3, <2>4, <2>5
<1> QED  BY <1>1, <1>2

(* The invariant holds in every reachable state. *)
THEOREM PoolInvariant == PoolSpec => []PoolInv
<1>1. PoolInit => PoolInv
  BY DEF PoolInit, PoolInv, PoolTypeOK, SpendsAreExact, NoConflicts
<1>2. PoolInv /\ [PoolNext]_poolVars => PoolInv'
  <2> SUFFICES ASSUME PoolInv, [PoolNext]_poolVars  PROVE PoolInv'
    OBVIOUS
  <2>1. CASE UNCHANGED poolVars
    BY <2>1 DEF poolVars, PoolInv, PoolTypeOK, SpendsAreExact, NoConflicts
  <2>2. ASSUME NEW t \in Tx, NEW u \in CoinSets, AddTransaction(t, u)  PROVE PoolInv'
    BY <2>2, AddKeeps
  <2>3. ASSUME NEW t \in Tx, RemoveTransaction(t)  PROVE PoolInv'
    BY <2>3, RemoveKeeps
  <2> QED  BY <2>1, <2>2, <2>3 DEF PoolNext
<1> QED  BY <1>1, <1>2, PTL DEF PoolSpec

(* No two pending transactions ever spend the same coin. *)
THEOREM PendingDoNotConflict == PoolSpec => []NoConflicts
<1>1. PoolInv => NoConflicts
  BY DEF PoolInv
<1> QED  BY <1>1, PoolInvariant, PTL

(* What the pool refuses never depends on what it refused or removed before. *)
THEOREM PoolHasNoMemory == PoolSpec => []RefusalsHaveCause
<1>1. PoolInv => RefusalsHaveCause
  <2> SUFFICES ASSUME PoolInv, NEW t \in Tx \ pool, NEW u \in CoinSets
      PROVE AddAccepted(t, u) <=>
                /\ ~IsCoinbase(t)
                /\ InputSet(t) \subseteq u
                /\ \A p \in pool : InputSet(p) \cap InputSet(t) = {}
    BY DEF RefusalsHaveCause
  <2>1. (\A op \in InputSet(t) : op \notin DOMAIN spender)
            <=> \A p \in pool : InputSet(p) \cap InputSet(t) = {}
    BY DEF PoolInv, SpendsAreExact
  <2> QED  BY <2>1 DEF AddAccepted
<1> QED  BY <1>1, PoolInvariant, PTL

-----------------------------------------------------------------------------
(* class RpcServer never works on what it has freed, and never replaces the  *)
(* handler it runs.                                                           *)

(* The event thread exists only between start and the end of stop, and the  *)
(* request it handles is a call.                                            *)
Coherent ==
    /\ owner = "free" /\ ~running => thread = "none"
    /\ owner = "joining" => ~running
    /\ thread = "handling" => sent[current] \in Method

(* The inductive invariant. *)
ServerInv == ServerTypeOK /\ Coherent /\ BaseOutlivesLoop /\ HandlerNotReplaced

(* What each group of actions does to the invariant, starting with the      *)
(* owner's.                                                                 *)
LEMMA OwnerKeeps ==
    ASSUME ServerInv,
           (\E m \in Method : Register(m)) \/ Start \/ StartFail \/ Stop \/ Joined
    PROVE  ServerInv'
<1> USE RpcServerAssumption DEF Content
<1>1. CASE \E m \in Method : Register(m)
  BY <1>1 DEF ServerInv, ServerTypeOK, Coherent, BaseOutlivesLoop, HandlerNotReplaced,
              Register, server, loop
<1>2. CASE Start
  BY <1>2 DEF ServerInv, ServerTypeOK, Coherent, BaseOutlivesLoop, HandlerNotReplaced,
              Start
<1>3. CASE StartFail
  BY <1>3 DEF ServerInv, ServerTypeOK, Coherent, BaseOutlivesLoop, HandlerNotReplaced,
              StartFail, loop
<1>4. CASE Stop
  BY <1>4 DEF ServerInv, ServerTypeOK, Coherent, BaseOutlivesLoop, HandlerNotReplaced,
              Stop
<1>5. CASE Joined
  BY <1>5 DEF ServerInv, ServerTypeOK, Coherent, BaseOutlivesLoop, HandlerNotReplaced,
              Joined, Pending
<1> QED
  BY <1>1, <1>2, <1>3, <1>4, <1>5

(* The clients' and the event thread's actions. *)
LEMMA EventsKeep ==
    ASSUME ServerInv,
           (\E r \in Request, c \in Content : Arrive(r, c)) \/ EventStep
    PROVE  ServerInv'
<1> USE RpcServerAssumption DEF Content
<1>1. CASE \E r \in Request, c \in Content : Arrive(r, c)
  BY <1>1 DEF ServerInv, ServerTypeOK, Coherent, BaseOutlivesLoop, HandlerNotReplaced,
              Arrive, server, loop
<1>2. CASE Dispatch
  BY <1>2 DEF ServerInv, ServerTypeOK, Coherent, BaseOutlivesLoop, HandlerNotReplaced,
              Dispatch, server
<1>3. CASE Turn
  BY <1>3 DEF ServerInv, ServerTypeOK, Coherent, BaseOutlivesLoop, HandlerNotReplaced,
              Turn, server
<1>4. CASE \E r \in Request : AnswerError(r)
  BY <1>4 DEF ServerInv, ServerTypeOK, Coherent, BaseOutlivesLoop, HandlerNotReplaced,
              AnswerError, server
<1>5. CASE \E r \in Request : ParseFailure(r)
  <2>1. alive' \in BOOLEAN
    BY <1>5 DEF ParseFailure
  <2>2. UNCHANGED <<owner, running, base, starts, loop, methods, sent, reply>>
    BY <1>5 DEF ParseFailure
  <2> QED
    BY <2>1, <2>2
    DEF ServerInv, ServerTypeOK, Coherent, BaseOutlivesLoop, HandlerNotReplaced, loop
<1>6. CASE \E r \in Request : BeginCall(r)
  BY <1>6 DEF ServerInv, ServerTypeOK, Coherent, BaseOutlivesLoop, HandlerNotReplaced,
              BeginCall, server
<1>7. CASE EndCall
  BY <1>7 DEF ServerInv, ServerTypeOK, Coherent, BaseOutlivesLoop, HandlerNotReplaced,
              EndCall, server
<1> QED
  BY <1>1, <1>2, <1>3, <1>4, <1>5, <1>6, <1>7 DEF EventStep

(* The invariant holds of every reachable state, for every set of requests  *)
(* and methods, under any order of starts, stops and registrations.         *)
THEOREM ServerInvariant == ServerSpec => []ServerInv
<1>1. ServerInit => ServerInv
  <2> SUFFICES ASSUME ServerInit
               PROVE  ServerInv
    OBVIOUS
  <2>1. alive \in BOOLEAN /\ running \in BOOLEAN /\ broken \in BOOLEAN /\ ~running
    BY DEF ServerInit
  <2>2. /\ owner = "free" /\ base = "null" /\ thread = "none" /\ handler = 0
        /\ current = None /\ starts = 0
        /\ methods = [m \in Method |-> 0]
        /\ sent = [r \in Request |-> None]
        /\ reply = [r \in Request |-> None]
    BY DEF ServerInit
  <2> QED
    BY <2>1, <2>2, RpcServerAssumption
    DEF ServerInv, ServerTypeOK, Coherent, BaseOutlivesLoop, HandlerNotReplaced
<1>2. ServerInv /\ [ServerNext]_serverVars => ServerInv'
  <2> SUFFICES ASSUME ServerInv, [ServerNext]_serverVars
               PROVE  ServerInv'
    OBVIOUS
  <2>1. CASE ServerNext
    BY <2>1, OwnerKeeps, EventsKeep DEF ServerNext
  <2>2. CASE UNCHANGED serverVars
    BY <2>2 DEF ServerInv, ServerTypeOK, Coherent, BaseOutlivesLoop, HandlerNotReplaced,
                serverVars, server, loop
  <2> QED
    BY <2>1, <2>2
<1> QED
  BY <1>1, <1>2, PTL DEF ServerSpec

(* While the event thread exists, or stop works on it, m_base is live.      *)
THEOREM NothingFreedIsUsed == ServerSpec => []BaseOutlivesLoop
<1>1. ServerInv => BaseOutlivesLoop
  BY DEF ServerInv
<1> QED
  BY <1>1, ServerInvariant, PTL

(* The server keeps its types, and has a current request exactly while a    *)
(* handler runs.                                                            *)
THEOREM ServerTypes == ServerSpec => []ServerTypeOK
<1>1. ServerInv => ServerTypeOK
  BY DEF ServerInv
<1> QED
  BY <1>1, ServerInvariant, PTL

(* The entry of m_methods that a running handler comes from stays.          *)
THEOREM RunningHandlersStay == ServerSpec => []HandlerNotReplaced
<1>1. ServerInv => HandlerNotReplaced
  BY DEF ServerInv
<1> QED
  BY <1>1, ServerInvariant, PTL
=============================================================================
