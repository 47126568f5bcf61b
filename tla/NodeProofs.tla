----------------------------- MODULE NodeProofs -----------------------------
(***************************************************************************)
(* The safety of the node, for every transaction universe, block list,     *)
(* nonce set and chain length: what a block does to the history of coins,  *)
(* the ledger, the types, the coins against the chain, no double spend,    *)
(* the implementation of the ledger, and the money supply.                 *)
(*                                                                         *)
(* What a submitted block does is proved of any block, whoever submits it: *)
(* module WalletProofs uses it for the blocks that carry wallets'          *)
(* transactions.                                                           *)
(***************************************************************************)
EXTENDS NodeSupply, SumsProofs

-----------------------------------------------------------------------------
(* Chains: what an appended block does to the history of coins. *)

(* The outpoints of a transaction are indices of outputs, counted from 1.   *)
LEMMA OutPointsTyped ==
    ASSUME NEW t \in Tx
    PROVE  OutPointsOf(t) \subseteq Tx \X (Nat \ {0})
BY TransactionsAssumption DEF OutPointsOf

(* The inputs that a transaction spends are among those it names.           *)
LEMMA SpendsAreInputs ==
    ASSUME NEW t
    PROVE  SpendsOf(t) \subseteq InputSet(t)
BY DEF SpendsOf

(* Appending a block keeps all blocks before it in place.                   *)
LEMMA AppendBlock ==
    ASSUME NEW c \in Seq(Block), NEW b \in Block
    PROVE  /\ Append(c, b) \in Seq(Block)
           /\ DOMAIN Append(c, b) = 1 .. Len(c) + 1
           /\ Len(c) \in Nat
           /\ DOMAIN c = 1 .. Len(c)
           /\ \A i \in 1 .. Len(c) : Append(c, b)[i] = c[i]
           /\ Append(c, b)[Len(c) + 1] = b
OBVIOUS

(* A live coin that the new block does not spend stays live.                *)
LEMMA LiveUnspent ==
    ASSUME NEW c \in Seq(Block), NEW b \in Block, NEW op,
           IsLive(c, op),
           \A k \in DOMAIN b.txs : op \notin SpendsOf(b.txs[k])
    PROVE  IsLive(Append(c, b), op)
PROOF
<1> DEFINE d == Append(c, b)
<1>1. /\ DOMAIN d = 1 .. Len(c) + 1
      /\ Len(c) \in Nat
      /\ DOMAIN c = 1 .. Len(c)
      /\ \A i \in 1 .. Len(c) : d[i] = c[i]
      /\ d[Len(c) + 1] = b
  BY AppendBlock
<1> HIDE DEF d
<1>2. PICK i \in DOMAIN c : \E k \in DOMAIN c[i].txs :
          /\ Creates(c, i, k, op)
          /\ \A j \in DOMAIN c : \A m \in DOMAIN c[j].txs :
                Spends(c, j, m, op) => ~Before(i, k, j, m)
  BY DEF IsLive
<1>3. PICK k \in DOMAIN c[i].txs :
          /\ Creates(c, i, k, op)
          /\ \A j \in DOMAIN c : \A m \in DOMAIN c[j].txs :
                Spends(c, j, m, op) => ~Before(i, k, j, m)
  BY <1>2
<1>4. /\ i \in DOMAIN d
      /\ d[i] = c[i]
      /\ Creates(d, i, k, op)
  BY <1>1, <1>3 DEF Creates
<1>5. ASSUME NEW j \in DOMAIN d, NEW m \in DOMAIN d[j].txs, Spends(d, j, m, op)
      PROVE  ~Before(i, k, j, m)
  <2>1. CASE j \in DOMAIN c
    BY <1>1, <1>3, <1>5, <2>1 DEF Spends
  <2>2. CASE j = Len(c) + 1
    BY <1>1, <1>5, <2>2 DEF Spends
  <2>3. QED
    BY <1>1, <2>1, <2>2
<1>6. QED
  BY <1>3, <1>4, <1>5 DEF IsLive, d

(* A coin that the new block creates and does not spend afterwards is live. *)
LEMMA LiveCreated ==
    ASSUME NEW c \in Seq(Block), NEW b \in Block, NEW op,
           NEW k \in DOMAIN b.txs,
           op \in OutPointsOf(b.txs[k]),
           \A j \in DOMAIN b.txs : j > k => op \notin SpendsOf(b.txs[j])
    PROVE  IsLive(Append(c, b), op)
PROOF
<1> DEFINE d == Append(c, b)
           n == Len(c) + 1
<1>1. /\ DOMAIN d = 1 .. n
      /\ Len(c) \in Nat
      /\ d[n] = b
  BY AppendBlock
<1>0. DOMAIN b.txs \subseteq Nat
  BY DEF Block
<1> HIDE DEF d
<1>2. n \in DOMAIN d /\ k \in DOMAIN d[n].txs /\ Creates(d, n, k, op)
  BY <1>1 DEF Creates
<1>3. ASSUME NEW j \in DOMAIN d, NEW m \in DOMAIN d[j].txs, Spends(d, j, m, op)
      PROVE  ~Before(n, k, j, m)
  <2>1. CASE j < n
    BY <1>1, <2>1 DEF Before
  <2>2. CASE j = n
    BY <1>0, <1>1, <1>3, <2>2 DEF Before, Spends
  <2>3. QED
    BY <1>1, <2>1, <2>2
<1>4. QED
  BY <1>2, <1>3 DEF IsLive, d

(* A chain without double spends stays one when a block is appended whose   *)
(* spends are live in it.                                                   *)
LEMMA SpendsOnlyLiveStep ==
    ASSUME NEW c \in Seq(Block), NEW b \in Block,
           SpendsOnlyLive(c), SpendsLive(c, b)
    PROVE  SpendsOnlyLive(Append(c, b))
PROOF
<1> DEFINE d == Append(c, b)
           n == Len(c) + 1
<1>1. /\ DOMAIN d = 1 .. n
      /\ Len(c) \in Nat
      /\ DOMAIN c = 1 .. Len(c)
      /\ \A i \in 1 .. Len(c) : d[i] = c[i]
      /\ d[n] = b
  BY AppendBlock
<1> HIDE DEF d
<1> SUFFICES ASSUME NEW j \in DOMAIN d, NEW m \in DOMAIN d[j].txs,
                    NEW op \in SpendsOf(d[j].txs[m])
             PROVE  \E i \in 1 .. j-1 : \E k \in DOMAIN d[i].txs :
                      /\ Creates(d, i, k, op)
                      /\ \A j2 \in 1 .. j : \A m2 \in DOMAIN d[j2].txs :
                            Spends(d, j2, m2, op) /\ Before(j2, m2, j, m)
                                => ~Before(i, k, j2, m2)
  BY DEF SpendsOnlyLive, d
<1>2. CASE j \in 1 .. Len(c)
  <2>1. PICK i \in 1 .. j-1 : \E k \in DOMAIN c[i].txs :
            /\ Creates(c, i, k, op)
            /\ \A j2 \in 1 .. j : \A m2 \in DOMAIN c[j2].txs :
                  Spends(c, j2, m2, op) /\ Before(j2, m2, j, m)
                      => ~Before(i, k, j2, m2)
    BY <1>1, <1>2 DEF SpendsOnlyLive
  <2>2. i \in 1 .. Len(c) /\ \A j2 \in 1 .. j : j2 \in 1 .. Len(c)
    BY <1>1, <1>2
  <2>3. QED
    BY <1>1, <2>1, <2>2 DEF Creates, Spends
<1>3. CASE j = n
  <2>1. /\ m \in DOMAIN b.txs
        /\ op \in SpendsOf(b.txs[m])
        /\ IsLive(c, op)
        /\ \A m2 \in DOMAIN b.txs : m2 # m => op \notin SpendsOf(b.txs[m2])
    BY <1>1, <1>3 DEF SpendsLive
  <2>2. PICK i \in DOMAIN c : \E k \in DOMAIN c[i].txs :
            /\ Creates(c, i, k, op)
            /\ \A j2 \in DOMAIN c : \A m2 \in DOMAIN c[j2].txs :
                  Spends(c, j2, m2, op) => ~Before(i, k, j2, m2)
    BY <2>1 DEF IsLive
  <2>3. PICK k \in DOMAIN c[i].txs :
            /\ Creates(c, i, k, op)
            /\ \A j2 \in DOMAIN c : \A m2 \in DOMAIN c[j2].txs :
                  Spends(c, j2, m2, op) => ~Before(i, k, j2, m2)
    BY <2>2
  <2>4. /\ i \in 1 .. j-1
        /\ k \in DOMAIN d[i].txs
        /\ Creates(d, i, k, op)
    BY <1>1, <1>3, <2>3 DEF Creates
  <2>5. ASSUME NEW j2 \in 1 .. j, NEW m2 \in DOMAIN d[j2].txs,
               Spends(d, j2, m2, op), Before(j2, m2, j, m)
        PROVE  ~Before(i, k, j2, m2)
    <3>1. CASE j2 \in DOMAIN c
      BY <1>1, <2>3, <2>5, <3>1 DEF Spends
    <3>2. CASE j2 = n
      (* Only m spends op in the last block, and m is not before itself. *)
      <4>1. DOMAIN b.txs \subseteq Nat
        BY DEF Block
      <4>2. m2 = m
        BY <1>1, <2>1, <2>5, <3>2 DEF Spends
      <4>3. ~Before(j2, m2, j, m)
        BY <1>1, <1>3, <2>1, <3>2, <4>1, <4>2 DEF Before
      <4>4. QED
        BY <2>5, <4>3
    <3>3. QED
      BY <1>1, <1>3, <3>1, <3>2
  <2>6. QED
    BY <2>4, <2>5
<1>4. QED
  BY <1>1, <1>2, <1>3

(* The genesis block belongs to the blocks, and spends nothing.             *)
LEMMA GenesisTyped ==
    /\ GenesisBlock \in Block
    /\ <<GenesisBlock>> \in Seq(Block)
    /\ SpendsOnlyLive(<<GenesisBlock>>)
    /\ IsLinked(<<GenesisBlock>>)
PROOF
<1>1. GenesisBlock \in Block
  BY BlocksAssumption DEF GenesisBlock, Block, Hash
<1>2. SpendsOnlyLive(<<GenesisBlock>>)
  BY BlocksAssumption DEF SpendsOnlyLive, GenesisBlock, SpendsOf
<1>3. IsLinked(<<GenesisBlock>>)
  BY DEF IsLinked
<1>4. QED
  BY <1>1, <1>2, <1>3

-----------------------------------------------------------------------------
(* The node. *)

(* The inductive invariant.  CoinsAreLive alone is not inductive: that an   *)
(* accepted spend is of a live coin needs the coins to be live before, and  *)
(* the types; MarksAreCoins stands on its own.                              *)
NodeInv ==
    /\ TypeOK
    /\ MarksAreCoins
    /\ CoinsAreLive
    /\ ChainSpendsOnlyLive

-----------------------------------------------------------------------------
(* The scan of transactions. *)

(* The outpoints that a scan records are coins.                             *)
LEMMA RecordedAreCoins ==
    ASSUME NEW t \in Tx, NEW u, NEW s
    PROVE  Recorded(t, u, s) \subseteq u
PROOF
<1> SUFFICES ASSUME NEW op \in Recorded(t, u, s)
             PROVE  op \in u
  OBVIOUS
<1>1. PICK k \in DOMAIN Inputs[t] :
          op = Inputs[t][k] /\ \A j \in 1 .. k : j \notin RefusedInputs(t, u, s)
  BY DEF Recorded
<1>2. k \in 1 .. k
  BY TransactionsAssumption
<1>3. QED
  BY <1>1, <1>2 DEF RefusedInputs

(* An accepted transaction spends only coins, none of them recorded before. *)
LEMMA AcceptedSpendsCoins ==
    ASSUME NEW t \in Tx, NEW u, NEW s, Accepts(t, u, s)
    PROVE  \A op \in SpendsOf(t) : op \in u /\ op \notin s
BY DEF Accepts, SpendAccepted, RefusedInputs, SpendsOf, InputSet

(* The transactions of a block are counted from 1.                          *)
LEMMA BlockTxs ==
    ASSUME NEW b \in Block
    PROVE  /\ b.txs \in Seq(Tx)
           /\ DOMAIN b.txs = 1 .. Len(b.txs)
           /\ Len(b.txs) \in Nat
           /\ \A k \in DOMAIN b.txs : k \in Nat /\ k \in 1 .. k /\ b.txs[k] \in Tx
PROOF
<1>1. b.txs \in Seq(Tx)
  BY DEF Block
<1>2. QED
  BY <1>1

(* What a client submits is a block.                                        *)
LEMMA SubmissionsAreBlocks == TypeOK => Submissions(chain) \subseteq Block
PROOF
<1> SUFFICES ASSUME TypeOK, NEW b \in Submissions(chain)
             PROVE  b \in Block
  OBVIOUS
<1>1. chain[Len(chain)] \in Block
  BY DEF TypeOK
<1>2. HashOf(Tip(chain)) \in Hash
  BY <1>1 DEF HashOf, Tip, Block, Hash, HeaderData
<1>3. b.txs \in Seq(Tx)
  BY BlocksAssumption DEF Submissions
<1>4. <<>> \in Hash
  BY DEF Hash
<1>5. b.prev \in Hash
  BY <1>2, <1>4 DEF Submissions
<1>6. QED
  BY <1>3, <1>5 DEF Submissions, Block

(* While no transaction has been refused, what is recorded are coins.       *)
LEMMA SpentBeforeAreCoins ==
    ASSUME TypeOK, MarksAreCoins, NEW b \in Block, NEW k \in Nat,
           \A j \in 1 .. k-1 : j \in DOMAIN b.txs \ RefusedTxs(b)
    PROVE  SpentBefore(b, k) \subseteq utxos
PROOF
<1> SUFFICES ASSUME NEW op \in SpentBefore(b, k)
             PROVE  op \in utxos
  OBVIOUS
<1>1. CASE op \in spentThisBlock
  BY <1>1 DEF MarksAreCoins
<1>2. CASE \E j \in 1 .. k-1 : op \in SpendsOf(b.txs[j])
  <2>1. PICK j \in 1 .. k-1 : op \in SpendsOf(b.txs[j])
    BY <1>2
  <2>2. b.txs[j] \in Tx /\ Accepts(b.txs[j], utxos, SpentBefore(b, j))
    BY BlockTxs DEF RefusedTxs
  <2>3. QED
    BY <2>1, <2>2, AcceptedSpendsCoins
<1>3. QED
  BY <1>1, <1>2 DEF SpentBefore

(* The least refused transaction is the one the scan returns at: those       *)
(* before it are accepted.                                                   *)
LEMMA FirstRefusedIsLeast ==
    ASSUME TypeOK, NEW b \in Block, RefusedTxs(b) # {}
    PROVE  /\ FirstRefused(b) \in DOMAIN b.txs
           /\ FirstRefused(b) \in Nat
           /\ \A j \in 1 .. FirstRefused(b) - 1 : j \in DOMAIN b.txs \ RefusedTxs(b)
PROOF
<1> DEFINE k == FirstRefused(b)
<1>1. b.txs \in Seq(Tx)
  BY BlockTxs DEF Block
<1>2. RefusedTxs(b) \subseteq DOMAIN b.txs /\ DOMAIN b.txs = 1 .. Len(b.txs)
  BY <1>1 DEF RefusedTxs
<1>3. \E m \in RefusedTxs(b) : \A j \in RefusedTxs(b) : m <= j
  BY <1>1, <1>2, LeastElement
<1>4. k \in RefusedTxs(b) /\ \A j \in RefusedTxs(b) : k <= j
  BY <1>3 DEF FirstRefused
<1> HIDE DEF k
<1>5. k \in DOMAIN b.txs /\ k \in Nat
  BY <1>1, <1>2, <1>4
<1>6. \A j \in 1 .. k-1 : j \in DOMAIN b.txs \ RefusedTxs(b)
  BY <1>1, <1>2, <1>4, <1>5
<1>7. QED
  BY <1>5, <1>6 DEF k

(* The coins after an accepted block, and what each of them owes the block.  *)
LEMMA AppliedCoins ==
    ASSUME TypeOK, NEW b \in Block, NEW u, NEW op \in ApplyTxs(b.txs, u)
    PROVE  \/ op \in u /\ \A j \in DOMAIN b.txs : op \notin SpendsOf(b.txs[j])
           \/ \E k \in DOMAIN b.txs :
                 /\ op \in OutPointsOf(b.txs[k])
                 /\ \A j \in DOMAIN b.txs : j > k => op \notin SpendsOf(b.txs[j])
PROOF
<1>1. \A j \in DOMAIN b.txs : j > 0
  BY BlockTxs DEF Block
<1>2. QED
  BY <1>1, SpendsAreInputs DEF ApplyTxs

-----------------------------------------------------------------------------
(* What an accepted block does. *)

(* An accepted block spends live coins, each of them once.                  *)
LEMMA AcceptedSpendsLive ==
    ASSUME NodeInv, NEW b \in Block, RefusedTxs(b) = {}
    PROVE  SpendsLive(chain, b)
PROOF
<1> SUFFICES ASSUME NEW k \in DOMAIN b.txs, NEW op \in SpendsOf(b.txs[k])
             PROVE  /\ IsLive(chain, op)
                    /\ \A j \in DOMAIN b.txs : j # k => op \notin SpendsOf(b.txs[j])
  BY DEF SpendsLive
<1> USE DEF NodeInv
<1>1. ASSUME NEW m \in DOMAIN b.txs
      PROVE  \A o \in SpendsOf(b.txs[m]) : o \in utxos /\ o \notin SpentBefore(b, m)
  BY <1>1, BlockTxs, AcceptedSpendsCoins DEF RefusedTxs
<1>2. IsLive(chain, op)
  BY <1>1 DEF CoinsAreLive
<1>3. ASSUME NEW j \in DOMAIN b.txs, j # k, op \in SpendsOf(b.txs[j])
      PROVE  FALSE
  <2>1. j \in Nat /\ k \in Nat /\ j >= 1 /\ k >= 1
    BY BlockTxs DEF Block
  <2>2. CASE j < k
    <3>1. op \in SpentBefore(b, k)
      BY <1>3, <2>1, <2>2 DEF SpentBefore
    <3>2. QED
      BY <1>1, <3>1
  <2>3. CASE k < j
    <3>1. op \in SpentBefore(b, j)
      BY <2>1, <2>3 DEF SpentBefore
    <3>2. QED
      BY <1>1, <1>3, <3>1
  <2>4. QED
    BY <1>3, <2>1, <2>2, <2>3
<1>4. QED
  BY <1>2, <1>3

(* The coins after an accepted block are live in the longer chain.          *)
LEMMA AcceptedCoinsLive ==
    ASSUME NodeInv, NEW b \in Block,
           NEW op \in ApplyTxs(b.txs, utxos \ SpentBefore(b, Len(b.txs) + 1))
    PROVE  IsLive(Append(chain, b), op)
PROOF
<1> USE DEF NodeInv
<1>1. b \in Block /\ chain \in Seq(Block)
  BY BlockTxs DEF TypeOK
<1>2. CASE /\ op \in utxos
           /\ \A j \in DOMAIN b.txs : op \notin SpendsOf(b.txs[j])
  BY <1>1, <1>2, LiveUnspent DEF CoinsAreLive
<1>3. CASE \E k \in DOMAIN b.txs :
              /\ op \in OutPointsOf(b.txs[k])
              /\ \A j \in DOMAIN b.txs : j > k => op \notin SpendsOf(b.txs[j])
  BY <1>1, <1>3, LiveCreated
<1>4. QED
  BY <1>2, <1>3, AppliedCoins

(* The coins after an accepted block are well typed.                        *)
LEMMA AppliedTyped ==
    ASSUME TypeOK, NEW b \in Block, NEW u, u \subseteq utxos
    PROVE  ApplyTxs(b.txs, u) \subseteq Tx \X (Nat \ {0})
BY AppliedCoins, BlockTxs, OutPointsTyped DEF TypeOK

-----------------------------------------------------------------------------
(* The invariant. *)

(* It holds when the node has started.                                      *)
LEMMA NodeInvInit == Init => NodeInv
PROOF
<1> SUFFICES ASSUME Init
             PROVE  NodeInv
  OBVIOUS
<1>1. TypeOK
  BY GenesisTyped, OutPointsTyped, BlocksAssumption DEF Init, TypeOK
<1>2. MarksAreCoins
  BY DEF Init, MarksAreCoins
<1>3. CoinsAreLive
  BY DEF Init, CoinsAreLive, IsLive, GenesisBlock, Creates, Spends, Before
<1>4. ChainSpendsOnlyLive
  BY GenesisTyped DEF Init, ChainSpendsOnlyLive
<1>5. QED
  BY <1>1, <1>2, <1>3, <1>4 DEF NodeInv

(* It is about the node's variables only.                                   *)
LEMMA NodeInvUnchanged ==
    ASSUME NodeInv, UNCHANGED vars
    PROVE  NodeInv'
BY DEF NodeInv, TypeOK, MarksAreCoins, CoinsAreLive, ChainSpendsOnlyLive, vars

(* The submission of a block preserves it, whatever the block.              *)
LEMMA SubmitKeepsInv ==
    ASSUME NodeInv, NEW b \in Block, SubmitBlock(b)
    PROVE  NodeInv'
PROOF
<1>1. CASE RejectHeader(b)
  BY <1>1, NodeInvUnchanged DEF RejectHeader
<1>2. CASE RejectSpend(b)
  <2> DEFINE k == FirstRefused(b)
             s == SpentBefore(b, k)
  <2>1. /\ RefusedTxs(b) # {}
        /\ spentThisBlock' = s \cup Recorded(b.txs[k], utxos, s)
        /\ UNCHANGED <<utxos, chain>>
    BY <1>2 DEF RejectSpend
  <2>2. /\ k \in DOMAIN b.txs
        /\ k \in Nat
        /\ \A j \in 1 .. k-1 : j \in DOMAIN b.txs \ RefusedTxs(b)
    BY <2>1, FirstRefusedIsLeast DEF NodeInv
  <2>3. s \subseteq utxos
    BY <2>2, SpentBeforeAreCoins DEF NodeInv
  <2>4. Recorded(b.txs[k], utxos, s) \subseteq utxos
    BY <2>2, BlockTxs, RecordedAreCoins DEF NodeInv
  <2> HIDE DEF k, s
  <2>5. MarksAreCoins'
    BY <2>1, <2>3, <2>4 DEF MarksAreCoins
  <2>6. TypeOK'
    BY <2>1, <2>5 DEF NodeInv, TypeOK, MarksAreCoins, OutPoint
  <2>7. QED
    BY <2>1, <2>5, <2>6 DEF NodeInv, CoinsAreLive, ChainSpendsOnlyLive
<1>3. CASE AcceptBlock(b)
  <2> DEFINE u == utxos \ SpentBefore(b, Len(b.txs) + 1)
  <2>1. /\ RefusedTxs(b) = {}
        /\ utxos' = ApplyTxs(b.txs, u)
        /\ spentThisBlock' = {}
        /\ chain' = Append(chain, b)
    BY <1>3 DEF AcceptBlock
  <2>2. b \in Block /\ chain \in Seq(Block)
    BY BlockTxs DEF NodeInv, TypeOK
  <2>3. TypeOK'
    <3>1. utxos' \subseteq Tx \X (Nat \ {0})
      BY <2>1, AppliedTyped DEF NodeInv
    <3>2. chain' \in Seq(Block) \ {<<>>}
      BY <2>1, <2>2
    <3>3. QED
      BY <2>1, <3>1, <3>2 DEF TypeOK
  <2>4. MarksAreCoins'
    BY <2>1 DEF MarksAreCoins
  <2>5. CoinsAreLive'
    BY <2>1, AcceptedCoinsLive DEF CoinsAreLive
  <2>6. ChainSpendsOnlyLive'
    BY <2>1, <2>2, AcceptedSpendsLive, SpendsOnlyLiveStep DEF NodeInv, ChainSpendsOnlyLive
  <2>7. QED
    BY <2>3, <2>4, <2>5, <2>6 DEF NodeInv
<1>4. QED
  BY <1>1, <1>2, <1>3 DEF SubmitBlock

(* A call of a client is the submission of some block.                      *)
LEMMA CallsSubmitBlocks ==
    ASSUME NodeInv, Next
    PROVE  \E b \in Block : SubmitBlock(b)
BY SubmissionsAreBlocks DEF NodeInv, Next

(* Each call preserves the invariant.                                       *)
LEMMA NodeInvNext == NodeInv /\ [Next]_vars => NodeInv'
BY NodeInvUnchanged, CallsSubmitBlocks, SubmitKeepsInv

(* The invariant holds in every state that the node can reach.              *)
THEOREM NodeInvariant == Spec => []NodeInv
BY NodeInvInit, NodeInvNext, PTL DEF Spec

(* The variables keep their types, and the chain is never empty.            *)
THEOREM TypeCorrect == Spec => []TypeOK
PROOF
<1>1. NodeInv => TypeOK
  BY DEF NodeInv
<1>2. QED
  BY <1>1, NodeInvariant, PTL

(* No coin out of thin air, whatever blocks are submitted.                  *)
THEOREM NoCoinFromThinAir == Spec => []CoinsAreLive
PROOF
<1>1. NodeInv => CoinsAreLive
  BY DEF NodeInv
<1>2. QED
  BY <1>1, NodeInvariant, PTL

(* Records of spends, stale ones included, never outlive their coins.       *)
THEOREM NoMarkWithoutCoin == Spec => []MarksAreCoins
PROOF
<1>1. NodeInv => MarksAreCoins
  BY DEF NodeInv
<1>2. QED
  BY <1>1, NodeInvariant, PTL

(* No double spend on the chain, whatever blocks are submitted.             *)
THEOREM NoDoubleSpend == Spec => []ChainSpendsOnlyLive
PROOF
<1>1. NodeInv => ChainSpendsOnlyLive
  BY DEF NodeInv
<1>2. QED
  BY <1>1, NodeInvariant, PTL
-----------------------------------------------------------------------------
(* What an accepted block may do to a coin. *)

(* Live(c) is what it is meant to be: the coins that are live.              *)
LEMMA LiveIffIsLive ==
    ASSUME NEW c, NEW op
    PROVE  op \in Live(c) <=> IsLive(c, op)
BY DEF Live, IsLive, Creates

(* A coin that some block of a chain creates is not the null outpoint.      *)
LEMMA InputIsSpend ==
    ASSUME NEW t \in Tx, NEW op \in Tx \X (Nat \ {0}), op \in InputSet(t)
    PROVE  op \in SpendsOf(t)
PROOF
<1>1. op # NullOutPoint
  BY TransactionsAssumption DEF NullOutPoint
<1>2. IsCoinbase(t) => InputSet(t) = {NullOutPoint}
  BY DEF IsCoinbase, InputSet
<1>3. QED
  BY <1>1, <1>2 DEF SpendsOf

(* A coin live in the chain that an accepted block extends is a coin of the *)
(* new set, unless it was live already and left out by what u contains.     *)
LEMMA LiveIsApplied ==
    ASSUME TypeOK, NEW b \in Block, NEW u, NEW op,
           IsLive(Append(chain, b), op)
    PROVE  \/ op \in ApplyTxs(b.txs, u)
           \/ /\ op \notin u
              /\ IsLive(chain, op)
              /\ \A j \in DOMAIN b.txs : op \notin SpendsOf(b.txs[j])
PROOF
<1> DEFINE d == Append(chain, b)
           n == Len(chain) + 1
<1>1. /\ DOMAIN d = 1 .. n
      /\ Len(chain) \in Nat
      /\ DOMAIN chain = 1 .. Len(chain)
      /\ \A i \in 1 .. Len(chain) : d[i] = chain[i]
      /\ d[n] = b
  BY BlockTxs, AppendBlock DEF TypeOK
<1>2. DOMAIN b.txs \subseteq Nat \ {0} /\ \A k \in DOMAIN b.txs : b.txs[k] \in Tx
  BY BlockTxs DEF Block
<1>3. ASSUME NEW i \in DOMAIN chain, NEW k \in DOMAIN chain[i].txs
      PROVE  chain[i].txs[k] \in Tx
  <2>1. chain[i] \in Block
    BY DEF TypeOK
  <2>2. chain[i].txs \in Seq(Tx)
    BY <2>1 DEF Block
  <2>3. QED
    BY <2>2
<1> HIDE DEF d
<1>0. PICK i \in DOMAIN d : \E k \in DOMAIN d[i].txs :
          /\ Creates(d, i, k, op)
          /\ \A j \in DOMAIN d : \A m \in DOMAIN d[j].txs :
                Spends(d, j, m, op) => ~Before(i, k, j, m)
  BY DEF IsLive, d
<1>4. PICK k \in DOMAIN d[i].txs :
          /\ Creates(d, i, k, op)
          /\ \A j \in DOMAIN d : \A m \in DOMAIN d[j].txs :
                Spends(d, j, m, op) => ~Before(i, k, j, m)
  BY <1>0
<1>5. op \in Tx \X (Nat \ {0})
  <2>1. d[i].txs[k] \in Tx
    BY <1>1, <1>2, <1>3
  <2>2. QED
    BY <1>4, <2>1, OutPointsTyped DEF Creates
<1>6. \A j \in DOMAIN b.txs : op \in InputSet(b.txs[j]) <=> op \in SpendsOf(b.txs[j])
  BY <1>2, <1>5, InputIsSpend, SpendsAreInputs
<1>7. CASE i = n
  <2>1. k \in DOMAIN b.txs /\ op \in OutPointsOf(b.txs[k])
    BY <1>1, <1>4, <1>7 DEF Creates
  <2>2. \A j \in DOMAIN b.txs : j > k => op \notin SpendsOf(b.txs[j])
    BY <1>1, <1>2, <1>4, <1>7, <2>1 DEF Spends, Before
  <2>3. \A j \in DOMAIN b.txs : j > k => op \notin InputSet(b.txs[j])
    BY <1>6, <2>2
  <2>4. QED
    BY <2>1, <2>3 DEF ApplyTxs
<1>8. CASE i \in DOMAIN chain
  <2>1. \A j \in DOMAIN b.txs : op \notin SpendsOf(b.txs[j])
    BY <1>1, <1>4, <1>8 DEF Spends, Before
  <2>2. IsLive(chain, op)
    BY <1>1, <1>4, <1>8 DEF IsLive, Creates, Spends
  <2>3. op \in u => op \in ApplyTxs(b.txs, u)
    BY <1>6, <2>1 DEF ApplyTxs
  <2>4. QED
    BY <2>1, <2>2, <2>3
<1>9. QED
  BY <1>1, <1>7, <1>8

(* Acceptance is exact from a clean state.                                  *)
THEOREM AcceptanceIsExact == Spec => ExactWhenClean
PROOF
<1>1. NodeInv /\ [Next]_vars => [ExactStep]_vars
  <2> SUFFICES ASSUME NodeInv, NEW b \in Block, AcceptBlock(b),
                      spentThisBlock = {}, utxos = Live(chain)
               PROVE  utxos' = Live(chain')
    BY CallsSubmitBlocks DEF ExactStep, SubmitBlock, RejectHeader, RejectSpend, vars
  <2> DEFINE spent == SpentBefore(b, Len(b.txs) + 1)
  <2>1. utxos' = ApplyTxs(b.txs, utxos \ spent) /\ chain' = Append(chain, b)
    BY DEF AcceptBlock
  <2>2. ASSUME NEW op \in utxos'
        PROVE  op \in Live(chain')
    BY <2>1, AcceptedCoinsLive, LiveIffIsLive
  <2>3. ASSUME NEW op \in Live(chain')
        PROVE  op \in utxos'
    <3>1. IsLive(Append(chain, b), op)
      BY <2>1, LiveIffIsLive
    <3>2. b.txs \in Seq(Tx)
      BY BlockTxs DEF NodeInv, Block
    <3>3. (\A j \in DOMAIN b.txs : op \notin SpendsOf(b.txs[j])) => op \notin spent
      BY <3>2 DEF SpentBefore
    <3>4. IsLive(chain, op) => op \in utxos
      BY LiveIffIsLive
    <3>5. \/ op \in ApplyTxs(b.txs, utxos \ spent)
          \/ /\ op \notin utxos \ spent
             /\ IsLive(chain, op)
             /\ \A j \in DOMAIN b.txs : op \notin SpendsOf(b.txs[j])
      BY <3>1, LiveIsApplied DEF NodeInv
    <3> HIDE DEF spent
    <3>6. QED
      BY <2>1, <3>3, <3>4, <3>5
  <2>4. QED
    BY <2>2, <2>3
<1>2. QED
  BY <1>1, NodeInvariant, PTL DEF Spec, ExactWhenClean

(* Only coins that a refused block had recorded are lost.                   *)
THEOREM OnlyMarkedCoinsAreLost == Spec => LossOnlyOfMarked
PROOF
<1>1. NodeInv /\ [Next]_vars => [LossStep]_vars
  <2> SUFFICES ASSUME NodeInv, NEW b \in Block, AcceptBlock(b),
                      NEW op \in utxos \ utxos', IsLive(chain', op)
               PROVE  op \in spentThisBlock
    BY CallsSubmitBlocks DEF LossStep, SubmitBlock, RejectHeader, RejectSpend, vars
  <2> DEFINE spent == SpentBefore(b, Len(b.txs) + 1)
  <2>1. utxos' = ApplyTxs(b.txs, utxos \ spent) /\ chain' = Append(chain, b)
    BY DEF AcceptBlock
  <2>2. /\ op \notin utxos \ spent
        /\ \A j \in DOMAIN b.txs : op \notin SpendsOf(b.txs[j])
    BY <2>1, LiveIsApplied DEF NodeInv
  <2>3. b.txs \in Seq(Tx)
    BY BlockTxs DEF NodeInv, Block
  <2>4. QED
    BY <2>2, <2>3 DEF SpentBefore
<1>2. QED
  BY <1>1, NodeInvariant, PTL DEF Spec, LossOnlyOfMarked

-----------------------------------------------------------------------------
(* The loop of submitblock. *)

(* What the recursion of ApplyLoop has for the first n transactions.        *)
LeftOn(left, txs, u, n) ==
    left = [k \in 0 .. n |->
               IF k = 0 THEN u
               ELSE (left[k-1] \ InputSet(txs[k])) \cup OutPointsOf(txs[k])]

LEMMA ApplyLoopUnfolds ==
    ASSUME NEW txs, NEW u
    PROVE  ApplyLoop(txs, u) = (CHOOSE left : LeftOn(left, txs, u, Len(txs)))[Len(txs)]
BY DEF ApplyLoop, LeftOn

(* The recursion defines a function.                                        *)
LEMMA LeftExists ==
    ASSUME NEW txs, NEW u, NEW n \in Nat
    PROVE  LeftOn(CHOOSE left : LeftOn(left, txs, u, n), txs, u, n)
PROOF
<1> DEFINE G == {m \in Nat : \E left : LeftOn(left, txs, u, m)}
<1>1. 0 \in G
  <2> DEFINE left == [k \in 0 .. 0 |-> u]
  <2>1. LeftOn(left, txs, u, 0)
    BY DEF LeftOn
  <2>2. QED
    BY <2>1
<1>2. ASSUME NEW m \in Nat, m \in G
      PROVE  m + 1 \in G
  <2>1. PICK left : LeftOn(left, txs, u, m)
    BY <1>2
  <2> DEFINE new == [k \in 0 .. m + 1 |->
                       IF k = 0 THEN u
                       ELSE (left[k-1] \ InputSet(txs[k])) \cup OutPointsOf(txs[k])]
  <2>2. \A k \in 0 .. m : new[k] = left[k]
    <3>1. \A k \in 0 .. m :
             left[k] = IF k = 0 THEN u
                       ELSE (left[k-1] \ InputSet(txs[k])) \cup OutPointsOf(txs[k])
      BY <2>1 DEF LeftOn
    <3>2. \A k \in 0 .. m : k \in 0 .. m + 1
      OBVIOUS
    <3>3. QED
      BY <3>1, <3>2
  <2>3. \A k \in 0 .. m + 1 : k # 0 => k - 1 \in 0 .. m
    OBVIOUS
  <2>4. LeftOn(new, txs, u, m + 1)
    BY <2>2, <2>3 DEF LeftOn
  <2>5. QED
    BY <2>4
<1>3. n \in G
  <2> HIDE DEF G
  <2>1. QED
    BY <1>1, <1>2, NatInductionOnSet
<1>4. QED
  BY <1>3

(* The closed form ApplyTxs is what the loop leaves: coins of u that no     *)
(* transaction removes, and outputs that none after their own removes.      *)
LEMMA LoopIsClosedForm ==
    ASSUME NEW txs \in Seq(Tx), NEW u
    PROVE  ApplyLoop(txs, u) = ApplyTxs(txs, u)
PROOF
<1> DEFINE n == Len(txs)
           left == CHOOSE f : LeftOn(f, txs, u, n)
<1>1. n \in Nat /\ DOMAIN txs = 1 .. n
  OBVIOUS
<1>2. LeftOn(left, txs, u, n)
  BY <1>1, LeftExists
<1>3. ApplyLoop(txs, u) = left[n]
  BY ApplyLoopUnfolds
<1> HIDE DEF left, n
<1>4. ASSUME NEW op
      PROVE  op \in left[n] <=> op \in ApplyTxs(txs, u)
  <2> DEFINE Stays(m) == op \in u /\ \A j \in 1 .. m : op \notin InputSet(txs[j])
             Made(m) == \E i \in 1 .. m : /\ op \in OutPointsOf(txs[i])
                                         /\ \A j \in i + 1 .. m : op \notin InputSet(txs[j])
             G == {m \in Nat : m \in 0 .. n => (op \in left[m] <=> Stays(m) \/ Made(m))}
  <2>1. 0 \in G
    <3>1. left[0] = u
      BY <1>1, <1>2 DEF LeftOn
    <3>2. QED
      BY <3>1
  <2>2. ASSUME NEW m \in Nat, m \in G
        PROVE  m + 1 \in G
    <3>1. SUFFICES ASSUME m + 1 \in 0 .. n
                   PROVE  op \in left[m + 1] <=> Stays(m + 1) \/ Made(m + 1)
      OBVIOUS
    <3>2. op \in left[m] <=> Stays(m) \/ Made(m)
      BY <1>1, <2>2, <3>1
    <3>3. left[m + 1] = (left[m] \ InputSet(txs[m + 1])) \cup OutPointsOf(txs[m + 1])
      BY <1>1, <1>2, <3>1 DEF LeftOn
    <3>4. Stays(m + 1) <=> Stays(m) /\ op \notin InputSet(txs[m + 1])
      BY <2>2
    <3>5. Made(m + 1) <=> \/ Made(m) /\ op \notin InputSet(txs[m + 1])
                          \/ op \in OutPointsOf(txs[m + 1])
      <4>1. ASSUME Made(m + 1)
            PROVE  \/ Made(m) /\ op \notin InputSet(txs[m + 1])
                   \/ op \in OutPointsOf(txs[m + 1])
        BY <2>2, <4>1
      <4>2. ASSUME Made(m), op \notin InputSet(txs[m + 1])
            PROVE  Made(m + 1)
        <5>1. PICK i \in 1 .. m : /\ op \in OutPointsOf(txs[i])
                                  /\ \A j \in i + 1 .. m : op \notin InputSet(txs[j])
          BY <4>2
        <5>2. \A j \in i + 1 .. m + 1 : j \in i + 1 .. m \/ j = m + 1
          BY <2>2
        <5>3. QED
          BY <2>2, <4>2, <5>1, <5>2
      <4>3. ASSUME op \in OutPointsOf(txs[m + 1])
            PROVE  Made(m + 1)
        BY <2>2, <4>3
      <4>4. QED
        BY <4>1, <4>2, <4>3
    <3>6. QED
      BY <3>2, <3>3, <3>4, <3>5
  <2>3. n \in G
    <3> HIDE DEF G
    <3>1. QED
      BY <1>1, <2>1, <2>2, NatInductionOnSet
  <2>4. op \in left[n] <=> Stays(n) \/ Made(n)
    BY <1>1, <2>3
  <2>5. op \in ApplyTxs(txs, u) <=> Stays(n) \/ Made(n)
    BY <1>1 DEF ApplyTxs
  <2>6. QED
    BY <2>4, <2>5
<1>5. QED
  BY <1>3, <1>4

(* The closed form of the model is what the loop of submitblock computes    *)
(* for any block that is accepted, with any number of transactions.         *)
THEOREM BlocksAreAppliedInOrder == Spec => AppliedInOrder
PROOF
<1>1. NodeInv /\ [Next]_vars => [AppliedInOrderStep]_vars
  <2> SUFFICES ASSUME NodeInv, Next, chain' # chain
               PROVE  AppliedInOrderStep
    BY DEF AppliedInOrderStep
  <2>1. PICK b \in Block : AcceptBlock(b)
    BY CallsSubmitBlocks DEF SubmitBlock, RejectHeader, RejectSpend, vars
  <2>2. chain \in Seq(Block) /\ chain' = Append(chain, b)
    BY <2>1 DEF AcceptBlock, NodeInv, TypeOK
  <2>3. Tip(chain') = b
    BY <2>2 DEF Tip
  <2>4. b.txs \in Seq(Tx) /\ DOMAIN b.txs = 1 .. Len(b.txs) /\ Len(b.txs) \in Nat
    BY BlockTxs
  <2>5. SpentBefore(b, Len(b.txs) + 1)
          = spentThisBlock \cup UNION {SpendsOf(b.txs[k]) : k \in DOMAIN b.txs}
    BY <2>4 DEF SpentBefore
  <2>6. utxos' = ApplyLoop(b.txs, utxos \ SpentBefore(b, Len(b.txs) + 1))
    BY <2>1, <2>4, LoopIsClosedForm DEF AcceptBlock
  <2>7. QED
    BY <2>3, <2>5, <2>6 DEF AppliedInOrderStep
<1>2. QED
  BY <1>1, NodeInvariant, PTL DEF Spec, AppliedInOrder

-----------------------------------------------------------------------------
(* The ledger. *)

(* The ledger reads chains as the node does.                                *)
LEMMA LedgerChains ==
    /\ L!Block = Block
    /\ L!GenesisBlock = GenesisBlock
    /\ \A b : L!HashOf(b) = HashOf(b)
    /\ \A c : L!Tip(c) = Tip(c)
    /\ \A c : L!IsLinked(c) <=> IsLinked(c)
    /\ \A c : L!SpendsOnlyLive(c) <=> SpendsOnlyLive(c)
    /\ \A c, b : L!SpendsLive(c, b) <=> SpendsLive(c, b)
PROOF
<1>1. L!Block = Block /\ L!GenesisBlock = GenesisBlock
  BY DEF Block, Hash, HeaderData, GenesisBlock, L!Block, L!Hash, L!HeaderData,
         L!GenesisBlock
<1>2. /\ \A b : L!HashOf(b) = HashOf(b)
      /\ \A c : L!Tip(c) = Tip(c)
  BY DEF HashOf, Tip, L!HashOf, L!Tip
<1>3. \A c : L!IsLinked(c) <=> IsLinked(c)
  BY <1>2 DEF IsLinked, L!IsLinked
<1>4. \A t : L!SpendsOf(t) = SpendsOf(t) /\ L!OutPointsOf(t) = OutPointsOf(t)
  BY DEF SpendsOf, OutPointsOf, InputSet, IsCoinbase, NullOutPoint, L!SpendsOf,
         L!OutPointsOf, L!InputSet, L!IsCoinbase, L!NullOutPoint
<1>5. \A c, i, k, op : /\ L!Creates(c, i, k, op) <=> Creates(c, i, k, op)
                       /\ L!Spends(c, i, k, op) <=> Spends(c, i, k, op)
  BY <1>4 DEF Creates, Spends, L!Creates, L!Spends
<1>6. \A c : L!SpendsOnlyLive(c) <=> SpendsOnlyLive(c)
  <2>1. \A i, k, j, m : L!Before(i, k, j, m) <=> Before(i, k, j, m)
    BY DEF Before, L!Before
  <2>2. ASSUME NEW c, SpendsOnlyLive(c)
        PROVE  L!SpendsOnlyLive(c)
    BY <1>4, <1>5, <2>1, <2>2 DEF SpendsOnlyLive, L!SpendsOnlyLive
  <2>3. ASSUME NEW c, L!SpendsOnlyLive(c)
        PROVE  SpendsOnlyLive(c)
    BY <1>4, <1>5, <2>1, <2>3 DEF SpendsOnlyLive, L!SpendsOnlyLive
  <2>4. QED
    BY <2>2, <2>3
<1>7. \A c, b : L!SpendsLive(c, b) <=> SpendsLive(c, b)
  <2>1. \A c, op : L!IsLive(c, op) <=> IsLive(c, op)
    BY <1>5 DEF IsLive, Before, L!IsLive, L!Before
  <2>2. QED
    BY <1>4, <2>1 DEF SpendsLive, L!SpendsLive
<1>8. QED
  BY <1>1, <1>2, <1>3, <1>6, <1>7

(* The node implements the ledger: its chain starts as the ledger's does,   *)
(* and a call appends a block that the ledger may append, or changes no     *)
(* block.                                                                   *)
THEOREM NodeImplementsLedger == Spec => ImplementsLedger
PROOF
<1>1. Init => L!Init
  BY LedgerChains DEF Init, L!Init
<1>2. NodeInv /\ [Next]_vars => [L!Next]_chain
  <2> SUFFICES ASSUME NodeInv, NEW b \in Block, AcceptBlock(b)
               PROVE  L!AddBlock
    BY CallsSubmitBlocks DEF SubmitBlock, RejectHeader, RejectSpend, vars, L!Next
  <2>1. /\ chain \in Seq(Block)
        /\ chain' = Append(chain, b)
        /\ SpendsLive(chain, b)
    BY AcceptedSpendsLive DEF NodeInv, TypeOK, AcceptBlock
  <2>2. Tip(chain') = b
    BY <2>1 DEF Tip
  <2>3. b.prev = HashOf(Tip(chain)) /\ b.time > Tip(chain).time
    BY DEF AcceptBlock, HeaderAccepted, CheckParentHash, CheckTimestamp
  <2>4. QED
    BY <2>1, <2>2, <2>3, LedgerChains DEF L!AddBlock
<1>3. QED
  BY <1>1, <1>2, NodeInvariant, PTL DEF Spec, ImplementsLedger, L!Spec

(* The ledger's promise by itself, whoever appends the blocks: its chain is *)
(* linked, and each of its spends consumes a coin created by an earlier     *)
(* block and not spent in between.                                          *)
THEOREM LedgerSafe == L!Spec => []L!ChainSafe
PROOF
<1>1. L!Init => L!ChainSafe
  BY GenesisTyped, LedgerChains DEF L!Init, L!ChainSafe
<1>2. L!ChainSafe /\ [L!Next]_chain => L!ChainSafe'
  <2> SUFFICES ASSUME L!ChainSafe, L!AddBlock
               PROVE  L!ChainSafe'
    BY DEF L!ChainSafe, L!Next
  <2> DEFINE b == Tip(chain')
  <2>1. /\ chain \in Seq(Block)
        /\ Len(chain) > 0
        /\ SpendsOnlyLive(chain)
        /\ IsLinked(chain)
    BY LedgerChains DEF L!ChainSafe
  <2>2. /\ chain' = Append(chain, b)
        /\ b \in Block
        /\ b.prev = HashOf(Tip(chain))
        /\ b.time > Tip(chain).time
        /\ SpendsLive(chain, b)
    BY LedgerChains DEF L!AddBlock
  <2> HIDE DEF b
  <2>3. chain' \in Seq(Block) /\ Len(chain') > 0
    BY <2>1, <2>2, AppendBlock
  <2>4. SpendsOnlyLive(chain')
    BY <2>1, <2>2, SpendsOnlyLiveStep
  <2>5. IsLinked(chain')
    BY <2>1, <2>2, AppendBlock DEF IsLinked, Tip
  <2>6. QED
    BY <2>3, <2>4, <2>5, LedgerChains DEF L!ChainSafe
<1>3. QED
  BY <1>1, <1>2, PTL DEF L!Spec

-----------------------------------------------------------------------------
(* The money supply. *)

(* An accepted transaction makes no money but what it issues and what its   *)
(* total wraps around: the rest of its outputs it pays with the coins that  *)
(* it spends.                                                               *)
LEMMA AcceptedIsPaid ==
    ASSUME NEW t \in Tx, NEW u \in SUBSET Coin, NEW s, Accepts(t, u, s)
    PROVE  /\ SpendsOf(t) \subseteq u
           /\ IsFiniteSet(SpendsOf(t))
           /\ WorthOf(SpendsOf(t)) \in Nat
           /\ IssuedBy(t) \in Nat
           /\ BeyondTotal(t) \in Nat
           /\ WorthOf(OutPointsOf(t))
                <= IssuedBy(t) + BeyondTotal(t) + WorthOf(SpendsOf(t))
PROOF
<1>1. /\ WorthOf(OutPointsOf(t)) \in Nat
      /\ TotalOutput(t) \in 0 .. Wrap - 1
      /\ TotalOutput(t) <= WorthOf(OutPointsOf(t))
  BY WorthOfOutputs
<1>2. CASE IsCoinbase(t)
  <2>1. SpendsOf(t) = {} /\ WorthOf({}) = 0
    BY <1>2, SumOfEmpty DEF SpendsOf, WorthOf, SumFunction
  <2>2. QED
    BY <1>1, <1>2, <2>1, FS_EmptySet DEF IssuedBy, BeyondTotal
<1>3. CASE ~IsCoinbase(t)
  <2>1. /\ RefusedInputs(t, u, s) = {}
        /\ TotalOutput(t) <= TotalInput(t)
        /\ SpendsOf(t) = InputSet(t)
    BY <1>3 DEF Accepts, SpendAccepted, SpendsOf
  <2>2. InputSet(t) \subseteq u /\ InputSet(t) \subseteq Coin
    BY <2>1 DEF RefusedInputs, InputSet
  <2>3. \A i \in DOMAIN Inputs[t] : \A j \in 1 .. i-1 : Inputs[t][j] # Inputs[t][i]
    BY <2>1 DEF RefusedInputs
  <2>4. /\ IsFiniteSet(InputSet(t))
        /\ WorthOf(InputSet(t)) \in Nat
        /\ TotalInput(t) \in 0 .. Wrap - 1
        /\ TotalInput(t) <= WorthOf(InputSet(t))
    BY <2>2, <2>3, WorthOfInputs
  <2>5. QED
    BY <1>1, <1>3, <2>1, <2>2, <2>4, TransactionsAssumption DEF IssuedBy, BeyondTotal
<1>4. QED
  BY <1>2, <1>3

(* What a transaction issues, and what it pays beyond its total, are        *)
(* amounts.                                                                 *)
LEMMA IssuedTyped ==
    ASSUME NEW t \in Tx
    PROVE  IssuedBy(t) \in Nat /\ BeyondTotal(t) \in Nat
BY WorthOfOutputs, TransactionsAssumption DEF IssuedBy, BeyondTotal

(* The same for the transactions of a block.                                *)
IssuedIn(b) == SumFunction([k \in DOMAIN b.txs |-> IssuedBy(b.txs[k])])
BeyondIn(b) == SumFunction([k \in DOMAIN b.txs |-> BeyondTotal(b.txs[k])])

LEMMA IssuedInTyped ==
    ASSUME NEW b \in Block
    PROVE  IssuedIn(b) \in Nat /\ BeyondIn(b) \in Nat
PROOF
<1> DEFINE f == [k \in DOMAIN b.txs |-> IssuedBy(b.txs[k])]
           g == [k \in DOMAIN b.txs |-> BeyondTotal(b.txs[k])]
<1>1. IsFiniteSet(DOMAIN b.txs)
  BY BlockTxs, SeqRangeFinite
<1>2. \A k \in DOMAIN b.txs : f[k] \in Nat /\ g[k] \in Nat
  BY BlockTxs, IssuedTyped
<1>3. DOMAIN f = DOMAIN b.txs /\ DOMAIN g = DOMAIN b.txs
  OBVIOUS
<1>4. IssuedIn(b) = SumFunctionOnSet(f, DOMAIN b.txs)
      /\ BeyondIn(b) = SumFunctionOnSet(g, DOMAIN b.txs)
  BY <1>3 DEF IssuedIn, BeyondIn, SumFunction
<1> HIDE DEF f, g
<1>5. QED
  BY <1>1, <1>2, <1>4, SumNatural

(* The books of a chain: a block adds what its transactions issue, and what *)
(* they pay beyond their totals.                                            *)
IssuedOn(c) == SumFunction([i \in DOMAIN c |-> IssuedIn(c[i])])
BeyondOn(c) == SumFunction([i \in DOMAIN c |-> BeyondIn(c[i])])

LEMMA BooksGrow ==
    ASSUME NEW c \in Seq(Block), NEW b \in Block
    PROVE  /\ IssuedOn(c) \in Nat
           /\ BeyondOn(c) \in Nat
           /\ IssuedOn(Append(c, b)) = IssuedOn(c) + IssuedIn(b)
           /\ BeyondOn(Append(c, b)) = BeyondOn(c) + BeyondIn(b)
PROOF
<1> DEFINE d == Append(c, b)
           n == Len(c) + 1
           D == DOMAIN c
           f == [i \in DOMAIN c |-> IssuedIn(c[i])]
           g == [i \in DOMAIN d |-> IssuedIn(d[i])]
           h == [i \in DOMAIN c |-> BeyondIn(c[i])]
           k == [i \in DOMAIN d |-> BeyondIn(d[i])]
<1>1. /\ DOMAIN d = D \cup {n}
      /\ n \notin D
      /\ \A i \in D : d[i] = c[i] /\ c[i] \in Block
      /\ d[n] = b
  BY AppendBlock
<1>2. IsFiniteSet(D)
  BY SeqRangeFinite
<1> HIDE DEF d, n, D
<1>3. /\ DOMAIN f = D /\ DOMAIN h = D
      /\ DOMAIN g = D \cup {n} /\ DOMAIN k = D \cup {n}
      /\ \A i \in D : f[i] \in Nat /\ g[i] = f[i]
      /\ \A i \in D : h[i] \in Nat /\ k[i] = h[i]
      /\ g[n] = IssuedIn(b) /\ k[n] = BeyondIn(b)
      /\ g[n] \in Nat /\ k[n] \in Nat
  BY <1>1, IssuedInTyped DEF D
<1>4. /\ IssuedOn(c) = SumFunctionOnSet(f, D)
      /\ BeyondOn(c) = SumFunctionOnSet(h, D)
      /\ IssuedOn(d) = SumFunctionOnSet(g, D \cup {n})
      /\ BeyondOn(d) = SumFunctionOnSet(k, D \cup {n})
  BY <1>3 DEF IssuedOn, BeyondOn, SumFunction
<1> HIDE DEF f, g, h, k
<1>5. IssuedOn(c) \in Nat /\ BeyondOn(c) \in Nat
  BY <1>2, <1>3, <1>4, SumNatural
<1>6. SumFunctionOnSet(g, D \cup {n}) = SumFunctionOnSet(f, D) + g[n]
  BY <1>1, <1>2, <1>3, SumExtended
<1>7. SumFunctionOnSet(k, D \cup {n}) = SumFunctionOnSet(h, D) + k[n]
  BY <1>1, <1>2, <1>3, SumExtended
<1>8. QED
  BY <1>3, <1>4, <1>5, <1>6, <1>7 DEF d

(* The outputs of an accepted block are worth no more than what it issues,  *)
(* what its totals wrap around, and the coins it spends.                    *)
LEMMA BlockPays ==
    ASSUME NodeInv, utxos \subseteq Coin, IsFiniteSet(utxos),
           NEW b \in Block, RefusedTxs(b) = {}
    PROVE  LET spent == UNION {SpendsOf(b.txs[k]) : k \in DOMAIN b.txs}
               made == UNION {OutPointsOf(b.txs[k]) : k \in DOMAIN b.txs}
           IN  /\ spent \subseteq utxos
               /\ made \subseteq Coin /\ IsFiniteSet(made)
               /\ WorthOf(made) <= IssuedIn(b) + BeyondIn(b) + WorthOf(spent)
PROOF
<1> DEFINE I == DOMAIN b.txs
           F == [k \in I |-> SpendsOf(b.txs[k])]
           G == [k \in I |-> OutPointsOf(b.txs[k])]
           spent == UNION Range(F)
           made == UNION Range(G)
           issue == [k \in I |-> IssuedBy(b.txs[k])]
           beyond == [k \in I |-> BeyondTotal(b.txs[k])]
           paid == [k \in I |-> WorthOf(F[k])]
           out == [k \in I |-> WorthOf(G[k])]
           new == [k \in I |-> issue[k] + beyond[k]]
           all == [k \in I |-> new[k] + paid[k]]
<1>1. IsFiniteSet(I)
  BY BlockTxs, SeqRangeFinite
<1>2. ASSUME NEW k \in I
      PROVE  /\ F[k] \subseteq utxos
             /\ IsFiniteSet(F[k])
             /\ G[k] \subseteq Coin
             /\ IsFiniteSet(G[k])
             /\ issue[k] \in Nat /\ beyond[k] \in Nat
             /\ paid[k] \in Nat /\ out[k] \in Nat
             /\ out[k] <= issue[k] + beyond[k] + paid[k]
  <2> DEFINE t == b.txs[k]
  <2>1. t \in Tx /\ Accepts(t, utxos, SpentBefore(b, k))
    BY <1>2, BlockTxs DEF RefusedTxs
  <2>2. /\ F[k] = SpendsOf(t) /\ G[k] = OutPointsOf(t)
        /\ issue[k] = IssuedBy(t) /\ beyond[k] = BeyondTotal(t)
        /\ paid[k] = WorthOf(F[k])
        /\ out[k] = WorthOf(G[k])
    BY <1>2
  <2> HIDE DEF t, F, G, issue, beyond, paid, out
  <2>3. QED
    BY <2>1, <2>2, AcceptedIsPaid, WorthOfOutputs
<1>3. \A j, k \in I : j # k => F[j] \cap F[k] = {}
  BY AcceptedSpendsLive DEF SpendsLive
<1>4. /\ spent = UNION {SpendsOf(b.txs[k]) : k \in DOMAIN b.txs}
      /\ made = UNION {OutPointsOf(b.txs[k]) : k \in DOMAIN b.txs}
  BY DEF Range
<1>5. /\ DOMAIN issue = I /\ DOMAIN beyond = I
      /\ \A k \in I : /\ new[k] = issue[k] + beyond[k]
                      /\ all[k] = new[k] + paid[k]
      /\ IssuedIn(b) = SumFunction(issue)
      /\ BeyondIn(b) = SumFunction(beyond)
  BY DEF IssuedIn, BeyondIn
<1>6. spent \subseteq utxos
  BY <1>2 DEF Range
<1>7. WorthOf(spent) = SumFunctionOnSet(paid, I) /\ WorthOf(spent) \in Nat
  <2>1. F \in [I -> SUBSET Coin] /\ \A k \in I : IsFiniteSet(F[k])
    BY <1>2
  <2>2. \A k \in I : paid[k] = WorthOf(F[k])
    OBVIOUS
  <2> HIDE DEF F, paid, I
  <2>3. /\ spent \in SUBSET Coin
        /\ IsFiniteSet(spent)
        /\ WorthOf(spent) = SumFunctionOnSet(paid, I)
    BY <1>1, <1>3, <2>1, <2>2, WorthOfUnions
  <2>4. QED
    BY <2>3, WorthIsSum
<1>8. /\ made \in SUBSET Coin /\ IsFiniteSet(made)
      /\ WorthOf(made) <= SumFunctionOnSet(out, I) /\ WorthOf(made) \in Nat
  <2>1. G \in [I -> SUBSET Coin] /\ \A k \in I : IsFiniteSet(G[k])
    BY <1>2
  <2>2. \A k \in I : out[k] = WorthOf(G[k])
    OBVIOUS
  <2> HIDE DEF G, out, I
  <2>3. /\ made \in SUBSET Coin
        /\ IsFiniteSet(made)
        /\ WorthOf(made) <= SumFunctionOnSet(out, I)
    BY <1>1, <2>1, <2>2, WorthOfUnions
  <2>4. QED
    BY <2>3, WorthIsSum
<1> HIDE DEF I, F, G, spent, made, issue, beyond, paid, out, new, all
<1>9. \A k \in I : /\ issue[k] \in Nat /\ beyond[k] \in Nat
                   /\ new[k] \in Nat /\ paid[k] \in Nat
                   /\ out[k] \in Nat /\ all[k] \in Nat
                   /\ out[k] <= all[k]
  BY <1>2, <1>5
<1>10. SumFunctionOnSet(new, I) = SumFunctionOnSet(issue, I) + SumFunctionOnSet(beyond, I)
  BY <1>1, <1>5, <1>9, SumOfPlus
<1>11. SumFunctionOnSet(all, I) = SumFunctionOnSet(new, I) + SumFunctionOnSet(paid, I)
  BY <1>1, <1>5, <1>9, SumOfPlus
<1>12. SumFunctionOnSet(out, I) <= SumFunctionOnSet(all, I)
  BY <1>1, <1>9, SumMonotone
<1>13. /\ IssuedIn(b) = SumFunctionOnSet(issue, I)
       /\ BeyondIn(b) = SumFunctionOnSet(beyond, I)
  BY <1>5 DEF SumFunction
<1>14. /\ SumFunctionOnSet(out, I) \in Nat
       /\ SumFunctionOnSet(all, I) \in Nat
  BY <1>1, <1>9, SumNatural
<1>15. WorthOf(made) <= IssuedIn(b) + BeyondIn(b) + WorthOf(spent)
  <2>1. IssuedIn(b) \in Nat /\ BeyondIn(b) \in Nat
    BY IssuedInTyped
  <2>2. QED
    BY <1>7, <1>8, <1>10, <1>11, <1>12, <1>13, <1>14, <2>1
<1>16. QED
  BY <1>4, <1>6, <1>8, <1>15

(* The inductive invariant of the supply: every coin is an output of some   *)
(* transaction, coins are finitely many, and the books are kept.            *)
SupplyInv ==
    /\ utxos \subseteq Coin
    /\ IsFiniteSet(utxos)
    /\ SupplyIssued

(* The books of NodeSupply are those of its chain.                          *)
LEMMA BooksOfChain ==
    /\ Issued = IssuedOn(chain)
    /\ Overflowed = BeyondOn(chain)
BY DEF Issued, Overflowed, IssuedOn, BeyondOn, IssuedIn, BeyondIn

LEMMA SupplyInvInit == Init => SupplyInv
PROOF
<1> SUFFICES ASSUME Init
             PROVE  SupplyInv
  OBVIOUS
<1> DEFINE g == GenesisTx
           f == [k \in DOMAIN GenesisBlock.txs |-> IssuedBy(GenesisBlock.txs[k])]
           h == [i \in DOMAIN chain |-> IssuedIn(chain[i])]
<1>1. g \in Tx /\ IsCoinbase(g)
  BY BlocksAssumption
<1>2. /\ OutPointsOf(g) \subseteq Coin
      /\ IsFiniteSet(OutPointsOf(g))
      /\ WorthOf(OutPointsOf(g)) \in Nat
  BY <1>1, WorthOfOutputs
<1>3. IssuedBy(g) = WorthOf(OutPointsOf(g))
  BY <1>1 DEF IssuedBy
<1>4. IssuedIn(GenesisBlock) = WorthOf(OutPointsOf(g))
  <2>1. DOMAIN f = {1} /\ f[1] = IssuedBy(g)
    BY DEF GenesisBlock
  <2>2. IssuedIn(GenesisBlock) = SumFunctionOnSet(f, {1})
    BY <2>1 DEF IssuedIn, SumFunction
  <2> HIDE DEF f
  <2>3. SumFunctionOnSet(f, {1}) = f[1]
    BY <1>2, <1>3, <2>1, SumOfOne
  <2>4. QED
    BY <1>3, <2>1, <2>2, <2>3
<1>5. IssuedOn(chain) = WorthOf(OutPointsOf(g))
  <2>1. DOMAIN h = {1} /\ h[1] = IssuedIn(GenesisBlock)
    BY DEF Init
  <2>2. IssuedOn(chain) = SumFunctionOnSet(h, {1})
    BY <2>1 DEF IssuedOn, SumFunction
  <2> HIDE DEF h
  <2>3. SumFunctionOnSet(h, {1}) = h[1]
    BY <1>2, <1>4, <2>1, SumOfOne
  <2>4. QED
    BY <1>4, <2>1, <2>2, <2>3
<1>6. BeyondOn(chain) \in Nat
  BY NodeInvInit, BooksGrow DEF NodeInv, TypeOK
<1>7. QED
  BY <1>2, <1>5, <1>6, BooksOfChain DEF Init, SupplyInv, SupplyIssued, Supply

LEMMA SupplyInvUnchanged ==
    ASSUME SupplyInv, UNCHANGED <<utxos, chain>>
    PROVE  SupplyInv'
BY DEF SupplyInv, SupplyIssued, Supply, Issued, Overflowed

(* The submission of a block preserves it, whatever the block.              *)
LEMMA SubmitKeepsSupply ==
    ASSUME NodeInv, SupplyInv, NEW b \in Block, SubmitBlock(b)
    PROVE  SupplyInv'
PROOF
<1>1. CASE RejectHeader(b) \/ RejectSpend(b)
  BY <1>1, SupplyInvUnchanged DEF RejectHeader, RejectSpend, vars
<1>2. CASE AcceptBlock(b)
  <2> DEFINE spent == UNION {SpendsOf(b.txs[k]) : k \in DOMAIN b.txs}
             made == UNION {OutPointsOf(b.txs[k]) : k \in DOMAIN b.txs}
             u == utxos \ SpentBefore(b, Len(b.txs) + 1)
             left == utxos \ spent
             total == IssuedIn(b) + BeyondIn(b)
  <2>1. /\ RefusedTxs(b) = {}
        /\ utxos' = ApplyTxs(b.txs, u)
        /\ chain' = Append(chain, b)
    BY <1>2 DEF AcceptBlock
  <2>2. utxos' \subseteq left \cup made
    <3>1. ASSUME NEW op \in utxos'
          PROVE  op \in left \cup made
      BY <2>1, <3>1, AppliedCoins DEF NodeInv
    <3>2. QED
      BY <3>1
  <2>3. /\ utxos \subseteq Coin /\ IsFiniteSet(utxos)
        /\ WorthOf(utxos) <= IssuedOn(chain) + BeyondOn(chain)
    BY BooksOfChain DEF SupplyInv, SupplyIssued, Supply
  <2>4. /\ spent \subseteq utxos
        /\ made \subseteq Coin /\ IsFiniteSet(made)
        /\ WorthOf(made) <= IssuedIn(b) + BeyondIn(b) + WorthOf(spent)
    BY <2>1, <2>3, BlockPays
  <2>5. /\ IssuedOn(chain) \in Nat /\ BeyondOn(chain) \in Nat
        /\ IssuedOn(chain') = IssuedOn(chain) + IssuedIn(b)
        /\ BeyondOn(chain') = BeyondOn(chain) + BeyondIn(b)
        /\ IssuedIn(b) \in Nat /\ BeyondIn(b) \in Nat
    BY <2>1, BooksGrow, IssuedInTyped DEF NodeInv, TypeOK
  <2> HIDE DEF spent, made, u
  <2>6. /\ IsFiniteSet(left) /\ IsFiniteSet(spent)
        /\ WorthOf(left) = WorthOf(utxos) - WorthOf(spent)
    BY <2>3, <2>4, WorthOfDifference
  <2>7. left \subseteq Coin
    BY <2>3
  <2> HIDE DEF left
  <2>8. /\ IsFiniteSet(left \cup made)
        /\ WorthOf(left \cup made) <= WorthOf(left) + WorthOf(made)
    BY <2>4, <2>6, <2>7, WorthOfUnion
  <2>9. left \cup made \subseteq Coin
    BY <2>4, <2>7
  <2>10. /\ IsFiniteSet(utxos')
         /\ WorthOf(utxos') <= WorthOf(left \cup made)
    BY <2>2, <2>8, <2>9, WorthOfDifference
  <2>11. /\ WorthOf(utxos) \in Nat /\ WorthOf(left) \in Nat
         /\ WorthOf(made) \in Nat /\ WorthOf(left \cup made) \in Nat
    BY <2>3, <2>4, <2>6, <2>7, <2>8, <2>9, WorthIsSum
  <2>12. WorthOf(utxos') \in Nat /\ WorthOf(spent) \in Nat
    <3>1. utxos' \subseteq Coin /\ spent \subseteq Coin
      BY <2>2, <2>3, <2>4, <2>9
    <3>2. QED
      BY <2>6, <2>10, <3>1, WorthIsSum
  <2>13. WorthOf(utxos') <= IssuedOn(chain') + BeyondOn(chain')
    BY <2>3, <2>4, <2>5, <2>6, <2>8, <2>10, <2>11, <2>12
  <2>14. Supply' <= Issued' + Overflowed'
    <3>1. Issued' = IssuedOn(chain') /\ Overflowed' = BeyondOn(chain')
      BY DEF Issued, Overflowed, IssuedOn, BeyondOn, IssuedIn, BeyondIn
    <3>2. QED
      BY <2>13, <3>1 DEF Supply
  <2>15. QED
    BY <2>2, <2>9, <2>10, <2>14 DEF SupplyInv, SupplyIssued
<1>3. QED
  BY <1>1, <1>2 DEF SubmitBlock

(* No money out of thin air, whatever blocks are submitted: the coins are   *)
(* worth at most what the coinbases of the chain issue and what totals wrap *)
(* around.                                                                  *)
THEOREM SupplyIsIssued == Spec => []SupplyIssued
PROOF
<1>1. NodeInv /\ SupplyInv /\ [Next]_vars => SupplyInv'
  <2>1. ASSUME NodeInv, SupplyInv, UNCHANGED vars
        PROVE  SupplyInv'
    BY <2>1, SupplyInvUnchanged DEF vars
  <2>2. QED
    BY <2>1, CallsSubmitBlocks, SubmitKeepsSupply
<1>2. SupplyInv => SupplyIssued
  BY DEF SupplyInv
<1>3. QED
  BY <1>1, <1>2, SupplyInvInit, NodeInvariant, PTL DEF Spec
=============================================================================
