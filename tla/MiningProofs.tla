---------------------------- MODULE MiningProofs ----------------------------
(***************************************************************************)
(* A chain built by miners follows the emission schedule, and is one of    *)
(* the ledger's between two restarts of the node, for any number of        *)
(* miners, any rewards and addresses, and any number of failing calls and  *)
(* of restarts.                                                            *)
(***************************************************************************)
EXTENDS Mining, SumsProofs

(* What is known of the chain: a hash tells its height, since it holds the  *)
(* hashes of all the ancestors, and times grow, so heights are bounded.     *)
ChainIndexed ==
    /\ chain \in Seq(Block) \ {<<>>}
    /\ \A i \in 1 .. Len(chain) :
          Len(chain[i].prev) = i - 1 /\ chain[i].time >= i - 1

(* A parent hash, of this chain or of a lost one, tells the height of the   *)
(* block to mine, and the height its reward.                                *)
IsParent(prev) == prev \in Hash /\ Len(prev) \in 1 .. MaxTime + 1

PaysItsHeight(b) ==
    /\ IsParent(b.prev)
    /\ \E m \in Miner : b.txs = <<CoinbaseOf[m][Reward[Len(b.prev)]]>>

(* The state of the miners: templates and blocks are of some height, not    *)
(* necessarily the last one, and not necessarily of this chain.             *)
MinersInv ==
    /\ clock \in 0 .. MaxTime
    /\ at \in [Miner -> {"idle", "asked", "mining", "submitted", "stopped"}]
    /\ block \in [Miner -> Block \cup {None}]
    /\ \A m \in Miner : at[m] \in {"mining", "submitted"} => block[m] # None
    /\ \A m \in Miner : block[m] # None => PaysItsHeight(block[m])
    /\ DOMAIN template = Miner
    /\ \A m \in Miner :
          template[m] # None =>
              /\ IsParent(template[m].prev)
              /\ template[m].reward = Reward[Len(template[m].prev)]
    /\ late \subseteq Block
    /\ \A b \in late : PaysItsHeight(b)

ScheduleInv == ChainIndexed /\ EmissionSchedule /\ MinersInv

-----------------------------------------------------------------------------

(* The hash of a block of the chain is a parent, one longer than its own.   *)
LEMMA HashesAreParents ==
  ASSUME ChainIndexed, NEW i \in 1 .. Len(chain)
  PROVE  /\ chain[i] \in Block
         /\ IsParent(HashOf(chain[i]))
         /\ Len(HashOf(chain[i])) = i
<1>1. chain[i] \in Block /\ Len(chain[i].prev) = i - 1
  BY DEF ChainIndexed
<1>2. chain[i].prev \in Seq(HeaderData) /\ <<chain[i].time, chain[i].nonce>> \in HeaderData
  BY <1>1 DEF Block, Hash, HeaderData
<1>3. HashOf(chain[i]) \in Seq(HeaderData) /\ Len(HashOf(chain[i])) = Len(chain[i].prev) + 1
  BY <1>2 DEF HashOf
<1>4. i <= MaxTime + 1
  <2>1. chain[i].time \in 0 .. MaxTime /\ chain[i].time >= i - 1
    BY <1>1 DEF Block, ChainIndexed
  <2> QED  BY <2>1, BlocksAssumption DEF ChainIndexed
<1> QED  BY <1>1, <1>3, <1>4, BlocksAssumption DEF IsParent, Hash, ChainIndexed

(* The coinbase of a miner for a height that some parent tells. *)
LEMMA CoinbasesPay ==
  ASSUME NEW prev, IsParent(prev), NEW m \in Miner
  PROVE  /\ CoinbaseOf[m][Reward[Len(prev)]] \in Tx
         /\ IsCoinbase(CoinbaseOf[m][Reward[Len(prev)]])
BY MiningAssumption DEF IsParent, Rewards

(* An accepted block that pays its height extends the chain by one block,   *)
(* which pays the height it gets: a parent hash of another height is not    *)
(* that of the tip.                                                         *)
LEMMA AcceptKeepsSchedule ==
  ASSUME ChainIndexed, EmissionSchedule, NEW b \in Block, PaysItsHeight(b),
         N!AcceptBlock(b)
  PROVE  ChainIndexed' /\ EmissionSchedule'
<1> DEFINE n == Len(chain)
<1>1. n \in Nat \ {0} /\ chain \in Seq(Block)
  BY DEF ChainIndexed
<1>2. /\ chain' = Append(chain, b)
      /\ b.prev = HashOf(chain[n])
      /\ b.time > chain[n].time
  BY DEF N!AcceptBlock, N!HeaderAccepted, N!CheckParentHash, N!CheckTimestamp,
         N!Tip, N!HashOf, HashOf
<1>3. /\ chain' \in Seq(Block)
      /\ Len(chain') = n + 1
      /\ chain'[n + 1] = b
      /\ \A i \in 1 .. n : chain'[i] = chain[i]
  BY <1>1, <1>2
<1>4. chain[n] \in Block /\ Len(b.prev) = n
  BY <1>1, <1>2, HashesAreParents
<1>5. ChainIndexed'
  <2>1. b.time >= n
    <3>1. chain[n].time \in Int /\ b.time \in Int
      BY <1>4 DEF Block
    <3>2. chain[n].time >= n - 1
      BY <1>1 DEF ChainIndexed
    <3> QED  BY <1>1, <1>2, <3>1, <3>2
  <2>2. \A i \in 1 .. n + 1 : Len(chain'[i].prev) = i - 1 /\ chain'[i].time >= i - 1
    <3> TAKE i \in 1 .. n + 1
    <3>1. CASE i = n + 1
      BY <3>1, <2>1, <1>1, <1>3, <1>4
    <3>2. CASE i \in 1 .. n
      BY <3>2, <1>3 DEF ChainIndexed
    <3> QED  BY <3>1, <3>2, <1>1
  <2> QED  BY <2>2, <1>1, <1>3 DEF ChainIndexed
<1>6. EmissionSchedule'
  <2>1. \E m \in Miner : b.txs = <<CoinbaseOf[m][Reward[n]]>>
    BY <1>4 DEF PaysItsHeight
  <2>2. ASSUME NEW i \in 2 .. n + 1
        PROVE  \E m \in Miner : chain'[i].txs = <<CoinbaseOf[m][Reward[i - 1]]>>
    <3>1. CASE i = n + 1
      <4>1. i - 1 = n
        BY <3>1, <1>1
      <4> QED  BY <3>1, <4>1, <2>1, <1>3
    <3>2. CASE i \in 2 .. n
      BY <3>2, <1>1, <1>3 DEF EmissionSchedule
    <3> QED  BY <3>1, <3>2, <1>1
  <2> QED  BY <2>2, <1>3 DEF EmissionSchedule
<1> QED  BY <1>5, <1>6

(* Serving a submitted block keeps the schedule, whatever the answer. *)
LEMMA SubmitKeepsSchedule ==
  ASSUME ChainIndexed, EmissionSchedule, NEW b \in Block, PaysItsHeight(b),
         N!SubmitBlock(b)
  PROVE  ChainIndexed' /\ EmissionSchedule'
<1>1. CASE N!AcceptBlock(b)
  BY <1>1, AcceptKeepsSchedule
<1>2. CASE N!RejectHeader(b) \/ N!RejectSpend(b)
  <2>1. chain' = chain
    BY <1>2 DEF N!RejectHeader, N!RejectSpend, N!vars
  <2> QED  BY <2>1 DEF ChainIndexed, EmissionSchedule
<1> QED  BY <1>1, <1>2 DEF N!SubmitBlock

-----------------------------------------------------------------------------

(* A chain of the genesis block alone, at the start and after a restart. *)
LEMMA GenesisIndexed ==
  /\ GenesisBlock \in Block
  /\ chain = <<GenesisBlock>> => ChainIndexed /\ EmissionSchedule
<1>1. GenesisBlock \in Block
  BY BlocksAssumption DEF GenesisBlock, Block, Hash
<1>2. ASSUME chain = <<GenesisBlock>>
      PROVE  ChainIndexed /\ EmissionSchedule
  <2>1. /\ chain \in Seq(Block) \ {<<>>}
        /\ Len(chain) = 1
        /\ chain[1] = GenesisBlock
    BY <1>1, <1>2
  <2>2. GenesisBlock.prev = <<>> /\ GenesisBlock.time = 0
    BY DEF GenesisBlock
  <2> QED  BY <2>1, <2>2 DEF ChainIndexed, EmissionSchedule
<1> QED  BY <1>1, <1>2

(* A miner that gets a template, and the block it makes of one. *)
LEMMA TemplateSteps ==
  ASSUME ScheduleInv, NEW m \in Miner, ServeTemplate(m) \/ ReceiveTemplate(m)
  PROVE  ScheduleInv'
<1> USE DEF ScheduleInv
<1>1. UNCHANGED chain /\ ChainIndexed' /\ EmissionSchedule'
  BY DEF ServeTemplate, ReceiveTemplate, node, ChainIndexed, EmissionSchedule
<1>2. CASE ServeTemplate(m)
  <2>1. Len(chain) \in 1 .. Len(chain)
    BY DEF ChainIndexed
  <2>2. IsParent(HashOf(Tip(chain))) /\ Len(HashOf(Tip(chain))) = Len(chain)
    BY <2>1, HashesAreParents DEF Tip
  <2>3. /\ IsParent(template'[m].prev)
        /\ template'[m].reward = Reward[Len(template'[m].prev)]
    BY <1>2, <2>2 DEF ServeTemplate, MinersInv
  <2> QED  BY <1>1, <1>2, <2>3 DEF ServeTemplate, MinersInv
<1>3. CASE ReceiveTemplate(m)
  <2> DEFINE b == [prev |-> template[m].prev, time |-> clock, nonce |-> 0, fits |-> TRUE,
                   txs |-> <<CoinbaseOf[m][template[m].reward]>>]
  <2>1. /\ IsParent(template[m].prev)
        /\ template[m].reward = Reward[Len(template[m].prev)]
    BY <1>3 DEF ReceiveTemplate, MinersInv
  <2>2. b \in Block
    BY <2>1, CoinbasesPay, BlocksAssumption DEF Block, MinersInv, IsParent
  <2>3. PaysItsHeight(b)
    BY <2>1 DEF PaysItsHeight
  <2>4. block' = [block EXCEPT ![m] = b]
    BY <1>3 DEF ReceiveTemplate
  <2> HIDE DEF b
  <2>5. b # None
    BY <2>2, MiningAssumption
  <2>6. /\ block' \in [Miner -> Block \cup {None}]
        /\ block'[m] = b
        /\ \A w \in Miner \ {m} : block'[w] = block[w]
    BY <2>2, <2>4 DEF MinersInv
  <2>7. /\ at' \in [Miner -> {"idle", "asked", "mining", "submitted", "stopped"}]
        /\ \A w \in Miner \ {m} : at'[w] = at[w]
    BY <1>3 DEF ReceiveTemplate, MinersInv
  <2>8. /\ \A w \in Miner : at'[w] \in {"mining", "submitted"} => block'[w] # None
        /\ \A w \in Miner : block'[w] # None => PaysItsHeight(block'[w])
    BY <2>3, <2>5, <2>6, <2>7 DEF MinersInv
  <2>9. /\ DOMAIN template' = Miner
        /\ \A w \in Miner :
              template'[w] # None =>
                  /\ IsParent(template'[w].prev)
                  /\ template'[w].reward = Reward[Len(template'[w].prev)]
    BY <1>3 DEF ReceiveTemplate, MinersInv
  <2>10. UNCHANGED <<clock, late>>
    BY <1>3 DEF ReceiveTemplate
  <2> QED  BY <1>1, <2>6, <2>7, <2>8, <2>9, <2>10 DEF MinersInv
<1> QED  BY <1>2, <1>3

(* The nonce that ends the mining changes nothing of what the block's       *)
(* template was.                                                            *)
LEMMA NonceStep ==
  ASSUME ScheduleInv, NEW m \in Miner, FindNonce(m, Nonces)
  PROVE  ScheduleInv'
<1> USE DEF ScheduleInv
<1>1. UNCHANGED chain /\ ChainIndexed' /\ EmissionSchedule'
  BY DEF FindNonce, node, ChainIndexed, EmissionSchedule
<1>2. PICK n \in Nonces : block' = [block EXCEPT ![m].nonce = n]
  BY DEF FindNonce
<1>3. block[m] \in Block /\ PaysItsHeight(block[m])
  BY MiningAssumption DEF FindNonce, MinersInv
<1> DEFINE b == [block[m] EXCEPT !.nonce = n]
<1>4. block' = [block EXCEPT ![m] = b]
  BY <1>2
<1>5. b \in Block /\ b.prev = block[m].prev /\ b.txs = block[m].txs
  BY <1>3 DEF Block
<1> HIDE DEF b
<1>6. PaysItsHeight(b)
  BY <1>3, <1>5 DEF PaysItsHeight
<1>7. b # None
  BY <1>5, MiningAssumption
<1> QED  BY <1>1, <1>4, <1>5, <1>6, <1>7 DEF FindNonce, MinersInv

(* The steps of miners that leave the node alone and build nothing. *)
LEMMA IdleSteps ==
  ASSUME ScheduleInv, NEW m \in Miner,
         Stop(m) \/ Quit(m) \/ Ask(m) \/ ReceiveAnswer(m) \/ Fail(m)
  PROVE  ScheduleInv'
<1> USE DEF ScheduleInv
<1>1. UNCHANGED chain /\ ChainIndexed' /\ EmissionSchedule'
  BY DEF Stop, Quit, Ask, ReceiveAnswer, Fail, node, ChainIndexed, EmissionSchedule
<1>2. CASE Stop(m) \/ Quit(m) \/ Ask(m)
  BY <1>1, <1>2 DEF Stop, Quit, Ask, MinersInv
<1>3. CASE ReceiveAnswer(m)
  BY <1>1, <1>3 DEF ReceiveAnswer, MinersInv
<1>4. CASE Fail(m)
  <2>1. block[m] \in Block \/ at[m] # "submitted"
    BY DEF MinersInv
  <2>2. late' \subseteq Block /\ \A b \in late' : PaysItsHeight(b)
    BY <1>4, <2>1 DEF Fail, MinersInv
  <2> QED  BY <1>1, <1>4, <2>2 DEF Fail, MinersInv
<1> QED  BY <1>2, <1>3, <1>4

(* A restart forgets the chain, and leaves the miners templates and blocks  *)
(* that still tell their heights.                                           *)
LEMMA RestartStep ==
  ASSUME ScheduleInv, Restart
  PROVE  ScheduleInv'
<1> USE DEF ScheduleInv
<1>1. ChainIndexed' /\ EmissionSchedule'
  <2>1. chain' = <<GenesisBlock>>
    BY DEF Restart
  <2> QED  BY <2>1, GenesisIndexed DEF ChainIndexed, EmissionSchedule, GenesisBlock
<1>2. PICK cut \in SUBSET {m \in Miner : at[m] \in {"asked", "submitted"}} :
          /\ at' = [m \in Miner |-> IF m \in cut THEN "idle" ELSE at[m]]
          /\ block' = [m \in Miner |-> IF m \in cut THEN None ELSE block[m]]
          /\ template' = [m \in Miner |-> IF m \in cut THEN None ELSE template[m]]
  BY DEF Restart
<1>3. MinersInv'
  BY <1>2 DEF Restart, MinersInv
<1> QED  BY <1>1, <1>3

(* The invariant holds in every reachable state. *)
THEOREM ScheduleInvariant == Spec => []ScheduleInv
<1>1. Init => ScheduleInv
  <2> SUFFICES ASSUME Init  PROVE ScheduleInv
    OBVIOUS
  <2>1. chain = <<GenesisBlock>>
    BY DEF Init, N!Init, N!GenesisBlock, GenesisBlock
  <2>2. MinersInv
    BY BlocksAssumption DEF Init, MinersInv
  <2> QED  BY <2>1, <2>2, GenesisIndexed DEF ScheduleInv
<1>2. ScheduleInv /\ [Next]_vars => ScheduleInv'
  <2> SUFFICES ASSUME ScheduleInv, [Next]_vars  PROVE ScheduleInv'
    OBVIOUS
  <2> USE DEF ScheduleInv
  <2>1. CASE UNCHANGED vars
    BY <2>1 DEF vars, node, ChainIndexed, EmissionSchedule, MinersInv
  <2>2. CASE Tick
    BY <2>2, BlocksAssumption DEF Tick, node, ChainIndexed, EmissionSchedule, MinersInv
  <2>3. ASSUME NEW m \in Miner, ServeSubmit(m)
        PROVE  ScheduleInv'
    <3>1. block[m] \in Block /\ PaysItsHeight(block[m])
      BY <2>3, MiningAssumption DEF ServeSubmit, MinersInv
    <3>2. N!SubmitBlock(block[m])
      BY <2>3 DEF ServeSubmit, N!SubmitBlock
    <3>3. ChainIndexed' /\ EmissionSchedule'
      BY <3>1, <3>2, SubmitKeepsSchedule
    <3> QED  BY <2>3, <3>3 DEF ServeSubmit, MinersInv
  <2>4. ASSUME NEW b \in late, ServeLate(b)
        PROVE  ScheduleInv'
    <3>1. b \in Block /\ PaysItsHeight(b)
      BY DEF MinersInv
    <3>2. ChainIndexed' /\ EmissionSchedule'
      BY <2>4, <3>1, SubmitKeepsSchedule DEF ServeLate
    <3> QED  BY <2>4, <3>2 DEF ServeLate, MinersInv
  <2>5. ASSUME NEW m \in Miner,
               Stop(m) \/ MinerStep(m) \/ FindNonce(m, Nonces) \/ Serve(m) \/ Fail(m)
        PROVE  ScheduleInv'
    BY <2>3, <2>5, TemplateSteps, NonceStep, IdleSteps DEF MinerStep, Serve
  <2>6. CASE Restart
    BY <2>6, RestartStep
  <2> QED  BY <2>1, <2>2, <2>4, <2>5, <2>6 DEF Next
<1> QED  BY <1>1, <1>2, PTL DEF Spec

(* Whatever the races between templates and blocks, however late a block is *)
(* served, and even if the node is restarted under a miner that holds a     *)
(* template of the lost chain, every block of the chain pays the reward of  *)
(* its height.                                                              *)
THEOREM MinersKeepTheSchedule == Spec => []EmissionSchedule
<1>1. ScheduleInv => EmissionSchedule
  BY DEF ScheduleInv
<1> QED  BY <1>1, ScheduleInvariant, PTL

-----------------------------------------------------------------------------

(* A block of miners, served for its sender or for nobody, is refused or    *)
(* appended as the ledger does: it spends nothing that could be not live.   *)
LEMMA SubmitIsLedgerStep ==
  ASSUME ChainIndexed, NEW b \in Block, PaysItsHeight(b), N!SubmitBlock(b)
  PROVE  L!Next \/ UNCHANGED chain
<1>1. CASE N!AcceptBlock(b)
  <2>1. /\ chain' = Append(chain, b)
        /\ b.prev = HashOf(Tip(chain))
        /\ b.time > Tip(chain).time
    BY <1>1 DEF N!AcceptBlock, N!HeaderAccepted, N!CheckParentHash, N!CheckTimestamp,
                N!Tip, N!HashOf, HashOf, Tip
  <2>2. L!Tip(chain') = b
    BY <2>1 DEF L!Tip, ChainIndexed
  <2>3. PICK m \in Miner : b.txs = <<CoinbaseOf[m][Reward[Len(b.prev)]]>>
    BY DEF PaysItsHeight
  <2>4. IsCoinbase(CoinbaseOf[m][Reward[Len(b.prev)]])
    BY CoinbasesPay DEF PaysItsHeight
  <2>5. \A k \in DOMAIN b.txs : L!SpendsOf(b.txs[k]) = {}
    <3>1. L!IsCoinbase(CoinbaseOf[m][Reward[Len(b.prev)]])
      BY <2>4 DEF L!IsCoinbase, L!NullOutPoint, IsCoinbase, NullOutPoint
    <3>2. L!SpendsOf(CoinbaseOf[m][Reward[Len(b.prev)]]) = {}
      BY <3>1 DEF L!SpendsOf
    <3>3. SUFFICES ASSUME NEW k \in DOMAIN b.txs
                   PROVE  b.txs[k] = CoinbaseOf[m][Reward[Len(b.prev)]]
      BY <3>2
    <3> QED  BY <2>3
  <2>6. L!SpendsLive(chain, b)
    BY <2>5 DEF L!SpendsLive
  <2>7. b \in L!Block
    BY DEF L!Block, L!Hash, L!HeaderData, Block, Hash, HeaderData
  <2> QED  BY <2>1, <2>2, <2>6, <2>7 DEF L!Next, L!AddBlock, L!HashOf, L!Tip, HashOf, Tip
<1>2. CASE N!RejectHeader(b) \/ N!RejectSpend(b)
  BY <1>2 DEF N!RejectHeader, N!RejectSpend, N!vars
<1> QED  BY <1>1, <1>2 DEF N!SubmitBlock

(* Between two restarts the chain that miners build only grows, block by    *)
(* block, as the ledger's does; a restart takes it back to genesis.         *)
THEOREM MiningImplementsLedgerInLives == Spec => ImplementsLedgerInLives
<1>1. Init => L!Init
  BY DEF Init, N!Init, N!GenesisBlock, L!Init, L!GenesisBlock
<1>2. ScheduleInv /\ [Next]_vars => [L!Next \/ L!Forget]_chain
  <2> SUFFICES ASSUME ScheduleInv, [Next]_vars
               PROVE  L!Next \/ L!Forget \/ UNCHANGED chain
    OBVIOUS
  <2> USE DEF ScheduleInv
  <2>1. CASE UNCHANGED vars \/ Tick
    BY <2>1 DEF vars, node, Tick
  <2>2. ASSUME NEW m \in Miner, ServeSubmit(m)
        PROVE  L!Next \/ UNCHANGED chain
    <3>1. block[m] \in Block /\ PaysItsHeight(block[m])
      BY <2>2, MiningAssumption DEF ServeSubmit, MinersInv
    <3>2. N!SubmitBlock(block[m])
      BY <2>2 DEF ServeSubmit, N!SubmitBlock
    <3> QED  BY <3>1, <3>2, SubmitIsLedgerStep
  <2>3. ASSUME NEW b \in late, ServeLate(b)
        PROVE  L!Next \/ UNCHANGED chain
    <3>1. b \in Block /\ PaysItsHeight(b)
      BY DEF MinersInv
    <3> QED  BY <2>3, <3>1, SubmitIsLedgerStep DEF ServeLate
  <2>4. ASSUME NEW m \in Miner,
               Stop(m) \/ MinerStep(m) \/ FindNonce(m, Nonces) \/ ServeTemplate(m) \/ Fail(m)
        PROVE  UNCHANGED chain
    BY <2>4 DEF Stop, MinerStep, Ask, ReceiveTemplate, ReceiveAnswer, Quit, FindNonce,
                ServeTemplate, Fail, node
  <2>5. CASE Restart
    BY <2>5 DEF Restart, L!Forget, L!GenesisBlock, GenesisBlock
  <2> QED  BY <2>1, <2>2, <2>3, <2>4, <2>5 DEF Next, Serve
<1> QED  BY <1>1, <1>2, ScheduleInvariant, PTL DEF Spec, ImplementsLedgerInLives, L!LivesSpec

-----------------------------------------------------------------------------

(* All the outpoints that the blocks of c have created. *)
Created(c) ==
    UNION {UNION {OutPointsOf(c[i].txs[k]) : k \in DOMAIN c[i].txs} : i \in DOMAIN c}

OnlyCoinbases(c) == \A i \in DOMAIN c : \A k \in DOMAIN c[i].txs : IsCoinbase(c[i].txs[k])

(* With coinbases alone nothing is ever spent: all that is created is live. *)
LEMMA CoinbasesAreLive ==
  ASSUME NEW c, OnlyCoinbases(c)
  PROVE  Live(c) = Created(c)
<1>1. \A i \in DOMAIN c : \A k \in DOMAIN c[i].txs : SpendsOf(c[i].txs[k]) = {}
  BY DEF OnlyCoinbases, SpendsOf
<1>2. ASSUME NEW op \in Created(c)  PROVE IsLive(c, op)
  <2>1. PICK i \in DOMAIN c : \E k \in DOMAIN c[i].txs : Creates(c, i, k, op)
    BY <1>2 DEF Created, Creates
  <2>2. PICK k \in DOMAIN c[i].txs : Creates(c, i, k, op)
    BY <2>1
  <2>3. \A j \in DOMAIN c : \A m \in DOMAIN c[j].txs : ~Spends(c, j, m, op)
    BY <1>1 DEF Spends
  <2> QED  BY <2>2, <2>3 DEF IsLive
<1> QED  BY <1>2 DEF Live, Created

(* A chain that follows the schedule has coinbases alone. *)
LEMMA ScheduleHasCoinbases ==
  ASSUME ScheduleInv, chain[1].txs = <<GenesisTx>>
  PROVE  OnlyCoinbases(chain)
<1>1. ASSUME NEW i \in DOMAIN chain, NEW k \in DOMAIN chain[i].txs
      PROVE  IsCoinbase(chain[i].txs[k])
  <2>1. CASE i = 1
    BY <1>1, <2>1, BlocksAssumption
  <2>2. CASE i \in 2 .. Len(chain)
    <3>1. PICK m \in Miner : chain[i].txs = <<CoinbaseOf[m][Reward[i - 1]]>>
      BY <2>2 DEF ScheduleInv, EmissionSchedule
    <3>2. i - 1 \in 1 .. Len(chain)
      BY <2>2 DEF ScheduleInv, ChainIndexed
    <3>3. IsParent(HashOf(chain[i - 1])) /\ Len(HashOf(chain[i - 1])) = i - 1
      BY <3>2, HashesAreParents DEF ScheduleInv
    <3> QED  BY <3>1, <3>3, CoinbasesPay
  <2> QED  BY <2>1, <2>2 DEF ScheduleInv, ChainIndexed
<1> QED  BY <1>1 DEF OnlyCoinbases

(* What CoinsOfThisChain needs to be inductive: the first block is the      *)
(* genesis block, and the coins are those created.                          *)
CoinsInv ==
    /\ ScheduleInv
    /\ chain[1].txs = <<GenesisTx>>
    /\ utxos = Created(chain)
    /\ spentThisBlock = {}

LEMMA CoinsInvGivesCoins == CoinsInv => CoinsOfThisChain /\ OnlyCoinbases(chain)
BY ScheduleHasCoinbases, CoinbasesAreLive DEF CoinsInv, CoinsOfThisChain

(* Serving a block of miners adds the coin of its coinbase, or nothing.     *)
LEMMA SubmitKeepsCoins ==
  ASSUME CoinsInv, ScheduleInv', NEW b \in Block, PaysItsHeight(b), N!SubmitBlock(b)
  PROVE  CoinsInv'
<1>1. PICK m \in Miner : b.txs = <<CoinbaseOf[m][Reward[Len(b.prev)]]>>
  BY DEF PaysItsHeight
<1> DEFINE t == CoinbaseOf[m][Reward[Len(b.prev)]]
<1>2. t \in Tx /\ IsCoinbase(t)
  BY CoinbasesPay DEF PaysItsHeight
<1>3. b.txs = <<t>>
  BY <1>1
<1> HIDE DEF t
<1>4. N!IsCoinbase(t) /\ N!SpendsOf(t) = {} /\ N!InputSet(t) = {NullOutPoint}
  BY <1>2 DEF N!IsCoinbase, N!SpendsOf, N!InputSet, N!NullOutPoint, IsCoinbase, NullOutPoint
<1>5. N!RefusedTxs(b) = {}
  BY <1>3, <1>4 DEF N!RefusedTxs, N!Accepts
<1>6. CASE N!RejectHeader(b) \/ N!RejectSpend(b)
  BY <1>5, <1>6 DEF N!RejectHeader, N!RejectSpend, N!vars, CoinsInv
<1>7. CASE N!AcceptBlock(b)
  <2>1. /\ chain' = Append(chain, b)
        /\ utxos' = N!ApplyTxs(b.txs, utxos \ N!SpentBefore(b, 2))
        /\ spentThisBlock' = {}
    BY <1>3, <1>7 DEF N!AcceptBlock
  <2>2. N!SpentBefore(b, 2) = {}
    BY <1>3, <1>4 DEF N!SpentBefore, CoinsInv
  <2>3. chain \in Seq(Block) /\ Len(chain) \in Nat \ {0}
    BY DEF CoinsInv, ScheduleInv, ChainIndexed
  <2>4. NullOutPoint \notin utxos
    <3>1. ASSUME NEW op \in Created(chain)  PROVE op[1] \in Tx
      <4>1. PICK i \in DOMAIN chain :
                 op \in UNION {OutPointsOf(chain[i].txs[k]) : k \in DOMAIN chain[i].txs}
        BY <3>1 DEF Created
      <4>2. PICK k \in DOMAIN chain[i].txs : op \in OutPointsOf(chain[i].txs[k])
        BY <4>1
      <4>3. chain[i] \in Block
        BY <2>3
      <4>4. chain[i].txs[k] \in Tx
        BY <4>3 DEF Block
      <4> QED  BY <4>2, <4>4 DEF OutPointsOf
    <3> QED  BY <3>1, TransactionsAssumption DEF CoinsInv, NullOutPoint
  <2>5. utxos' = utxos \cup OutPointsOf(t)
    BY <1>3, <1>4, <2>1, <2>2, <2>4 DEF N!ApplyTxs, N!OutPointsOf, OutPointsOf
  <2>6. Created(chain') = Created(chain) \cup OutPointsOf(t)
    <3>1. /\ DOMAIN chain' = DOMAIN chain \cup {Len(chain) + 1}
          /\ chain'[Len(chain) + 1] = b
          /\ \A i \in DOMAIN chain : chain'[i] = chain[i]
      BY <2>1, <2>3
    <3>2. UNION {OutPointsOf(b.txs[k]) : k \in DOMAIN b.txs} = OutPointsOf(t)
      BY <1>3
    <3> QED  BY <3>1, <3>2 DEF Created
  <2>7. chain'[1] = chain[1]
    BY <2>1, <2>3
  <2> QED  BY <2>1, <2>5, <2>6, <2>7 DEF CoinsInv
<1> QED  BY <1>6, <1>7 DEF N!SubmitBlock

(* The inductive invariant holds. *)
THEOREM CoinsInvariant == Spec => []CoinsInv
<1>1. Init /\ ScheduleInv => CoinsInv
  BY DEF Init, N!Init, N!GenesisBlock, N!OutPointsOf, GenesisBlock, OutPointsOf, CoinsInv, Created
<1>2. CoinsInv /\ ScheduleInv' /\ [Next]_vars => CoinsInv'
  <2> SUFFICES ASSUME CoinsInv, ScheduleInv', [Next]_vars
               PROVE  CoinsInv'
    OBVIOUS
  <2>1. ASSUME UNCHANGED node  PROVE CoinsInv'
    BY <2>1 DEF node, CoinsInv
  <2>2. CASE UNCHANGED vars \/ Tick
    BY <2>1, <2>2 DEF vars, Tick
  <2>3. ASSUME NEW m \in Miner, ServeSubmit(m)
        PROVE  CoinsInv'
    <3>1. block[m] \in Block /\ PaysItsHeight(block[m])
      BY <2>3, MiningAssumption DEF ServeSubmit, CoinsInv, ScheduleInv, MinersInv
    <3>2. N!SubmitBlock(block[m])
      BY <2>3 DEF ServeSubmit, N!SubmitBlock
    <3> QED  BY <3>1, <3>2, SubmitKeepsCoins
  <2>4. ASSUME NEW b \in late, ServeLate(b)
        PROVE  CoinsInv'
    <3>1. b \in Block /\ PaysItsHeight(b)
      BY DEF CoinsInv, ScheduleInv, MinersInv
    <3> QED  BY <2>4, <3>1, SubmitKeepsCoins DEF ServeLate
  <2>5. ASSUME NEW m \in Miner,
               Stop(m) \/ MinerStep(m) \/ FindNonce(m, Nonces) \/ ServeTemplate(m) \/ Fail(m)
        PROVE  CoinsInv'
    BY <2>1, <2>5 DEF Stop, MinerStep, Ask, ReceiveTemplate, ReceiveAnswer, Quit, FindNonce,
                ServeTemplate, Fail
  <2>6. CASE Restart
    BY <2>6 DEF Restart, GenesisBlock, CoinsInv, Created
  <2> QED  BY <2>2, <2>3, <2>4, <2>5, <2>6 DEF Next, Serve
<1> QED  BY <1>1, <1>2, ScheduleInvariant, PTL DEF Spec

(* The coins of the node are those of the chain it has now, in every life. *)
THEOREM MiningKeepsCoinsOfThisChain == Spec => []CoinsOfThisChain
<1>1. CoinsInv => CoinsOfThisChain
  BY CoinsInvGivesCoins
<1> QED  BY <1>1, CoinsInvariant, PTL

-----------------------------------------------------------------------------

(* What a miner has counted, or will count when it gets the reply that is   *)
(* on its way.                                                              *)
Counted ==
    [m \in Miner |-> IF reply[m] = "accepted" THEN mined[m] + 1 ELSE mined[m]]

(* What CountedAreOnChain needs to be inductive: replies on their way are   *)
(* counted as well.  The bound on lost, that the blocks lost in a restart   *)
(* are those of one chain, gives the bound on mined.                        *)
CountInv ==
    /\ running \in [Miner -> BOOLEAN]
    /\ template \in [Miner -> [prev : Hash, reward : Rewards] \cup {None}]
    /\ reply \in [Miner -> {"none", "accepted", "error"}]
    /\ mined \in [Miner -> Nat]
    /\ faults \in 0 .. MaxFaults
    /\ lost \in 0 .. MaxTime * faults
    /\ SumFunctionOnSet(Counted, Miner) < Len(chain) + lost

(* A chain has no more blocks than the clock has times.                     *)
LEMMA ChainIsShort ==
  ASSUME ChainIndexed
  PROVE  Len(chain) \in 1 .. MaxTime + 1
<1>1. Len(chain) \in Nat \ {0}
  BY DEF ChainIndexed
<1>2. Len(chain) \in 1 .. Len(chain)
  BY <1>1
<1>3. /\ IsParent(HashOf(chain[Len(chain)]))
      /\ Len(HashOf(chain[Len(chain)])) = Len(chain)
  BY <1>2, HashesAreParents
<1> QED  BY <1>1, <1>3, BlocksAssumption DEF IsParent

(* The counts are naturals, and each is part of the sum.                    *)
LEMMA CountedTyped ==
  ASSUME mined \in [Miner -> Nat]
  PROVE  /\ \A m \in Miner : Counted[m] \in Nat /\ mined[m] <= Counted[m]
         /\ SumFunctionOnSet(Counted, Miner) \in Nat
         /\ SumFunctionOnSet(mined, Miner) <= SumFunctionOnSet(Counted, Miner)
         /\ SumFunctionOnSet(mined, Miner) \in Nat
         /\ \A m \in Miner : mined[m] <= SumFunctionOnSet(mined, Miner)
<1>1. \A m \in Miner : Counted[m] \in Nat /\ mined[m] \in Nat /\ mined[m] <= Counted[m]
  BY DEF Counted
<1>2. IsFiniteSet(Miner)
  BY MiningAssumption
<1>3. /\ SumFunctionOnSet(Counted, Miner) \in Nat
      /\ SumFunctionOnSet(mined, Miner) \in Nat
  BY <1>1, <1>2, SumNatural
<1>4. SumFunctionOnSet(mined, Miner) <= SumFunctionOnSet(Counted, Miner)
  BY <1>1, <1>2, SumMonotone
<1>5. ASSUME NEW m \in Miner
      PROVE  mined[m] <= SumFunctionOnSet(mined, Miner)
  <2>1. SumFunctionOnSet(mined, Miner) = mined[m] + SumFunctionOnSet(mined, Miner \ {m})
    BY <1>1, <1>2, SumRemoveElement
  <2>2. SumFunctionOnSet(mined, Miner \ {m}) \in Nat
    <3>1. IsFiniteSet(Miner \ {m})
      BY <1>2, FS_RemoveElement
    <3> QED  BY <1>1, <3>1, SumNatural
  <2> QED  BY <1>1, <2>1, <2>2
<1> QED  BY <1>1, <1>3, <1>4, <1>5

(* A step that counts nothing new keeps the sum, or makes it smaller.       *)
LEMMA CountDoesNotGrow ==
  ASSUME CountInv, mined' \in [Miner -> Nat], \A m \in Miner : Counted'[m] <= Counted[m]
  PROVE  SumFunctionOnSet(Counted', Miner) <= SumFunctionOnSet(Counted, Miner)
<1>1. \A m \in Miner : Counted'[m] \in Nat /\ Counted[m] \in Nat
  BY DEF Counted, CountInv
<1>2. IsFiniteSet(Miner)
  BY MiningAssumption
<1> QED  BY <1>1, <1>2, SumMonotone

(* Serving a block makes the chain longer by one if the answer is that it   *)
(* is accepted, and leaves it otherwise.                                    *)
LEMMA ServedLength ==
  ASSUME ChainIndexed, NEW b
  PROVE  /\ Len(chain) \in Nat
         /\ N!AcceptBlock(b) => Len(chain') = Len(chain) + 1
         /\ N!RejectHeader(b) \/ N!RejectSpend(b) => Len(chain') = Len(chain)
<1>1. chain \in Seq(Block)
  BY DEF ChainIndexed
<1>2. N!AcceptBlock(b) => chain' = Append(chain, b)
  BY DEF N!AcceptBlock
<1>3. N!RejectHeader(b) \/ N!RejectSpend(b) => chain' = chain
  BY DEF N!RejectHeader, N!RejectSpend, N!vars
<1> QED  BY <1>1, <1>2, <1>3

(* An answer on its way to its miner.                                       *)
LEMMA ServeSubmitCounts ==
  ASSUME CountInv, ScheduleInv, NEW m \in Miner, ServeSubmit(m)
  PROVE  CountInv'
<1>1. /\ UNCHANGED <<running, template, mined, faults, lost>>
      /\ reply[m] = "none"
      /\ mined \in [Miner -> Nat] /\ lost \in Nat
      /\ Len(chain) \in Nat
  BY ServedLength, BlocksAssumption, MiningAssumption
     DEF ServeSubmit, CountInv, ScheduleInv
<1>2. IsFiniteSet(Miner) /\ \A w \in Miner : Counted[w] \in Nat
  BY <1>1, CountedTyped, MiningAssumption
<1>3. SumFunctionOnSet(Counted, Miner) \in Nat
  BY <1>1, CountedTyped
<1>4. CASE N!AcceptBlock(block[m]) /\ reply' = [reply EXCEPT ![m] = "accepted"]
  <2>1. Len(chain') = Len(chain) + 1
    BY <1>4, ServedLength DEF ScheduleInv
  <2>2. \A w \in Miner : Counted'[w] = IF w = m THEN Counted[w] + 1 ELSE Counted[w]
    BY <1>1, <1>4 DEF Counted, CountInv
  <2>3. SumFunctionOnSet(Counted', Miner) = SumFunctionOnSet(Counted, Miner) + 1
    BY <1>2, <2>2, SumIncremented
  <2> QED  BY <1>1, <1>3, <1>4, <2>1, <2>3 DEF CountInv
<1>5. CASE /\ N!RejectHeader(block[m]) \/ N!RejectSpend(block[m])
           /\ reply' = [reply EXCEPT ![m] = "error"]
  <2>1. Len(chain') = Len(chain)
    BY <1>5, ServedLength DEF ScheduleInv
  <2>2. \A w \in Miner : Counted'[w] = Counted[w]
    BY <1>1, <1>5 DEF Counted, CountInv
  <2>3. SumFunctionOnSet(Counted', Miner) = SumFunctionOnSet(Counted, Miner)
    BY <1>2, <2>2, SumCongruence
  <2> QED  BY <1>1, <1>5, <2>1, <2>3 DEF CountInv
<1> QED  BY <1>4, <1>5 DEF ServeSubmit

(* A block served for nobody is counted by nobody.                          *)
LEMMA ServeLateCounts ==
  ASSUME CountInv, ScheduleInv, NEW b \in late, ServeLate(b)
  PROVE  CountInv'
<1>1. UNCHANGED <<running, template, reply, mined, faults, lost>>
  BY DEF ServeLate
<1>2. Counted' = Counted
  BY <1>1 DEF Counted
<1>3. /\ Len(chain) \in Nat
      /\ Len(chain') = Len(chain) + 1 \/ Len(chain') = Len(chain)
  BY ServedLength DEF ServeLate, N!SubmitBlock, ScheduleInv
<1>4. SumFunctionOnSet(Counted, Miner) \in Nat /\ lost \in Nat
  BY CountedTyped, BlocksAssumption, MiningAssumption DEF CountInv
<1> QED  BY <1>1, <1>2, <1>3, <1>4 DEF CountInv

(* The steps of miners: an answer that is received is counted, if at all,   *)
(* where it was on its way before; a call that fails loses its answer.      *)
LEMMA MinersCount ==
  ASSUME CountInv, ScheduleInv, NEW m \in Miner,
         Stop(m) \/ MinerStep(m) \/ FindNonce(m, Nonces) \/ ServeTemplate(m) \/ Fail(m)
  PROVE  CountInv'
<1>1. chain' = chain /\ lost' = lost
  BY DEF Stop, MinerStep, Ask, ReceiveTemplate, ReceiveAnswer, Quit, FindNonce,
         ServeTemplate, Fail, node
<1>2. faults' \in 0 .. MaxFaults /\ lost' \in 0 .. MaxTime * faults'
  <2>1. CASE faults' = faults
    BY <1>1, <2>1 DEF CountInv
  <2>2. CASE faults' = faults + 1 /\ faults < MaxFaults
    <3>1. /\ MaxTime \in Nat /\ faults \in Nat /\ MaxFaults \in Nat
          /\ lost \in 0 .. MaxTime * faults
      BY BlocksAssumption, MiningAssumption DEF CountInv
    <3>2. MaxTime * (faults + 1) = MaxTime * faults + MaxTime /\ MaxTime * faults \in Nat
      BY <3>1
    <3> QED  BY <1>1, <2>2, <3>1, <3>2
  <2> QED  BY <2>1, <2>2 DEF Stop, MinerStep, Ask, ReceiveTemplate, ReceiveAnswer, Quit,
                             FindNonce, ServeTemplate, Fail
<1>3. /\ running' \in [Miner -> BOOLEAN]
      /\ reply' \in [Miner -> {"none", "accepted", "error"}]
      /\ mined' \in [Miner -> Nat]
      /\ \A w \in Miner : Counted'[w] <= Counted[w]
  <2>1. CASE Stop(m)
    BY <2>1 DEF Stop, CountInv, Counted
  <2>2. CASE ReceiveAnswer(m)
    BY <2>2 DEF ReceiveAnswer, CountInv, Counted
  <2>3. CASE Fail(m)
    BY <2>3 DEF Fail, CountInv, Counted
  <2>4. CASE Ask(m) \/ ReceiveTemplate(m) \/ Quit(m) \/ FindNonce(m, Nonces) \/ ServeTemplate(m)
    BY <2>4 DEF Ask, ReceiveTemplate, Quit, FindNonce, ServeTemplate, CountInv, Counted
  <2> QED  BY <2>1, <2>2, <2>3, <2>4 DEF MinerStep
<1>4. template' \in [Miner -> [prev : Hash, reward : Rewards] \cup {None}]
  <2>1. CASE ServeTemplate(m)
    <3> DEFINE T == [prev |-> HashOf(Tip(chain)), reward |-> Reward[Len(chain)]]
    <3>1. Len(chain) \in 1 .. Len(chain) /\ Len(chain) \in 1 .. MaxTime + 1
      BY ChainIsShort DEF ScheduleInv, ChainIndexed
    <3>2. HashOf(Tip(chain)) \in Hash
      BY <3>1, HashesAreParents DEF Tip, IsParent, ScheduleInv
    <3>3. Reward[Len(chain)] \in Rewards
      BY <3>1, MiningAssumption DEF Rewards
    <3>4. T \in [prev : Hash, reward : Rewards]
      BY <3>2, <3>3
    <3>5. template' = [template EXCEPT ![m] = T]
      BY <2>1 DEF ServeTemplate
    <3> HIDE DEF T
    <3> QED  BY <3>4, <3>5 DEF CountInv
  <2>2. CASE template' = template \/ template' = [template EXCEPT ![m] = None]
    BY <2>2 DEF CountInv
  <2> QED  BY <2>1, <2>2 DEF Stop, MinerStep, Ask, ReceiveTemplate, ReceiveAnswer, Quit,
                             FindNonce, Fail
<1>5. SumFunctionOnSet(Counted', Miner) < Len(chain') + lost'
  <2>1. SumFunctionOnSet(Counted', Miner) <= SumFunctionOnSet(Counted, Miner)
    BY <1>3, CountDoesNotGrow
  <2>2. SumFunctionOnSet(Counted, Miner) \in Nat /\ lost \in Nat /\ Len(chain) \in Nat
    BY CountedTyped, ChainIsShort, BlocksAssumption, MiningAssumption DEF CountInv, ScheduleInv
  <2>3. SumFunctionOnSet(Counted', Miner) \in Nat
    <3>1. \A w \in Miner : Counted'[w] \in Nat
      BY <1>3 DEF Counted
    <3> QED  BY <3>1, SumNatural, MiningAssumption
  <2> QED  BY <1>1, <2>1, <2>2, <2>3 DEF CountInv
<1> QED  BY <1>2, <1>3, <1>4, <1>5 DEF CountInv

(* A restart moves the blocks of the chain to those that are lost.          *)
LEMMA RestartCounts ==
  ASSUME CountInv, ScheduleInv, Restart
  PROVE  CountInv'
<1>1. PICK cut \in SUBSET {m \in Miner : at[m] \in {"asked", "submitted"}} :
          /\ template' = [m \in Miner |-> IF m \in cut THEN None ELSE template[m]]
          /\ reply' = [m \in Miner |-> IF m \in cut THEN "none" ELSE reply[m]]
  BY DEF Restart
<1>2. /\ UNCHANGED <<running, mined>>
      /\ faults < MaxFaults /\ faults' = faults + 1
      /\ lost' = lost + Len(chain) - 1
      /\ Len(chain') = 1
  BY DEF Restart
<1>3. /\ running' \in [Miner -> BOOLEAN]
      /\ template' \in [Miner -> [prev : Hash, reward : Rewards] \cup {None}]
      /\ reply' \in [Miner -> {"none", "accepted", "error"}]
      /\ mined' \in [Miner -> Nat]
      /\ \A m \in Miner : Counted'[m] <= Counted[m]
  BY <1>1, <1>2 DEF CountInv, Counted
<1>4. /\ MaxTime \in Nat /\ faults \in Nat /\ MaxFaults \in Nat
      /\ MaxTime * faults \in Nat
      /\ lost \in 0 .. MaxTime * faults
      /\ Len(chain) \in 1 .. MaxTime + 1
  BY ChainIsShort, BlocksAssumption, MiningAssumption DEF CountInv, ScheduleInv
<1>5. MaxTime * (faults + 1) = MaxTime * faults + MaxTime
  BY <1>4
<1>6. faults' \in 0 .. MaxFaults /\ lost' \in 0 .. MaxTime * faults'
  BY <1>2, <1>4, <1>5
<1>7. SumFunctionOnSet(Counted', Miner) < Len(chain') + lost'
  <2>1. SumFunctionOnSet(Counted', Miner) <= SumFunctionOnSet(Counted, Miner)
    BY <1>3, CountDoesNotGrow
  <2>2. SumFunctionOnSet(Counted, Miner) \in Nat
    BY CountedTyped DEF CountInv
  <2>3. SumFunctionOnSet(Counted', Miner) \in Nat
    <3>1. \A w \in Miner : Counted'[w] \in Nat
      BY <1>3 DEF Counted
    <3> QED  BY <3>1, SumNatural, MiningAssumption
  <2> QED  BY <1>2, <1>4, <2>1, <2>2, <2>3 DEF CountInv
<1> QED  BY <1>3, <1>6, <1>7 DEF CountInv

(* The inductive invariant holds.                                           *)
THEOREM CountInvariant == Spec => []CountInv
<1>1. Init => CountInv
  <2> SUFFICES ASSUME Init  PROVE CountInv
    OBVIOUS
  <2>1. chain = <<GenesisBlock>>
    BY DEF Init, N!Init, N!GenesisBlock, GenesisBlock
  <2>2. \A m \in Miner : Counted[m] = 0
    BY DEF Init, Counted
  <2>3. SumFunctionOnSet(Counted, Miner) = 0
    BY <2>2, SumOfZeros, MiningAssumption
  <2>4. Len(chain) = 1
    BY <2>1
  <2>5. 0 \in 0 .. MaxTime * 0 /\ 0 \in 0 .. MaxFaults
    BY BlocksAssumption, MiningAssumption
  <2> QED  BY <2>3, <2>4, <2>5 DEF Init, CountInv
<1>2. CountInv /\ ScheduleInv /\ [Next]_vars => CountInv'
  <2> SUFFICES ASSUME CountInv, ScheduleInv, [Next]_vars
               PROVE  CountInv'
    OBVIOUS
  <2>1. CASE UNCHANGED vars \/ Tick
    BY <2>1 DEF vars, node, Tick, CountInv, Counted
  <2>2. ASSUME NEW m \in Miner,
               Stop(m) \/ MinerStep(m) \/ FindNonce(m, Nonces) \/ Serve(m) \/ Fail(m)
        PROVE  CountInv'
    BY <2>2, ServeSubmitCounts, MinersCount DEF Serve
  <2>3. CASE Restart
    BY <2>3, RestartCounts
  <2> QED  BY <2>1, <2>2, <2>3, ServeLateCounts DEF Next
<1> QED  BY <1>1, <1>2, ScheduleInvariant, PTL DEF Spec

(* What the miners report has been on the chain of the node, in this life   *)
(* or in one before.                                                        *)
THEOREM CountedWereOnChain == Spec => []CountedAreOnChain
<1>1. CountInv /\ ScheduleInv => CountedAreOnChain
  <2> SUFFICES ASSUME CountInv, ScheduleInv  PROVE CountedAreOnChain
    OBVIOUS
  <2>1. /\ SumFunctionOnSet(mined, Miner) \in Nat
        /\ SumFunctionOnSet(Counted, Miner) \in Nat
        /\ SumFunctionOnSet(mined, Miner) <= SumFunctionOnSet(Counted, Miner)
    BY CountedTyped DEF CountInv
  <2>2. SumFunction(mined) = SumFunctionOnSet(mined, Miner)
    BY DEF SumFunction, CountInv
  <2>3. lost \in Nat /\ Len(chain) \in Nat
    BY ChainIsShort, BlocksAssumption, MiningAssumption DEF CountInv, ScheduleInv
  <2> QED  BY <2>1, <2>2, <2>3 DEF CountInv, CountedAreOnChain
<1> QED  BY <1>1, CountInvariant, ScheduleInvariant, PTL

(* The types: that no miner counts more than MaxTime blocks in each life of *)
(* the node follows from the sum.                                           *)
THEOREM MiningTyped == Spec => []TypeOK
<1>1. ASSUME CoinsInv  PROVE N!TypeOK
  <2>1. chain \in Seq(Block) \ {<<>>}
    BY <1>1 DEF CoinsInv, ScheduleInv, ChainIndexed
  <2>2. chain \in Seq(N!Block) \ {<<>>}
    BY <2>1 DEF N!Block, N!Hash, N!HeaderData, Block, Hash, HeaderData
  <2>3. ASSUME NEW op \in Created(chain)
        PROVE  op \in Tx \X (Nat \ {0})
    <3>1. PICK i \in DOMAIN chain :
               op \in UNION {OutPointsOf(chain[i].txs[k]) : k \in DOMAIN chain[i].txs}
      BY <2>3 DEF Created
    <3>2. PICK k \in DOMAIN chain[i].txs : op \in OutPointsOf(chain[i].txs[k])
      BY <3>1
    <3>3. chain[i] \in Block
      BY <2>1
    <3>4. chain[i].txs[k] \in Tx
      BY <3>3 DEF Block
    <3>5. op \in Coin
      BY <3>2, <3>4 DEF Coin
    <3> QED  BY <3>5, CoinTyped
  <2> QED  BY <1>1, <2>2, <2>3 DEF CoinsInv, N!TypeOK
<1>2. ASSUME CountInv, ScheduleInv
      PROVE  mined \in [Miner -> 0 .. MaxTime * (faults + 1)]
  <2>1. /\ MaxTime \in Nat /\ faults \in Nat /\ MaxTime * faults \in Nat
        /\ lost \in 0 .. MaxTime * faults
        /\ Len(chain) \in 1 .. MaxTime + 1
    BY <1>2, ChainIsShort, BlocksAssumption, MiningAssumption DEF CountInv, ScheduleInv
  <2>2. MaxTime * (faults + 1) = MaxTime * faults + MaxTime
    BY <2>1
  <2>3. /\ SumFunctionOnSet(mined, Miner) \in Nat
        /\ SumFunctionOnSet(Counted, Miner) \in Nat
        /\ SumFunctionOnSet(mined, Miner) <= SumFunctionOnSet(Counted, Miner)
        /\ \A m \in Miner : mined[m] <= SumFunctionOnSet(mined, Miner)
    BY <1>2, CountedTyped DEF CountInv
  <2>4. SumFunctionOnSet(mined, Miner) <= MaxTime * (faults + 1)
    BY <1>2, <2>1, <2>2, <2>3 DEF CountInv
  <2>5. MaxTime * (faults + 1) \in Nat
    BY <2>1, <2>2
  <2>6. mined \in [Miner -> Nat]
    BY <1>2 DEF CountInv
  <2>7. \A m \in Miner : mined[m] \in 0 .. MaxTime * (faults + 1)
    <3> DEFINE top == MaxTime * (faults + 1)
               sum == SumFunctionOnSet(mined, Miner)
    <3>1. top \in Nat /\ sum \in Nat /\ sum <= top /\ \A m \in Miner : mined[m] <= sum
      BY <2>3, <2>4, <2>5
    <3> HIDE DEF top, sum
    <3>2. \A m \in Miner : mined[m] \in 0 .. top
      BY <2>6, <3>1
    <3> QED  BY <3>2 DEF top
  <2> QED  BY <2>6, <2>7
<1>3. CountInv /\ ScheduleInv /\ CoinsInv => TypeOK
  BY <1>1, <1>2 DEF TypeOK, CountInv, ScheduleInv, MinersInv
<1> QED  BY <1>3, CountInvariant, ScheduleInvariant, CoinsInvariant, PTL
=============================================================================
