------------------------------- MODULE Mining -------------------------------
(***************************************************************************)
(* Miners at work on a node: main of src/miner/Miner.cpp, its two calls    *)
(* through RpcClient::call (src/rpc/RpcClient.cpp) and their dispatch by   *)
(* RpcServer::handle_request (src/rpc/RpcServer.cpp) to the handlers of    *)
(* src/main.cpp.  The node itself is module Node.                          *)
(*                                                                         *)
(* A call fails on the miner's side when the connection fails or the 30    *)
(* seconds of CURLOPT_TIMEOUT pass; the request may never have reached the *)
(* node, may have been served, or may be served later, since the node      *)
(* serves one request at a time and a broadcast can hold it up.  A request *)
(* for a template that is served for nobody changes nothing.               *)
(*                                                                         *)
(* The node keeps its chain and its coins in memory: when its process ends *)
(* and is started again, it starts from the genesis block, while miners go *)
(* on with the templates and the blocks of the lost chain.                 *)
(***************************************************************************)
EXTENDS Blocks, FiniteSets

CONSTANTS
    Miner,        \* the miner processes
    Reward,       \* Reward[h]: EmissionModel::ComputeBlockReward(h)
    CoinbaseOf,   \* CoinbaseOf[m][r]: the coinbase of m for a reward of r
    MaxFaults,    \* bound on the calls that fail and the restarts of the node
    None          \* no template, no block

Rewards == {Reward[h] : h \in DOMAIN Reward}

(* The coinbase a miner builds depends on the reward and on its payout      *)
(* address: with both the same, it is the same transaction.  A chain has    *)
(* at most MaxTime + 1 blocks.                                              *)
ASSUME MiningAssumption ==
    /\ Reward \in [1 .. MaxTime + 1 -> 0 .. Wrap - 1]
    /\ CoinbaseOf \in [Miner -> [Rewards -> Tx]]
    /\ \A m \in Miner, r \in Rewards :
          IsCoinbase(CoinbaseOf[m][r]) /\ Outputs[CoinbaseOf[m][r]] = <<r>>
    /\ IsFiniteSet(Miner)
    /\ MaxFaults \in Nat
    /\ None \notin Block

VARIABLES
    utxos, spentThisBlock, chain,   \* the node
    clock,     \* time(nullptr), the same on all machines
    running,   \* g_running of each miner
    at,        \* where each miner is
    block,     \* the block each miner works on, or None
    template,  \* the template on its way to each miner, or None
    reply,     \* the reply to submitblock on its way: "none", "accepted", "error"
    late,      \* the submitted blocks that the node has still to serve, for nobody
    mined,     \* totalBlocksMined of each miner
    faults,    \* number of calls that have failed, and of restarts of the node
    lost       \* number of mined blocks on the chains lost in restarts (history)

node == <<utxos, spentThisBlock, chain>>
vars == <<node, clock, running, at, block, template, reply, late, mined, faults, lost>>

N == INSTANCE Node

(* The chain alone, as the ledger sees it. *)
L == INSTANCE Ledger WITH chain <- chain

-----------------------------------------------------------------------------

Init ==
    /\ N!Init
    /\ clock = 0
    /\ running = [m \in Miner |-> TRUE]
    /\ at = [m \in Miner |-> "idle"]
    /\ block = [m \in Miner |-> None]
    /\ template = [m \in Miner |-> None]
    /\ reply = [m \in Miner |-> "none"]
    /\ late = {}
    /\ mined = [m \in Miner |-> 0]
    /\ faults = 0
    /\ lost = 0

Tick ==
    /\ clock < MaxTime
    /\ clock' = clock + 1
    /\ UNCHANGED <<node, running, at, block, template, reply, late, mined, faults, lost>>

(* SIGINT or SIGTERM. *)
Stop(m) ==
    /\ running[m]
    /\ running' = [running EXCEPT ![m] = FALSE]
    /\ UNCHANGED <<node, clock, at, block, template, reply, late, mined, faults, lost>>

(* The loop of main: g_running is looked at here and after the mining. *)
Quit(m) ==
    /\ at[m] = "idle"
    /\ ~running[m]
    /\ at' = [at EXCEPT ![m] = "stopped"]
    /\ UNCHANGED <<node, clock, running, block, template, reply, late, mined, faults, lost>>

-----------------------------------------------------------------------------
(* getblocktemplate. *)

Ask(m) ==
    /\ at[m] = "idle"
    /\ running[m]
    /\ at' = [at EXCEPT ![m] = "asked"]
    /\ UNCHANGED <<node, clock, running, block, template, reply, late, mined, faults, lost>>

(* The handler: the hash of the tip, and the reward of the next height. *)
ServeTemplate(m) ==
    /\ at[m] = "asked"
    /\ template[m] = None
    /\ template' = [template EXCEPT ![m] = [prev |-> HashOf(Tip(chain)),
                                            reward |-> Reward[Len(chain)]]]
    /\ UNCHANGED <<node, clock, running, at, block, reply, late, mined, faults, lost>>

(* The miner builds its coinbase and its header, with the time it is. *)
ReceiveTemplate(m) ==
    /\ at[m] = "asked"
    /\ template[m] # None
    /\ block' = [block EXCEPT ![m] =
                    [prev |-> template[m].prev, time |-> clock, nonce |-> 0, fits |-> TRUE,
                     txs |-> <<CoinbaseOf[m][template[m].reward]>>]]
    /\ template' = [template EXCEPT ![m] = None]
    /\ at' = [at EXCEPT ![m] = "mining"]
    /\ UNCHANGED <<node, clock, running, reply, late, mined, faults, lost>>

-----------------------------------------------------------------------------
(* AuraHashMine and submitblock. *)

(* AuraHashMine returns one of the nonces; the node's check is another one. *)
(* The miner submits the block, unless it has been told to stop.            *)
FindNonce(m, nonces) ==
    /\ at[m] = "mining"
    /\ \E n \in nonces : block' = [block EXCEPT ![m].nonce = n]
    /\ at' = [at EXCEPT ![m] = IF running[m] THEN "submitted" ELSE "stopped"]
    /\ UNCHANGED <<node, clock, running, template, reply, late, mined, faults, lost>>

(* The handler accepts the block, or throws. *)
ServeSubmit(m) ==
    /\ at[m] = "submitted"
    /\ reply[m] = "none"
    /\ \/ /\ N!AcceptBlock(block[m])
          /\ reply' = [reply EXCEPT ![m] = "accepted"]
       \/ /\ N!RejectHeader(block[m]) \/ N!RejectSpend(block[m])
          /\ reply' = [reply EXCEPT ![m] = "error"]
    /\ UNCHANGED <<clock, running, at, block, template, late, mined, faults, lost>>

(* The handler, for a block whose sender has given up. *)
ServeLate(b) ==
    /\ b \in late
    /\ N!SubmitBlock(b)
    /\ late' = late \ {b}
    /\ UNCHANGED <<clock, running, at, block, template, reply, mined, faults, lost>>

(* [faulty: a block counts as soon as there is a reply.] *)
ReceiveAnswerAny(m) ==
    /\ at[m] = "submitted"
    /\ reply[m] # "none"
    /\ mined' = [mined EXCEPT ![m] = @ + 1]
    /\ reply' = [reply EXCEPT ![m] = "none"]
    /\ block' = [block EXCEPT ![m] = None]
    /\ at' = [at EXCEPT ![m] = "idle"]
    /\ UNCHANGED <<node, clock, running, template, late, faults, lost>>

(* A block counts if the reply is not an error. *)
ReceiveAnswer(m) ==
    /\ at[m] = "submitted"
    /\ reply[m] # "none"
    /\ mined' = [mined EXCEPT ![m] = IF reply[m] = "accepted" THEN @ + 1 ELSE @]
    /\ reply' = [reply EXCEPT ![m] = "none"]
    /\ block' = [block EXCEPT ![m] = None]
    /\ at' = [at EXCEPT ![m] = "idle"]
    /\ UNCHANGED <<node, clock, running, template, late, faults, lost>>

(* [faulty: the miner ends when a call fails.] *)
FailBreak(m) ==
    /\ faults < MaxFaults
    /\ faults' = faults + 1
    /\ at[m] \in {"asked", "submitted"}
    /\ late' \in {late, late \cup IF at[m] = "submitted" /\ reply[m] = "none"
                                  THEN {block[m]} ELSE {}}
    /\ template' = [template EXCEPT ![m] = None]
    /\ reply' = [reply EXCEPT ![m] = "none"]
    /\ block' = [block EXCEPT ![m] = None]
    /\ at' = [at EXCEPT ![m] = "stopped"]
    /\ UNCHANGED <<node, clock, running, mined, lost>>

(* RpcClient::call returns false without a reply: the miner goes round.  A  *)
(* block that the node has not served yet may still reach it.               *)
Fail(m) ==
    /\ faults < MaxFaults
    /\ faults' = faults + 1
    /\ at[m] \in {"asked", "submitted"}
    /\ late' \in {late, late \cup IF at[m] = "submitted" /\ reply[m] = "none"
                                  THEN {block[m]} ELSE {}}
    /\ template' = [template EXCEPT ![m] = None]
    /\ reply' = [reply EXCEPT ![m] = "none"]
    /\ block' = [block EXCEPT ![m] = None]
    /\ at' = [at EXCEPT ![m] = "idle"]
    /\ UNCHANGED <<node, clock, running, mined, lost>>

-----------------------------------------------------------------------------

(* [faulty: the chain of the restarted node is empty, its coins are kept.] *)
RestartWithCoins ==
    /\ faults < MaxFaults
    /\ faults' = faults + 1
    /\ lost' = lost + Len(chain) - 1
    /\ chain' = <<GenesisBlock>>
    /\ late' = {}
    /\ UNCHANGED <<utxos, spentThisBlock, clock, running, at, block, template, reply, mined>>

(* The node ends, with the requests it had still to serve, and starts again *)
(* from the genesis block.  Any of the calls under way may be cut: those    *)
(* that have reached the old node, not those that are still to connect, nor *)
(* those whose reply is already on the miner's side.                        *)
Restart ==
    /\ faults < MaxFaults
    /\ faults' = faults + 1
    /\ lost' = lost + Len(chain) - 1
    /\ chain' = <<GenesisBlock>>
    /\ utxos' = OutPointsOf(GenesisTx)
    /\ spentThisBlock' = {}
    /\ late' = {}
    /\ \E cut \in SUBSET {m \in Miner : at[m] \in {"asked", "submitted"}} :
          /\ at' = [m \in Miner |-> IF m \in cut THEN "idle" ELSE at[m]]
          /\ block' = [m \in Miner |-> IF m \in cut THEN None ELSE block[m]]
          /\ template' = [m \in Miner |-> IF m \in cut THEN None ELSE template[m]]
          /\ reply' = [m \in Miner |-> IF m \in cut THEN "none" ELSE reply[m]]
    /\ UNCHANGED <<clock, running, mined>>

-----------------------------------------------------------------------------

MinerStep(m) == Ask(m) \/ ReceiveTemplate(m) \/ ReceiveAnswer(m) \/ Quit(m)

Serve(m) == ServeTemplate(m) \/ ServeSubmit(m)

Next ==
    \/ Tick
    \/ Restart
    \/ \E m \in Miner :
          Stop(m) \/ MinerStep(m) \/ FindNonce(m, Nonces) \/ Serve(m) \/ Fail(m)
    \/ \E b \in late : ServeLate(b)

Spec == Init /\ [][Next]_vars

(* Miners and node run, time passes, and mining ends; header hashes being   *)
(* as good as random, it ends again and again with a nonce that also passes *)
(* the node's check.                                                        *)
Fairness ==
    /\ WF_vars(Tick)
    /\ \A m \in Miner :
          /\ WF_vars(MinerStep(m))
          /\ WF_vars(Serve(m))
          /\ WF_vars(FindNonce(m, Nonces))
          /\ SF_vars(FindNonce(m, GoodNonces))

FairSpec == Spec /\ Fairness

-----------------------------------------------------------------------------
(* Properties. *)

(* The types of the variables. *)
TypeOK ==
    /\ N!TypeOK
    /\ clock \in 0 .. MaxTime
    /\ running \in [Miner -> BOOLEAN]
    /\ at \in [Miner -> {"idle", "asked", "mining", "submitted", "stopped"}]
    /\ block \in [Miner -> Block \cup {None}]
    /\ template \in [Miner -> [prev : Hash, reward : Rewards] \cup {None}]
    /\ reply \in [Miner -> {"none", "accepted", "error"}]
    /\ late \subseteq Block
    /\ mined \in [Miner -> 0 .. MaxTime * (faults + 1)]
    /\ faults \in 0 .. MaxFaults
    /\ lost \in 0 .. MaxTime * faults

(* The emission schedule holds on a chain that miners have built, although  *)
(* the node never looks at the value of a coinbase: whatever the races      *)
(* between templates and blocks, however late a block is served, and even   *)
(* if the node is restarted under a miner that holds a template of the lost *)
(* chain, block number h pays the reward of height h.                       *)
EmissionSchedule ==
    \A i \in 2 .. Len(chain) :
        \E m \in Miner : chain[i].txs = <<CoinbaseOf[m][Reward[i - 1]]>>

(* What the miners report is never more than what the node has had on its   *)
(* chain, in this life and the ones before, even when two miners find the   *)
(* very same block, or find again one of the lost chain.                    *)
CountedAreOnChain == SumFunction(mined) < Len(chain) + lost

(* With coinbases as the only transactions, the coins that the node has are *)
(* exactly those of the chain that it has now: nothing of a lost chain, and *)
(* nothing of a refused block, is left in them.                             *)
CoinsOfThisChain == utxos = Live(chain) /\ spentThisBlock = {}

(* Mining makes progress: unless all miners are stopped, the chain reaches  *)
(* the last moment of the clock, for good, although templates go stale,     *)
(* calls fail, the node refuses blocks that the miner holds good, and       *)
(* restarts from the genesis block.                                         *)
ChainKeepsUp == <>[](Tip(chain).time = MaxTime \/ \A m \in Miner : ~running[m])

(* Between two restarts the chain is one of the ledger's, and a restart is  *)
(* the only way back: a block is never replaced, nor removed alone.         *)
ImplementsLedgerInLives == L!LivesSpec
=============================================================================
