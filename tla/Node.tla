-------------------------------- MODULE Node --------------------------------
(***************************************************************************)
(* The node process (src/main.cpp) with its consensus engine               *)
(* (src/Consensus.cpp) and UTXO set: the chain, the coins, and the         *)
(* submitblock call that changes them.                                     *)
(*                                                                         *)
(* RPC handlers run one at a time on the RPC thread, under m_methodsMutex  *)
(* (src/rpc/RpcServer.cpp:132), and no other thread touches the chain or   *)
(* the UTXO set: a call is one step.  The broadcast that ends it changes   *)
(* no state of this module.  A call whose parameters do not parse throws   *)
(* before it changes anything, and is left out.                            *)
(***************************************************************************)
EXTENDS UTXOEngine, Blocks

VARIABLE chain     \* blockchain: the blocks, genesis first

vars == <<utxos, spentThisBlock, chain>>

-----------------------------------------------------------------------------
(* ConsensusEngine::ValidateBlock. *)

(* [faulty: any block of the chain is taken for the parent.] *)
CheckParentHashKnown(b) == \E i \in DOMAIN chain : b.prev = HashOf(chain[i])

CheckParentHash(b) == b.prev = HashOf(Tip(chain))

(* [faulty: a timestamp equal to the parent's is let through.] *)
CheckTimestampNotEarlier(b) == b.time >= Tip(chain).time

CheckTimestamp(b) == b.time > Tip(chain).time

CheckProofOfWork(b) == b.nonce \in GoodNonces

CheckBlockSize(b) == b.fits

(* The checks before the scan of the transactions. *)
HeaderAccepted(b) ==
    /\ CheckParentHash(b)
    /\ CheckTimestamp(b)
    /\ CheckProofOfWork(b)
    /\ CheckBlockSize(b)

(* m_spentThisBlock when the scan reaches transaction k, all those before   *)
(* it having been accepted.                                                 *)
SpentBefore(b, k) ==
    spentThisBlock \cup UNION {SpendsOf(b.txs[j]) : j \in 1 .. k-1}

RefusedTxs(b) ==
    {k \in DOMAIN b.txs : ~Accepts(b.txs[k], utxos, SpentBefore(b, k))}

(* The transaction at which the scan returns. *)
FirstRefused(b) ==
    CHOOSE k \in RefusedTxs(b) : \A j \in RefusedTxs(b) : k <= j

(* [faulty: all inputs are removed first, then all outputs added.] *)
ApplyTxsAddLast(txs, u) ==
    (u \ UNION {InputSet(txs[j]) : j \in DOMAIN txs})
        \cup UNION {OutPointsOf(txs[k]) : k \in DOMAIN txs}

(* [faulty: all outputs are added first, then all inputs removed.] *)
ApplyTxsRemoveLast(txs, u) ==
    (u \cup UNION {OutPointsOf(txs[k]) : k \in DOMAIN txs})
        \ UNION {InputSet(txs[j]) : j \in DOMAIN txs}

(* The loop of submitblock over the transactions of an accepted block:      *)
(* each removes its inputs, then adds its outputs.  What is left of u.      *)
ApplyTxs(txs, u) ==
    LET RemovedAfter(k, op) ==
            \E j \in DOMAIN txs : j > k /\ op \in InputSet(txs[j])
    IN  {op \in u : ~RemovedAfter(0, op)}
            \cup UNION {{op \in OutPointsOf(txs[k]) : ~RemovedAfter(k, op)} :
                            k \in DOMAIN txs}

-----------------------------------------------------------------------------

(* main: the chain starts with the genesis block and its coin. *)
Init ==
    /\ chain = <<GenesisBlock>>
    /\ utxos = OutPointsOf(GenesisTx)
    /\ spentThisBlock = {}

(* submitblock, the header or the size refused. *)
RejectHeader(b) ==
    /\ ~HeaderAccepted(b)
    /\ UNCHANGED vars

(* [faulty: the spends of the refused block are committed.] *)
RejectSpendCommitting(b) ==
    /\ HeaderAccepted(b)
    /\ RefusedTxs(b) # {}
    /\ utxos' = utxos \ SpentBefore(b, FirstRefused(b))
    /\ spentThisBlock' = {}
    /\ UNCHANGED chain

(* submitblock, a transaction refused: ValidateBlock returns at once, and   *)
(* what the scan has recorded by then stays recorded.                       *)
RejectSpend(b) ==
    /\ HeaderAccepted(b)
    /\ RefusedTxs(b) # {}
    /\ LET k == FirstRefused(b)
           s == SpentBefore(b, k)
       IN  spentThisBlock' = s \cup Recorded(b.txs[k], utxos, s)
    /\ UNCHANGED <<utxos, chain>>

(* submitblock, accepted: CommitBlock, the loop of submitblock, push_back.  *)
AcceptBlock(b) ==
    /\ HeaderAccepted(b)
    /\ RefusedTxs(b) = {}
    /\ utxos' = ApplyTxs(b.txs, utxos \ SpentBefore(b, Len(b.txs) + 1))
    /\ spentThisBlock' = {}
    /\ chain' = Append(chain, b)

SubmitBlock(b) == RejectHeader(b) \/ RejectSpend(b) \/ AcceptBlock(b)

Next == \E b \in Submissions(chain) : SubmitBlock(b)

Spec == Init /\ [][Next]_vars

-----------------------------------------------------------------------------
(* Properties. *)

(* The types of the variables; the chain is never empty, so                *)
(* blockchain.back() is always defined.                                    *)
TypeOK ==
    /\ utxos \subseteq Tx \X (Nat \ {0})
    /\ spentThisBlock \subseteq OutPoint
    /\ chain \in Seq(Block) \ {<<>>}

(* No coin out of thin air: whatever the history of accepted and refused    *)
(* blocks, every coin of m_utxos is one that the chain has created and has  *)
(* not spent since, so a spend that the node accepts is justified by the    *)
(* chain alone.                                                             *)
CoinsAreLive == \A op \in utxos : IsLive(chain, op)

(* The spends recorded in m_spentThisBlock, those left behind by refused    *)
(* blocks included, always name coins of the set: a stale record never      *)
(* outlives its coin to forbid the spending of one created later under the  *)
(* same outpoint.                                                           *)
MarksAreCoins == spentThisBlock \subseteq utxos

(* No double spend on the chain: each input of each accepted transaction    *)
(* names a coin created by an earlier block and not spent in between.       *)
ChainSpendsOnlyLive == SpendsOnlyLive(chain)

(* Acceptance is exact from a clean state: when no spend record is left     *)
(* over and the coins are exactly the live ones, an accepted block leaves   *)
(* exactly the live coins of the longer chain, whatever the order of its    *)
(* transactions and even if it creates again a coin it spends or already    *)
(* has.                                                                     *)
ExactStep ==
    (chain' # chain /\ spentThisBlock = {} /\ utxos = Live(chain))
        => utxos' = Live(chain')
ExactWhenClean == [][ExactStep]_vars

(* The loop of submitblock over the transactions of an accepted block: what *)
(* is left of u after each of them.                                         *)
ApplyLoop(txs, u) ==
    LET left[k \in 0 .. Len(txs)] ==
            IF k = 0 THEN u
            ELSE (left[k-1] \ InputSet(txs[k])) \cup OutPointsOf(txs[k])
    IN  left[Len(txs)]

(* The closed form ApplyTxs of the model is what the loop of submitblock    *)
(* computes after the commit, one transaction after the other, when a block *)
(* spends or creates again what an earlier transaction of it has created.   *)
AppliedInOrderStep ==
    chain' # chain =>
        LET txs == Tip(chain').txs
            spent == spentThisBlock \cup UNION {SpendsOf(txs[k]) : k \in DOMAIN txs}
        IN  utxos' = ApplyLoop(txs, utxos \ spent)
AppliedInOrder == [][AppliedInOrderStep]_vars

(* Damage is confined to marks: a coin that the chain says is live and that *)
(* the set has can disappear from the set while staying live only if a      *)
(* refused block had recorded it as spent.                                  *)
LossStep ==
    \A op \in utxos \ utxos' : IsLive(chain', op) => op \in spentThisBlock
LossOnlyOfMarked == [][LossStep]_vars

(* The node implements the ledger that README.md promises. *)
L == INSTANCE Ledger WITH chain <- chain
ImplementsLedger == L!Spec

(* What README.md:55 says ("Transactions validate against a lightweight,    *)
(* standard UTXO set"): the coins are those of the chain.  Refused blocks   *)
(* break it.                                                                *)
CoinsAreExact == utxos = Live(chain)
=============================================================================
