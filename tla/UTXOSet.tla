------------------------------- MODULE UTXOSet -------------------------------
(***************************************************************************)
(* The operations of class UTXOSet, called one at a time and in any order, *)
(* as a test or a caller other than src/main.cpp may call them: what the   *)
(* class promises whatever the protocol its callers follow.                *)
(***************************************************************************)
EXTENDS UTXOEngine

CONSTANT MaxBatch     \* bound on the transactions validated for one block

ASSUME UTXOSetAssumption == MaxBatch \in Nat

(* The transactions validated since the last commit, revert or clear, and   *)
(* what was answered: not known to the class, which only keeps outpoints.   *)
VARIABLE batch

vars == <<utxos, spentThisBlock, batch>>

Init ==
    /\ utxos = {}
    /\ spentThisBlock = {}
    /\ batch = <<>>

Change(op) ==
    /\ AddCoin(op) \/ RemoveCoin(op)
    /\ UNCHANGED batch

Validate(t) ==
    /\ Len(batch) < MaxBatch
    /\ ValidateAndApplyInputs(t)
    /\ batch' = Append(batch, [tx |-> t, ok |-> Accepts(t, utxos, spentThisBlock)])

EndBatch ==
    /\ CommitBlock \/ RevertBlock \/ Clear
    /\ batch' = <<>>

Next ==
    \/ \E t \in Tx : \E op \in OutPointsOf(t) : Change(op)
    \/ \E t \in Tx : Validate(t)
    \/ EndBatch

Spec == Init /\ [][Next]_vars

-----------------------------------------------------------------------------
(* Properties. *)

(* The calls of the batch whose transaction spends coins and was accepted. *)
AcceptedSpends == {i \in DOMAIN batch : batch[i].ok /\ ~IsCoinbase(batch[i].tx)}

(* No coin is spent twice in a batch, even if it is removed and added again *)
(* between the calls, or named by transactions that were refused.           *)
BatchSpendsOnce ==
    \A i, j \in AcceptedSpends :
        i # j => SpendsOf(batch[i].tx) \cap SpendsOf(batch[j].tx) = {}

(* The one way for a batch to create money is a total that wraps: what the  *)
(* outputs of its accepted transactions are worth, beyond the value of the  *)
(* coins in m_spentThisBlock, which a commit takes away, is only what they  *)
(* add up to beyond 2^64.  No coin pays for two outputs.                    *)
BatchIsPaid ==
    SumFunction([i \in AcceptedSpends |-> WorthOf(OutPointsOf(batch[i].tx))])
        <= WorthOf(spentThisBlock)
           + SumFunction([i \in AcceptedSpends |-> BeyondTotal(batch[i].tx)])

(* The loop of ValidateAndApplyInputs after its first i inputs: whether it  *)
(* has run so far, m_spentThisBlock, and totalIn.                           *)
Scan(t) ==
    LET acc[i \in 0 .. Len(Inputs[t])] ==
            IF i = 0
            THEN [ok |-> TRUE, marks |-> spentThisBlock, in |-> 0]
            ELSE LET op == Inputs[t][i]
                 IN  IF ~acc[i-1].ok \/ op \in acc[i-1].marks \/ op \notin utxos
                     THEN [acc[i-1] EXCEPT !.ok = FALSE]
                     ELSE [ok |-> TRUE, marks |-> acc[i-1].marks \cup {op},
                           in |-> (acc[i-1].in + ValueOf(op)) % Wrap]
    IN  acc[Len(Inputs[t])]

(* The closed forms Accepts and Recorded of the model are what the loop of  *)
(* ValidateAndApplyInputs computes, wherever it stops: at an input already  *)
(* recorded, at an unknown one, or at the totals after all are recorded.    *)
ScannedInOrder ==
    \A t \in Tx :
        ~IsCoinbase(t) =>
            /\ Accepts(t, utxos, spentThisBlock)
                <=> Inputs[t] # <<>> /\ Scan(t).ok /\ TotalOutput(t) <= Scan(t).in
            /\ spentThisBlock \cup Recorded(t, utxos, spentThisBlock) = Scan(t).marks

(* The spends recorded are those of the batch: all that its accepted        *)
(* transactions spend, and nothing that none of its transactions names;     *)
(* nothing is left of the batches before.                                   *)
MarksAreOfBatch ==
    /\ UNION {SpendsOf(batch[i].tx) : i \in AcceptedSpends} \subseteq spentThisBlock
    /\ spentThisBlock \subseteq UNION {SpendsOf(batch[i].tx) : i \in DOMAIN batch}
=============================================================================
