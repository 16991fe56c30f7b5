------------------------------ MODULE Starknet ------------------------------
(***************************************************************************)
(* The chain as the validator meets it through its RPC provider: the epoch *)
(* the staking contract is in, the epochs for which the attestation        *)
(* contract has recorded this validator's attestation, the nonce of the    *)
(* operational account, and the attest transactions that reached the       *)
(* mempool.  None of it is code of this repository; it is modelled from    *)
(* the calls the two signers make (validator/signer/internal.go and        *)
(* external.go) and the answers validator/dispatcher.go tells apart.       *)
(*                                                                         *)
(* A block hash is abstracted to the epoch whose target block it belongs   *)
(* to, and ZeroHash is the hash Go's zero value stands for.  A transaction *)
(* hash is the transaction's position in txs, and NoHash is felt.Zero.     *)
(* Chain reorganisations are left out: what was executed stays executed.   *)
(***************************************************************************)
EXTENDS Integers, Sequences

CONSTANTS MaxEpoch,   \* bound: the last epoch the chain reaches
          MaxNonce,   \* bound: foreign transactions stop at this nonce
          MaxTxs      \* bound: attest transactions that reach the mempool

ASSUME BoundsAssumption == /\ MaxEpoch \in Nat \ {0}
                           /\ MaxNonce \in Nat
                           /\ MaxTxs \in Nat

VARIABLES epoch,      \* the epoch the chain is in
          attested,   \* epochs with a recorded attestation
          nonce,      \* nonce of the operational account (pre-confirmed)
          txs         \* attest transactions in the order the gateway took them

chain == <<epoch, attested, nonce, txs>>

Epochs == 1..MaxEpoch
ZeroHash == 0
BlockHashes == Epochs \cup {ZeroHash}
NoHash == 0

(***************************************************************************)
(* "pending" stands for received, candidate and pre-confirmed; "dropped"   *)
(* for a transaction the node no longer knows.                             *)
(***************************************************************************)
TxStates == {"pending", "accepted", "reverted", "dropped"}
Txs == [nonce : Nat, blockHash : BlockHashes, state : TxStates]

StarknetTypeOK == /\ epoch \in Epochs
                  /\ attested \in SUBSET Epochs
                  /\ nonce \in Nat
                  /\ txs \in Seq(Txs)

StarknetInit == epoch = 1 /\ attested = {} /\ nonce = 0 /\ txs = <<>>

(***************************************************************************)
(* What the chain does on its own.                                         *)
(***************************************************************************)
NewEpoch == /\ epoch < MaxEpoch
            /\ epoch' = epoch + 1
            /\ UNCHANGED <<attested, nonce, txs>>

\* The account sends something else than an attestation.
ForeignTransaction == /\ nonce < MaxNonce
                      /\ nonce' = nonce + 1
                      /\ UNCHANGED <<epoch, attested, txs>>

Executable(i) == txs[i].state = "pending" /\ txs[i].nonce = nonce

\* The attestation contract takes one attestation per epoch, for the target
\* block of that epoch.
Accept(i) == /\ Executable(i)
             /\ txs[i].blockHash = epoch
             /\ epoch \notin attested
             /\ txs' = [txs EXCEPT ![i].state = "accepted"]
             /\ attested' = attested \cup {epoch}
             /\ nonce' = nonce + 1
             /\ UNCHANGED epoch

\* Any transaction may run out of the bounds it was sent with.
Revert(i) == /\ Executable(i)
             /\ txs' = [txs EXCEPT ![i].state = "reverted"]
             /\ nonce' = nonce + 1
             /\ UNCHANGED <<epoch, attested>>

Drop(i) == /\ txs[i].state = "pending"
           /\ txs' = [txs EXCEPT ![i].state = "dropped"]
           /\ UNCHANGED <<epoch, attested, nonce>>

StarknetNext == \/ NewEpoch
                \/ ForeignTransaction
                \/ \E i \in 1..Len(txs) : Accept(i) \/ Revert(i) \/ Drop(i)

(***************************************************************************)
(* What the chain answers.  Every call may also fail on the way.           *)
(***************************************************************************)

\* starknet_getTransactionStatus: NoHash names no transaction; one still in
\* flight may not have reached the node that is asked.
TransactionStatus(h) ==
  {"error"} \cup
  IF h = NoHash THEN {"notFound"}
  ELSE CASE txs[h].state = "pending"  -> {"notFound", "waiting"}
         [] txs[h].state = "accepted" -> {"waiting", "succeeded"}
         [] txs[h].state = "reverted" -> {"reverted"}
         [] txs[h].state = "dropped"  -> {"notFound"}

\* starknet_estimateFee runs the transaction: the contract refuses a second
\* attestation for the epoch with "Attestation is done for this epoch", and any
\* block hash but the one of the epoch's target block.
EstimateFee(b) == {"error"} \cup
                  CASE epoch \in attested                 -> {"done"}
                    [] epoch \notin attested /\ b = epoch -> {"ok"}
                    [] epoch \notin attested /\ b # epoch -> {}

\* starknet_addInvokeTransaction takes the transaction into the mempool.
AddInvokeTransaction(n, b) ==
  /\ Len(txs) < MaxTxs
  /\ n >= nonce
  /\ txs' = Append(txs, [nonce |-> n, blockHash |-> b, state |-> "pending"])
=============================================================================
