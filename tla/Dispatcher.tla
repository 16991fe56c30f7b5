----------------------------- MODULE Dispatcher -----------------------------
(***************************************************************************)
(* EventDispatcher.Dispatch (validator/dispatcher.go): the goroutine that  *)
(* owns the attestation of the current window.  It receives PrepareAttest, *)
(* DoAttest and EndOfWindow events from the block header processor, one at *)
(* a time over unbuffered channels, and answers each with a run of calls   *)
(* to the RPC provider and to the signer.                                  *)
(*                                                                         *)
(* An event is handled between two visits of pc = "select".  Each call is  *)
(* a step of its own, because the chain moves while the dispatcher waits   *)
(* for the answer; the code between two calls belongs to the call before   *)
(* it.  Any call may fail.                                                 *)
(*                                                                         *)
(* The processor is reduced to the order of its events, module Sender.     *)
(***************************************************************************)
EXTENDS Starknet, Sender

CONSTANT Braavos     \* TRUE: the account is a Braavos account

ASSUME BraavosAssumption == Braavos \in BOOLEAN
ASSUME WindowsAreEpochs == Windows = Epochs

VARIABLES pc,          \* the call Dispatch is waiting for
          status,      \* CurrentAttest.Status
          hash,        \* CurrentAttest.Hash
          transaction, \* CurrentAttest.Transaction
          attest,      \* the block hash of the event being handled
          closed,      \* close(PrepareAttest) has happened
          submitted,   \* RecordAttestationSubmitted: a counter
          confirmed,   \* RecordAttestationConfirmed: the windows counted
          failed,      \* RecordAttestationFailure: the windows counted
          nonceAtDo,   \* history: the account's nonce when Do was received
          misled,      \* history: windows for which "done" was said of another epoch
          sent         \* history: what became txs[i], and its fate

tracker == <<status, hash, transaction>>
metrics == <<submitted, confirmed, failed>>
vars == <<chain, pc, tracker, attest, closed, metrics, sender, nonceAtDo, misled, sent>>

Statuses == {"Iddle", "Ongoing", "Successful", "Failed"}
Calls == {"prepareBuild", "track", "doBuild", "updateNonce", "estimate",
          "invoke", "endTrack"}

(***************************************************************************)
(* The part of an invoke transaction the signature covers that changes     *)
(* between building and sending.  NoBody is a missing one.                 *)
(***************************************************************************)
Versions == {"V3", "V3WithQueryBit", "none"}
Bounds == {"default", "estimated", "none"}
Bodies == [blockHash : BlockHashes, nonce : Nat,
           version : Versions, bounds : Bounds]
NoBody == [blockHash |-> ZeroHash, nonce |-> 0,
           version |-> "none", bounds |-> "none"]

\* signature: the body it was computed over; builtIn: history, the window whose
\* event it was built for (0: not built).  Once a transaction is no longer valid
\* only Build touches it, so its contents are forgotten: NoTransaction.
Transactions == [body : Bodies, signature : Bodies, valid : BOOLEAN,
                 builtIn : Nat]
NoTransaction == [body |-> NoBody, signature |-> NoBody, valid |-> FALSE,
                  builtIn |-> 0]

\* "open": acknowledged and followed; "unacknowledged": the gateway's answer was lost.
\* One that was open and is followed no more was "reverted", or its status could not be
\* had ("unanswered"), or its window was closed ("closed").
Fates == {"open", "unacknowledged", "reverted", "unanswered", "closed"}
Sent == [transaction : Transactions, fate : Fates]

TypeOK == /\ StarknetTypeOK
          /\ pc \in Calls \cup {"select", "returned"}
          /\ status \in Statuses
          /\ hash \in {NoHash} \cup DOMAIN txs
          /\ transaction \in Transactions
          /\ attest \in BlockHashes
          /\ closed \in BOOLEAN
          /\ submitted \in Nat
          /\ confirmed \in SUBSET Nat
          /\ failed \in SUBSET Nat
          /\ SenderTypeOK
          /\ nonceAtDo \in Nat
          /\ misled \in SUBSET Nat
          /\ sent \in Seq(Sent)
          /\ Len(sent) = Len(txs)

Init == /\ StarknetInit
        /\ pc = "select"
        /\ status = "Iddle"
        /\ hash = NoHash
        /\ transaction = NoTransaction
        /\ attest = ZeroHash
        /\ closed = FALSE
        /\ submitted = 0
        /\ confirmed = {}
        /\ failed = {}
        /\ SenderInit
        /\ nonceAtDo = 0
        /\ misled = {}
        /\ sent = <<>>
-----------------------------------------------------------------------------
\* An event of window w is one for a block of epoch w, so the chain has reached
\* that epoch.  Its block hash is the target block's, or zero when
\* SetTargetBlockHashIfExists did not find it.
EventHashes(w) == {w, ZeroHash}

\* A second instance of the validator, or its operator by hand, attests: perhaps in an
\* epoch this instance's feed has not come to.
AttestElsewhere == /\ epoch \notin attested
                   /\ nonce < MaxNonce
                   /\ attested' = attested \cup {epoch}
                   /\ nonce' = nonce + 1
                   /\ UNCHANGED <<epoch, txs, pc, tracker, attest, closed, metrics,
                                  sender, nonceAtDo, misled, sent>>
-----------------------------------------------------------------------------
(***************************************************************************)
(* AttestTransaction.                                                      *)
(***************************************************************************)
Sign(t) == [t EXCEPT !.signature = t.body]

\* signer.BuildAttestTransaction: the nonce is the account's of this moment.
BuildAttestTransaction(b) ==
  [body      |-> [blockHash |-> b, nonce |-> nonce,
                  version |-> "V3", bounds |-> "default"],
   signature |-> NoBody,
   valid     |-> FALSE,
   builtIn   |-> window]

Build(b) == [Sign(BuildAttestTransaction(b)) EXCEPT !.valid = TRUE]

\* The version an estimate is asked under, and the one put back after it.
EstimateVersion == IF Braavos THEN "V3WithQueryBit" ELSE "V3"

\* signer.EstimateFee as it leaves the transaction: a Braavos account signs the
\* query version, and only the version is put back.
Estimated(t) ==
  LET asked == [t EXCEPT !.valid = FALSE, !.body.version = EstimateVersion]
  IN  [IF Braavos THEN Sign(asked) ELSE asked EXCEPT !.body.version = "V3"]

\* Mutant: "no need to re-sign" after the estimate.
ReadyToInvokeUnsigned(t) ==
  [Estimated(t) EXCEPT !.body.bounds = "estimated", !.body.version = "V3"]

\* Invoke between the estimate and the gateway.
ReadyToInvoke(t) ==
  Sign([Estimated(t) EXCEPT !.body.bounds = "estimated", !.body.version = "V3"])

(***************************************************************************)
(* AttestTracker.                                                          *)
(***************************************************************************)

\* Mutant: an unknown transaction is a failed one.
TrackAttestImpatient(reply) == CASE reply = "waiting"                         -> "Ongoing"
                                 [] reply = "succeeded"                       -> "Successful"
                                 [] reply \in {"notFound", "error", "reverted"} -> "Failed"

\* Mutant: a transaction that was received or pre-confirmed is a success.
TrackAttestEarly(reply) == CASE reply = "notFound"                -> "Ongoing"
                             [] reply \in {"waiting", "succeeded"} -> "Successful"
                             [] reply \in {"error", "reverted"}   -> "Failed"

\* Mutant: a status setStatus does not know.
TrackAttestUnknown(reply) == CASE reply = "notFound"              -> "NotFound"
                               [] reply = "waiting"               -> "Ongoing"
                               [] reply = "succeeded"             -> "Successful"
                               [] reply \in {"error", "reverted"} -> "Failed"

\* What a status reply makes of the attestation.
TrackAttest(reply) == CASE reply \in {"notFound", "waiting"} -> "Ongoing"
                        [] reply = "succeeded"               -> "Successful"
                        [] reply \in {"error", "reverted"}   -> "Failed"

\* Mutant: setStatus keeps the hash of the failed transaction.
HashAfterKept(s) == hash

\* setStatus: a failed transaction is followed no more.
HashAfter(s) == IF s = "Failed" THEN NoHash ELSE hash
SetStatus(s) == status' = s /\ hash' = HashAfter(s)

\* Mutant: the prepared transaction survives the window.
NewAttestTrackerKeepsTransaction == status' = "Iddle" /\ hash' = NoHash
                                    /\ UNCHANGED transaction

\* Mutant: the status survives the window.
NewAttestTrackerKeepsStatus == hash' = NoHash /\ transaction' = NoTransaction
                               /\ UNCHANGED status

NewAttestTracker == /\ status' = "Iddle"
                    /\ hash' = NoHash
                    /\ transaction' = NoTransaction

\* History: the open transaction is followed no more.
Settled(fate) == [i \in DOMAIN sent |->
                    IF sent[i].fate = "open" THEN [sent[i] EXCEPT !.fate = fate]
                                             ELSE sent[i]]
-----------------------------------------------------------------------------
(***************************************************************************)
(* case attest, ok := <-d.PrepareAttest                                    *)
(***************************************************************************)
ReceivePrepare(w, b) ==
  /\ pc = "select" /\ ~closed
  /\ OfferPrepare(w)
  /\ IF transaction.valid
     THEN UNCHANGED <<pc, attest>>
     ELSE pc' = "prepareBuild" /\ attest' = b
  /\ UNCHANGED <<chain, tracker, closed, metrics, nonceAtDo, misled, sent>>

PrepareBuild ==
  /\ pc = "prepareBuild"
  /\ pc' = "select"
  /\ transaction' \in {Build(attest), NoTransaction}
  /\ UNCHANGED <<chain, status, hash, attest, closed, metrics, sender,
                 nonceAtDo, misled, sent>>
-----------------------------------------------------------------------------
(***************************************************************************)
(* case attest, ok := <-d.DoAttest                                         *)
(***************************************************************************)
StartAttest == /\ status' = "Ongoing"
               /\ pc' = IF transaction.valid THEN "updateNonce" ELSE "doBuild"

ReceiveDo(w, b) ==
  /\ pc = "select"
  /\ OfferDo(w)
  /\ attest' = b
  /\ nonceAtDo' = nonce
  /\ \/ status \in {"Iddle", "Failed"} /\ StartAttest
     \/ status = "Ongoing" /\ pc' = "track" /\ UNCHANGED status
     \/ status = "Successful" /\ UNCHANGED <<pc, status>>
  /\ UNCHANGED <<chain, hash, transaction, closed, metrics, misled, sent>>

\* UpdateStatus: a failure is retried within the same event.
Track ==
  /\ pc = "track"
  /\ \E reply \in TransactionStatus(hash) :
       LET s == TrackAttest(reply) IN
       /\ hash' = HashAfter(s)
       /\ IF s = "Failed" THEN StartAttest ELSE status' = s /\ pc' = "select"
       /\ sent' = CASE reply = "error"                     -> Settled("unanswered")
                     [] reply = "reverted"                  -> Settled("reverted")
                     [] reply \notin {"error", "reverted"} -> sent
  /\ UNCHANGED <<chain, transaction, attest, closed, metrics, sender, nonceAtDo, misled>>

\* A failure leaves the status at Ongoing.
DoBuild ==
  /\ pc = "doBuild"
  /\ \/ pc' = "estimate" /\ transaction' = Build(attest)
     \/ pc' = "select" /\ transaction' = NoTransaction
  /\ UNCHANGED <<chain, status, hash, attest, closed, metrics, sender,
                 nonceAtDo, misled, sent>>

WithNonce(t) == [t EXCEPT !.body.nonce = nonce]

\* Mutant: a prepared transaction goes out with the nonce it was built with.
UpdateNonceSkipped == /\ pc = "updateNonce"
                      /\ pc' = "estimate"
                      /\ UNCHANGED <<chain, tracker, attest, closed, metrics, sender,
                                     nonceAtDo, misled, sent>>

\* So does a failure here; one of the signer leaves the old signature.
UpdateNonce ==
  /\ pc = "updateNonce"
  /\ \/ pc' = "select" /\ UNCHANGED transaction
     \/ /\ transaction.body.nonce = nonce
        /\ pc' = "estimate"
        /\ UNCHANGED transaction
     \/ /\ transaction.body.nonce # nonce
        /\ \/ pc' = "estimate" /\ transaction' = Sign(WithNonce(transaction))
           \/ pc' = "select" /\ transaction' = WithNonce(transaction)
  /\ UNCHANGED <<chain, status, hash, attest, closed, metrics, sender,
                 nonceAtDo, misled, sent>>

\* Invoke up to the gateway.  A failing signer looks like a failing estimate.
Estimate ==
  /\ pc = "estimate"
  /\ \E reply \in EstimateFee(transaction.body.blockHash) :
       \/ /\ reply = "ok"
          /\ pc' = "invoke"
          /\ transaction' = ReadyToInvoke(transaction)
          /\ UNCHANGED <<status, hash, misled>>
       \/ /\ reply = "done"
          /\ pc' = "select"
          /\ SetStatus("Successful")
          /\ transaction' = NoTransaction
          /\ misled' = misled \cup ({window} \ {epoch})
       \/ /\ reply = "error"
          /\ pc' = "select"
          /\ SetStatus("Failed")
          /\ transaction' = NoTransaction
          /\ UNCHANGED misled
  /\ UNCHANGED <<chain, attest, closed, metrics, sender, nonceAtDo, sent>>

\* The transaction reaches the mempool.
Land(fate) ==
  /\ AddInvokeTransaction(transaction.body.nonce, transaction.body.blockHash)
  /\ sent' = Append(sent, [transaction |-> transaction, fate |-> fate])

\* Invoke at the gateway: taken, refused, or taken with the answer lost.
Invoke ==
  /\ pc = "invoke"
  /\ pc' = "select"
  /\ transaction' = NoTransaction
  /\ \/ /\ Land("open")
        /\ hash' = Len(txs) + 1
        /\ submitted' = submitted + 1
        /\ UNCHANGED status
     \/ /\ Land("unacknowledged") \/ UNCHANGED <<txs, sent>>
        /\ SetStatus("Failed")
        /\ UNCHANGED submitted
  /\ UNCHANGED <<epoch, attested, nonce, attest, closed, confirmed, failed, sender,
                 nonceAtDo, misled>>
-----------------------------------------------------------------------------
(***************************************************************************)
(* case <-d.EndOfWindow.  CheckBalance, which is started here, only reads  *)
(* and reports.                                                            *)
(***************************************************************************)
CloseWindow(s, w) ==
  /\ pc' = "select"
  /\ IF s = "Successful" THEN /\ confirmed' = confirmed \cup {w}
                              /\ UNCHANGED failed
                         ELSE /\ failed' = failed \cup {w}
                              /\ UNCHANGED confirmed
  /\ NewAttestTracker
  /\ sent' = Settled("closed")

ReceiveEndOfWindow(w) ==
  /\ pc = "select"
  /\ OfferEndOfWindow(w)
  /\ IF status = "Successful"
     THEN CloseWindow(status, w)
     ELSE pc' = "endTrack" /\ UNCHANGED <<tracker, confirmed, failed, sent>>
  /\ UNCHANGED <<chain, attest, closed, submitted, nonceAtDo, misled>>

EndTrack ==
  /\ pc = "endTrack"
  /\ \E reply \in TransactionStatus(hash) : CloseWindow(TrackAttest(reply), window)
  /\ UNCHANGED <<chain, attest, closed, submitted, sender, nonceAtDo, misled>>
-----------------------------------------------------------------------------
\* Attest closes PrepareAttest when it returns (validator.go:113).  A header
\* processor left over from an earlier subscription may still send on the other
\* two channels.
Close == /\ ~closed
         /\ closed' = TRUE
         /\ UNCHANGED <<chain, pc, tracker, attest, metrics, sender, nonceAtDo, misled,
                        sent>>

\* Mutant: the zero event a closed channel yields is handled like any other.
ReceiveClosedUnnoticed == /\ pc = "select" /\ closed
                          /\ pc' = "prepareBuild"
                          /\ attest' = ZeroHash
                          /\ UNCHANGED <<chain, tracker, closed, metrics, sender,
                                         nonceAtDo, misled, sent>>

ReceiveClosed == /\ pc = "select" /\ closed
                 /\ pc' = "returned"
                 /\ UNCHANGED <<chain, tracker, attest, closed, metrics, sender,
                                nonceAtDo, misled, sent>>

Dispatch == \/ PrepareBuild \/ Track \/ DoBuild \/ UpdateNonce
            \/ Estimate \/ Invoke \/ EndTrack \/ ReceiveClosed

Events == \E w \in 1..epoch :
            \/ \E b \in EventHashes(w) : ReceivePrepare(w, b) \/ ReceiveDo(w, b)
            \/ ReceiveEndOfWindow(w)

Chain == /\ StarknetNext
         /\ UNCHANGED <<pc, tracker, attest, closed, metrics, sender,
                        nonceAtDo, misled, sent>>

Next == Dispatch \/ Events \/ Close \/ AttestElsewhere \/ Chain

\* The Go scheduler runs the goroutine, every call returns in the end, and a
\* select with several ready cases takes each of them at some time.  The header
\* processor and the chain promise nothing.
Spec == Init /\ [][Next]_vars /\ WF_vars(Dispatch) /\ SF_vars(ReceiveClosed)
-----------------------------------------------------------------------------
\* Two acknowledged transactions are in the mempool together only if the dispatcher gave
\* the earlier one up while it was there: a call for its status failed, which counts as a
\* failed transaction (dispatcher.go:307), or its window ended.  One that is unknown to the
\* node, received or pre-confirmed is waited for.
InFlight(i) == txs[i].state = "pending" /\ sent[i].fate # "unacknowledged"
GivenUp(i) == sent[i].fate \in {"unanswered", "closed"}
OneInFlight == \A i, j \in DOMAIN sent :
                 InFlight(i) /\ InFlight(j) /\ i < j => GivenUp(i)

\* What reaches the gateway is signed as it is: real version, estimated bounds,
\* and the nonce and block hash the signature was computed over.
SignedAsSent == \A i \in DOMAIN sent :
                  LET t == sent[i].transaction
                  IN  /\ t.signature = t.body
                      /\ t.body.version = "V3"
                      /\ t.body.bounds = "estimated"

\* What the dispatcher keeps ready or is sending was built in this window: nothing
\* prepared for an earlier one survives the clean slate at its end
\* (dispatcher.go:285).
BuiltInItsWindow == transaction.valid \/ pc \in {"estimate", "invoke"} =>
                      transaction.builtIn = window

\* A transaction prepared blocks ago is not tried with the nonce of that moment:
\* once the Do stage lets it pass it has a nonce the account had after the Do
\* event arrived (dispatcher.go:229).
NonceIsFresh == pc \in {"estimate", "invoke"} =>
                  transaction.body.nonce >= nonceAtDo

\* The dispatcher stops trying in a window only if the chain holds the attestation of that
\* window's epoch; or if the contract said "done" of a later epoch, when the window could
\* not be attested any more (dispatcher.go:243).
SuccessIsAttested ==
  status = "Successful" => window \in attested \/ (window \in misled /\ window < epoch)

\* The confirmed counter counts epochs the chain holds an attestation of, but for those
\* windows; and no window is counted both ways.
ConfirmedIsAttested == confirmed \subseteq attested \cup misled /\ confirmed \cap failed = {}

\* An attestation the dispatcher considers ongoing is followed: between events
\* there is a transaction hash to ask the node about (the comment of
\* dispatcher.go:200, "if the attest event is already being tracked by the
\* tool").
OngoingIsTracked == pc = "select" /\ status = "Ongoing" => hash # NoHash

\* Once PrepareAttest is closed Dispatch returns, whatever is still sent on the
\* other channels: Attest waits for it (validator.go:109).
ClosedReturns == closed ~> pc = "returned"
-----------------------------------------------------------------------------
\* Dispatch implements the abstract attestation of a window: a transaction is
\* followed when its hash is known, and a window is closed again only by a processor
\* that overlaps another one.
Abstract == INSTANCE Attestation WITH followed <- hash # NoHash,
                                      Repeats <- Feed = "overlapping"

\* Everything the dispatcher does to its tracker and counters is a step the
\* abstract attestation may take.
ImplementsAttestation == Abstract!Spec
=============================================================================
