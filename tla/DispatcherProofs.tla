-------------------------- MODULE DispatcherProofs --------------------------
(***************************************************************************)
(* Theorems about Dispatcher for every bound, for complete header feeds and *)
(* for those with gaps or overlaps, and for both kinds of account.         *)
(***************************************************************************)
EXTENDS Dispatcher, SequenceTheorems, TLAPS

-----------------------------------------------------------------------------
(***************************************************************************)
(* Types of the constants and of what the operators return.                *)
(***************************************************************************)
LEMMA ConstantTypes == /\ Windows = Epochs
                       /\ Epochs \subseteq Nat \ {0}
                       /\ BlockHashes \subseteq Nat
                       /\ 1 \in Epochs
                       /\ MaxEpoch \in Nat
BY BoundsAssumption, WindowsAreEpochs DEF Epochs, BlockHashes, ZeroHash

LEMMA NoTransactionType == NoTransaction \in Transactions
BY ConstantTypes
   DEF NoTransaction, Transactions, NoBody, Bodies, Versions, Bounds, BlockHashes

LEMMA SignType == ASSUME NEW t \in Transactions
                  PROVE  Sign(t) \in Transactions /\ Sign(t).body = t.body
                         /\ Sign(t).signature = t.body
                         /\ Sign(t).valid = t.valid /\ Sign(t).builtIn = t.builtIn
BY DEF Sign, Transactions

\* A transaction that was built is valid, names the block it was built for, and
\* carries the nonce the account has now.
LEMMA BuildType == ASSUME NEW b \in BlockHashes, nonce \in Nat, window \in Nat
                   PROVE  /\ Build(b) \in Transactions
                          /\ Build(b).body.blockHash = b
                          /\ Build(b).body.nonce = nonce
                          /\ Build(b).builtIn = window
<1> DEFINE body == [blockHash |-> b, nonce |-> nonce,
                    version |-> "V3", bounds |-> "default"]
           unsigned == [body |-> body, signature |-> NoBody, valid |-> FALSE,
                        builtIn |-> window]
<1>1. body \in Bodies
  BY DEF Bodies, Versions, Bounds
<1>2. BuildAttestTransaction(b) = unsigned
  BY DEF BuildAttestTransaction
<1>3. unsigned \in Transactions
  BY <1>1, NoTransactionType DEF Transactions, NoTransaction
<1> HIDE DEF body
<1>4. Sign(unsigned) \in Transactions /\ Sign(unsigned).body = body
      /\ Sign(unsigned).builtIn = window
  BY <1>3, SignType
<1>5. Build(b) = [Sign(unsigned) EXCEPT !.valid = TRUE]
  BY <1>2 DEF Build
<1>6. Build(b) \in Transactions /\ Build(b).body = body /\ Build(b).builtIn = window
  BY <1>4, <1>5 DEF Transactions
<1> QED
  BY <1>6 DEF body

LEMMA WithNonceType == ASSUME NEW t \in Transactions, nonce \in Nat
                       PROVE  /\ WithNonce(t) \in Transactions
                              /\ WithNonce(t).body.nonce = nonce
                              /\ WithNonce(t).body.blockHash = t.body.blockHash
                              /\ WithNonce(t).builtIn = t.builtIn
                              /\ WithNonce(t).valid = t.valid
BY DEF WithNonce, Transactions, Bodies

\* What goes to the gateway is signed over its final contents: the real version
\* and the estimated bounds, with nonce and block hash as they were.
LEMMA ReadyToInvokeType ==
  ASSUME NEW t \in Transactions
  PROVE  LET r == ReadyToInvoke(t)
         IN  /\ r \in Transactions
             /\ r.signature = r.body
             /\ r.body.version = "V3" /\ r.body.bounds = "estimated"
             /\ r.body.nonce = t.body.nonce
             /\ r.body.blockHash = t.body.blockHash
             /\ r.builtIn = t.builtIn
             /\ r.valid = FALSE
<1> DEFINE e == Estimated(t)
           u == [e EXCEPT !.body.bounds = "estimated", !.body.version = "V3"]
<1>1. /\ e \in Transactions /\ e.body.nonce = t.body.nonce
      /\ e.body.blockHash = t.body.blockHash /\ e.builtIn = t.builtIn
      /\ e.valid = FALSE
  <2> DEFINE asked == [t EXCEPT !.valid = FALSE, !.body.version = EstimateVersion]
             signed == IF Braavos THEN Sign(asked) ELSE asked
  <2>1. /\ asked \in Transactions /\ asked.body.nonce = t.body.nonce
        /\ asked.body.blockHash = t.body.blockHash /\ asked.builtIn = t.builtIn
        /\ asked.valid = FALSE
    BY DEF EstimateVersion, Transactions, Bodies, Versions
  <2> HIDE DEF asked
  <2>2. /\ signed \in Transactions /\ signed.body = asked.body
        /\ signed.builtIn = asked.builtIn /\ signed.valid = FALSE
    BY <2>1, SignType
  <2>3. e = [signed EXCEPT !.body.version = "V3"]
    BY DEF Estimated, asked
  <2> HIDE DEF signed, e
  <2> QED
    BY <2>1, <2>2, <2>3 DEF Transactions, Bodies, Versions
<1> HIDE DEF e
<1>2. /\ u \in Transactions /\ u.body.nonce = t.body.nonce
      /\ u.body.blockHash = t.body.blockHash /\ u.builtIn = t.builtIn
      /\ u.body.version = "V3" /\ u.body.bounds = "estimated" /\ u.valid = FALSE
  BY <1>1 DEF Transactions, Bodies, Versions, Bounds
<1>3. ReadyToInvoke(t) = Sign(u)
  BY DEF ReadyToInvoke, e
<1> HIDE DEF u
<1> QED
  BY <1>2, <1>3, SignType

LEMMA SettledType ==
  ASSUME sent \in Seq(Sent), NEW fate \in Fates \ {"open"}
  PROVE  /\ Settled(fate) \in Seq(Sent)
         /\ Len(Settled(fate)) = Len(sent)
         /\ DOMAIN Settled(fate) = DOMAIN sent
         /\ \A i \in DOMAIN sent :
              /\ Settled(fate)[i].transaction = sent[i].transaction
              /\ Settled(fate)[i].fate = IF sent[i].fate = "open" THEN fate ELSE sent[i].fate
<1>1. Len(sent) \in Nat /\ DOMAIN sent = 1..Len(sent)
  BY LenProperties
<1>2. ASSUME NEW i \in DOMAIN sent
      PROVE  /\ Settled(fate)[i] \in Sent
             /\ Settled(fate)[i].transaction = sent[i].transaction
             /\ Settled(fate)[i].fate = IF sent[i].fate = "open" THEN fate ELSE sent[i].fate
  <2>1. sent[i] \in Sent
    BY <1>1, ElementOfSeq
  <2> QED
    BY <2>1 DEF Settled, Sent
<1>3. Settled(fate) \in [1..Len(sent) -> Sent]
  BY <1>1, <1>2 DEF Settled
<1>4. Settled(fate) \in Seq(Sent) /\ Len(Settled(fate)) = Len(sent)
  BY <1>1, <1>3, SeqDef
<1> QED
  BY <1>1, <1>2, <1>3, <1>4

\* A transaction that is followed no more has one of these fates.
Ends == {"reverted", "unanswered", "closed"}
LEMMA EndsAreFates == Ends \subseteq Fates \ {"open"}
BY DEF Ends, Fates
-----------------------------------------------------------------------------
(***************************************************************************)
(* The chain.                                                              *)
(***************************************************************************)

\* A step of the chain keeps its types; transactions keep their places and block hashes,
\* a reverted one stays reverted, the nonce only grows, and the epoch too.
LEMMA ChainStep ==
  ASSUME StarknetTypeOK, StarknetNext
  PROVE  /\ StarknetTypeOK'
         /\ Len(txs') = Len(txs) /\ DOMAIN txs' = DOMAIN txs
         /\ nonce <= nonce' /\ epoch <= epoch'
         /\ \A i \in DOMAIN txs :
              /\ txs'[i].blockHash = txs[i].blockHash
              /\ txs[i].state = "reverted" => txs'[i].state = "reverted"
<1>1. /\ Len(txs) \in Nat /\ DOMAIN txs = 1..Len(txs)
      /\ \A i \in 1..Len(txs) : txs[i] \in Txs
  BY LenProperties, ElementOfSeq DEF StarknetTypeOK
<1>2. ASSUME NEW i \in 1..Len(txs), NEW s \in TxStates,
             txs' = [txs EXCEPT ![i].state = s], txs[i].state = "pending"
      PROVE  /\ txs' \in Seq(Txs)
             /\ Len(txs') = Len(txs) /\ DOMAIN txs' = DOMAIN txs
             /\ \A j \in DOMAIN txs :
                  /\ txs'[j].blockHash = txs[j].blockHash
                  /\ txs[j].state = "reverted" => txs'[j].state = "reverted"
  <2> DEFINE e == [txs[i] EXCEPT !.state = s]
  <2>1. e \in Txs /\ e.blockHash = txs[i].blockHash
    BY <1>1 DEF Txs
  <2>2. txs' = [txs EXCEPT ![i] = e]
    BY <1>2
  <2> HIDE DEF e
  <2>3. /\ txs' \in Seq(Txs) /\ Len(txs') = Len(txs)
        /\ \A j \in 1..Len(txs) : txs'[j] = IF j = i THEN e ELSE txs[j]
    BY <2>1, <2>2, ExceptSeq DEF StarknetTypeOK
  <2>4. DOMAIN txs' = DOMAIN txs
    BY <2>2
  <2> QED
    BY <1>1, <1>2, <2>1, <2>3, <2>4
<1>3. CASE NewEpoch
  BY <1>3, BoundsAssumption DEF NewEpoch, StarknetTypeOK, Epochs
<1>4. CASE ForeignTransaction
  BY <1>4, ConstantTypes DEF ForeignTransaction, StarknetTypeOK
<1>5. ASSUME NEW i \in 1..Len(txs), Accept(i)
      PROVE  /\ StarknetTypeOK'
             /\ Len(txs') = Len(txs) /\ DOMAIN txs' = DOMAIN txs
             /\ nonce <= nonce' /\ epoch <= epoch'
             /\ \A j \in DOMAIN txs :
                  /\ txs'[j].blockHash = txs[j].blockHash
                  /\ txs[j].state = "reverted" => txs'[j].state = "reverted"
  <2>1. /\ txs' = [txs EXCEPT ![i].state = "accepted"]
        /\ attested' = attested \cup {epoch} /\ nonce' = nonce + 1 /\ epoch' = epoch
        /\ txs[i].state = "pending"
    BY <1>5 DEF Accept, Executable
  <2>2. "accepted" \in TxStates
    BY DEF TxStates
  <2>3. /\ txs' \in Seq(Txs)
        /\ Len(txs') = Len(txs) /\ DOMAIN txs' = DOMAIN txs
        /\ \A j \in DOMAIN txs :
             /\ txs'[j].blockHash = txs[j].blockHash
             /\ txs[j].state = "reverted" => txs'[j].state = "reverted"
    BY <1>2, <2>1, <2>2
  <2>4. epoch \in Epochs /\ epoch \in Nat /\ nonce \in Nat
        /\ attested \in SUBSET Epochs
    BY ConstantTypes DEF StarknetTypeOK
  <2>5. nonce <= nonce' /\ nonce' \in Nat /\ epoch <= epoch' /\ epoch' \in Epochs
        /\ attested' \in SUBSET Epochs
    BY <2>1, <2>4
  <2> QED
    BY <2>3, <2>5 DEF StarknetTypeOK
<1>6. ASSUME NEW i \in 1..Len(txs), Revert(i) \/ Drop(i)
      PROVE  /\ StarknetTypeOK'
             /\ Len(txs') = Len(txs) /\ DOMAIN txs' = DOMAIN txs
             /\ nonce <= nonce' /\ epoch <= epoch'
             /\ \A j \in DOMAIN txs :
                  /\ txs'[j].blockHash = txs[j].blockHash
                  /\ txs[j].state = "reverted" => txs'[j].state = "reverted"
  BY <1>2, <1>6, ConstantTypes DEF Revert, Drop, Executable, StarknetTypeOK, TxStates
<1> QED
  BY <1>3, <1>4, <1>5, <1>6 DEF StarknetNext

\* A transaction that lands is the last one, with the nonce and block hash it was
\* signed over.
LEMMA LandStep ==
  ASSUME TypeOK, NEW fate \in Fates, Land(fate)
  PROVE  /\ txs' \in Seq(Txs) /\ Len(txs') = Len(txs) + 1
         /\ sent' \in Seq(Sent) /\ Len(sent') = Len(txs) + 1
         /\ \A i \in 1..Len(txs) : txs'[i] = txs[i] /\ sent'[i] = sent[i]
         /\ txs'[Len(txs) + 1].blockHash = transaction.body.blockHash
         /\ txs'[Len(txs) + 1].state = "pending"
         /\ sent'[Len(txs) + 1] = [transaction |-> transaction, fate |-> fate]
<1> DEFINE tx == [nonce |-> transaction.body.nonce,
                  blockHash |-> transaction.body.blockHash, state |-> "pending"]
           st == [transaction |-> transaction, fate |-> fate]
<1>1. tx \in Txs
  BY DEF TypeOK, Transactions, Bodies, Txs, TxStates
<1>2. st \in Sent
  BY ConstantTypes DEF TypeOK, SenderTypeOK, Sent
<1>3. txs' = Append(txs, tx) /\ sent' = Append(sent, st)
  BY DEF Land, AddInvokeTransaction
<1>4. txs \in Seq(Txs) /\ sent \in Seq(Sent) /\ Len(sent) = Len(txs)
  BY DEF TypeOK, StarknetTypeOK
<1> HIDE DEF tx, st
<1>5. /\ txs' \in Seq(Txs) /\ Len(txs') = Len(txs) + 1
      /\ \A i \in 1..Len(txs) : txs'[i] = txs[i]
      /\ txs'[Len(txs) + 1] = tx
  BY <1>1, <1>3, <1>4, AppendProperties
<1>6. /\ sent' \in Seq(Sent) /\ Len(sent') = Len(sent) + 1
      /\ \A i \in 1..Len(sent) : sent'[i] = sent[i]
      /\ sent'[Len(sent) + 1] = st
  BY <1>2, <1>3, <1>4, AppendProperties
<1> QED
  BY <1>4, <1>5, <1>6 DEF tx, st
-----------------------------------------------------------------------------
(***************************************************************************)
(* Type correctness.                                                       *)
(***************************************************************************)

\* What a conjunct of TypeOK says, in the form the steps below use.
LEMMA TypeFacts ==
  ASSUME TypeOK
  PROVE  /\ nonce \in Nat /\ window \in Nat /\ epoch \in Epochs /\ epoch \in Nat
         /\ Len(txs) \in Nat /\ DOMAIN txs = 1..Len(txs) /\ DOMAIN sent = 1..Len(txs)
         /\ \A i \in 1..Len(txs) : txs[i] \in Txs /\ sent[i] \in Sent
BY ConstantTypes, LenProperties, ElementOfSeq
   DEF TypeOK, StarknetTypeOK, SenderTypeOK

LEMMA TrackAttestType ==
  ASSUME TypeOK, NEW reply \in TransactionStatus(hash)
  PROVE  /\ reply \in {"error", "notFound", "waiting", "succeeded", "reverted"}
         /\ TrackAttest(reply) \in {"Ongoing", "Successful", "Failed"}
         /\ TrackAttest(reply) = "Failed" <=> reply \in {"error", "reverted"}
         /\ TrackAttest(reply) = "Successful" =>
              hash \in DOMAIN txs /\ txs[hash].state = "accepted"
<1>1. hash = NoHash \/ (hash \in DOMAIN txs /\ txs[hash].state \in TxStates)
  BY TypeFacts DEF TypeOK, Txs
<1>2. CASE hash = NoHash
  BY <1>2 DEF TransactionStatus, TrackAttest
<1>3. CASE hash # NoHash /\ txs[hash].state \in TxStates
  BY <1>1, <1>3 DEF TransactionStatus, TrackAttest, TxStates
<1> QED
  BY <1>1, <1>2, <1>3

LEMMA TypeStep == TypeOK /\ [Next]_vars => TypeOK'
<1> SUFFICES ASSUME TypeOK, [Next]_vars PROVE TypeOK'
  OBVIOUS
<1> USE DEF sender, metrics, tracker, chain
<1> USE TypeFacts, ConstantTypes
<1>1. CASE PrepareBuild
  <2>1. transaction' \in Transactions
    BY <1>1, BuildType, NoTransactionType DEF PrepareBuild, TypeOK
  <2> QED
    BY <1>1, <2>1 DEF PrepareBuild, TypeOK, StarknetTypeOK, SenderTypeOK
<1>2. CASE Track
  <2>1. PICK reply \in TransactionStatus(hash) :
          /\ hash' = HashAfter(TrackAttest(reply))
          /\ IF TrackAttest(reply) = "Failed"
             THEN StartAttest
             ELSE status' = TrackAttest(reply) /\ pc' = "select"
          /\ sent' = sent \/ \E fate \in Ends : sent' = Settled(fate)
    BY <1>2, TrackAttestType DEF Track, Ends
  <2>2. TrackAttest(reply) \in {"Ongoing", "Successful", "Failed"}
    BY TrackAttestType
  <2>3. status' \in Statuses /\ pc' \in Calls \cup {"select", "returned"}
    BY <2>1, <2>2 DEF StartAttest, Statuses, Calls
  <2>4. hash' \in {NoHash, hash}
    BY <2>1 DEF HashAfter
  <2>5. sent' \in Seq(Sent) /\ Len(sent') = Len(sent)
    BY <2>1, SettledType, EndsAreFates DEF TypeOK
  <2> QED
    BY <1>2, <2>3, <2>4, <2>5 DEF Track, TypeOK, StarknetTypeOK, SenderTypeOK
<1>3. CASE DoBuild
  <2>1. transaction' \in Transactions
    BY <1>3, BuildType, NoTransactionType DEF DoBuild, TypeOK
  <2> QED
    BY <1>3, <2>1 DEF DoBuild, TypeOK, StarknetTypeOK, SenderTypeOK, Calls
<1>4. CASE UpdateNonce
  <2>1. WithNonce(transaction) \in Transactions
    BY WithNonceType DEF TypeOK
  <2>2. Sign(WithNonce(transaction)) \in Transactions
    BY <2>1, SignType
  <2>3. transaction' \in Transactions
    BY <1>4, <2>1, <2>2 DEF UpdateNonce, TypeOK
  <2> QED
    BY <1>4, <2>3 DEF UpdateNonce, TypeOK, StarknetTypeOK, SenderTypeOK, Calls
<1>5. CASE Estimate
  <2>1. transaction' \in Transactions
    BY <1>5, ReadyToInvokeType, NoTransactionType DEF Estimate, TypeOK
  <2>2. /\ status' \in Statuses /\ hash' \in {NoHash, hash}
        /\ pc' \in Calls \cup {"select", "returned"} /\ misled' \in SUBSET Nat
    BY <1>5 DEF Estimate, SetStatus, HashAfter, Statuses, Calls, TypeOK
  <2> QED
    BY <1>5, <2>1, <2>2 DEF Estimate, TypeOK, StarknetTypeOK, SenderTypeOK
<1>6. CASE Invoke
  <2>1. CASE Land("open") /\ hash' = Len(txs) + 1 /\ submitted' = submitted + 1
             /\ UNCHANGED status
    <3>1. /\ txs' \in Seq(Txs) /\ Len(txs') = Len(txs) + 1
          /\ sent' \in Seq(Sent) /\ Len(sent') = Len(txs) + 1
      BY <2>1, LandStep DEF Fates
    <3>2. DOMAIN txs' = 1..Len(txs')
      BY <3>1, LenProperties
    <3> QED
      BY <1>6, <2>1, <3>1, <3>2, NoTransactionType
         DEF Invoke, TypeOK, StarknetTypeOK, SenderTypeOK
  <2>2. CASE (Land("unacknowledged") \/ UNCHANGED <<txs, sent>>)
             /\ SetStatus("Failed") /\ UNCHANGED submitted
    <3>1. txs' \in Seq(Txs) /\ sent' \in Seq(Sent) /\ Len(sent') = Len(txs')
      BY <2>2, LandStep DEF Fates, TypeOK, StarknetTypeOK
    <3> QED
      BY <1>6, <2>2, <3>1, NoTransactionType
         DEF Invoke, SetStatus, HashAfter, Statuses, TypeOK, StarknetTypeOK, SenderTypeOK
  <2> QED
    BY <1>6, <2>1, <2>2 DEF Invoke
<1>7. ASSUME NEW s, NEW w \in Nat, CloseWindow(s, w)
      PROVE  /\ pc' = "select" /\ status' \in Statuses /\ hash' = NoHash
             /\ transaction' \in Transactions
             /\ confirmed' \in SUBSET Nat /\ failed' \in SUBSET Nat
             /\ sent' \in Seq(Sent) /\ Len(sent') = Len(sent)
  <2>1. "closed" \in Fates \ {"open"}
    BY DEF Fates
  <2>2. sent' \in Seq(Sent) /\ Len(sent') = Len(sent)
    BY <1>7, <2>1, SettledType DEF CloseWindow, TypeOK
  <2> QED
    BY <1>7, <2>2, NoTransactionType DEF CloseWindow, NewAttestTracker, Statuses, TypeOK
<1>8. CASE EndTrack
  <2>1. PICK reply \in TransactionStatus(hash) : CloseWindow(TrackAttest(reply), window)
    BY <1>8 DEF EndTrack
  <2> QED
    BY <1>7, <1>8, <2>1 DEF EndTrack, TypeOK, StarknetTypeOK, SenderTypeOK
<1>9. CASE ReceiveClosed
  BY <1>9 DEF ReceiveClosed, TypeOK, StarknetTypeOK, SenderTypeOK
<1>10. CASE Close
  BY <1>10 DEF Close, TypeOK, StarknetTypeOK, SenderTypeOK
<1>11. CASE AttestElsewhere
  BY <1>11 DEF AttestElsewhere, TypeOK, StarknetTypeOK, SenderTypeOK
<1>12. CASE Chain
  BY <1>12, ChainStep DEF Chain, TypeOK, SenderTypeOK
<1>13. ASSUME NEW w \in 1..epoch
       PROVE  w \in Epochs /\ EventHashes(w) \subseteq BlockHashes
  BY DEF Epochs, EventHashes, BlockHashes
<1>14. ASSUME NEW w \in 1..epoch, OfferPrepare(w) \/ OfferDo(w) \/ OfferEndOfWindow(w)
       PROVE  SenderTypeOK'
  BY <1>13, <1>14
     DEF OfferPrepare, OfferDo, OfferEndOfWindow, Offer, SenderTypeOK, Stages
<1>15. ASSUME NEW w \in 1..epoch, NEW b \in EventHashes(w), ReceivePrepare(w, b)
       PROVE  TypeOK'
  BY <1>13, <1>14, <1>15 DEF ReceivePrepare, TypeOK, StarknetTypeOK, Calls
<1>16. ASSUME NEW w \in 1..epoch, NEW b \in EventHashes(w), ReceiveDo(w, b)
       PROVE  TypeOK'
  BY <1>13, <1>14, <1>16
     DEF ReceiveDo, StartAttest, TypeOK, StarknetTypeOK, Calls, Statuses
<1>17. ASSUME NEW w \in 1..epoch, ReceiveEndOfWindow(w)
       PROVE  TypeOK'
  <2>1. CASE status = "Successful"
    BY <1>7, <1>13, <1>14, <1>17, <2>1 DEF ReceiveEndOfWindow, TypeOK, StarknetTypeOK
  <2>2. CASE status # "Successful"
    BY <1>14, <1>17, <2>2 DEF ReceiveEndOfWindow, TypeOK, StarknetTypeOK, Calls
  <2> QED
    BY <2>1, <2>2
<1>18. CASE UNCHANGED vars
  BY <1>18 DEF vars, TypeOK, StarknetTypeOK, SenderTypeOK
<1> QED
  BY <1>1, <1>2, <1>3, <1>4, <1>5, <1>6, <1>8, <1>9, <1>10, <1>11, <1>12, <1>15, <1>16,
     <1>17, <1>18 DEF Next, Dispatch, Events

LEMMA TypeInit == Init => TypeOK
<1> SUFFICES ASSUME Init PROVE TypeOK
  OBVIOUS
<1>1. txs = <<>> /\ sent = <<>> /\ <<>> \in Seq(Txs) /\ <<>> \in Seq(Sent)
  BY EmptySeq DEF Init, StarknetInit
<1>2. StarknetTypeOK /\ SenderTypeOK
  BY <1>1, ConstantTypes
     DEF Init, StarknetInit, StarknetTypeOK, SenderInit, SenderTypeOK, Stages
<1> QED
  BY <1>1, <1>2, NoTransactionType DEF Init, TypeOK, Statuses, BlockHashes, ZeroHash

\* Every reachable state has its types: a status is always one setStatus knows,
\* and the tracker never holds a hash of no transaction.
THEOREM TypeCorrect == Spec => []TypeOK
BY TypeInit, TypeStep, PTL DEF Spec
-----------------------------------------------------------------------------
(***************************************************************************)
(* The inductive invariant, in parts.  Control and Followed hold for every *)
(* sender; so do Signing and Nonces.  Windowed and Counted need a sender   *)
(* that closes every window it opens.                                      *)
(***************************************************************************)

\* From the start of an attempt to the gateway's answer there is no transaction
\* to follow; a status that allows an attempt has none either.
Control ==
  /\ pc \in {"doBuild", "updateNonce", "estimate", "invoke"} =>
       status = "Ongoing" /\ hash = NoHash
  /\ pc = "updateNonce" => transaction.valid
  /\ pc = "track" => status = "Ongoing"
  /\ pc = "endTrack" => status # "Successful"
  /\ status \in {"Iddle", "Failed"} => hash = NoHash

\* The only open transaction is the one the tracker has the hash of; it is the last that was
\* acknowledged.  The node does not take back that a transaction was reverted.
Followed == \A i \in DOMAIN sent :
  /\ sent[i].fate = "open" => i = hash
  /\ hash # NoHash /\ sent[i].fate # "unacknowledged" => i <= hash
  /\ sent[i].fate = "reverted" => txs[i].state = "reverted"

\* The transaction at the gateway's door is signed as it is.
Signing == /\ pc = "invoke" => /\ transaction.signature = transaction.body
                               /\ transaction.body.version = "V3"
                               /\ transaction.body.bounds = "estimated"
           /\ SignedAsSent

\* The account's nonce only grows, so one looked up since the Do event is fresh.
Nonces == nonceAtDo <= nonce /\ NonceIsFresh

\* Whatever the tracker holds belongs to the window of the last event, and nothing
\* is left once that window is closed.
Windowed ==
  /\ window <= epoch
  /\ pc \in {"prepareBuild", "track", "doBuild", "updateNonce", "estimate", "invoke"} =>
       attest \in EventHashes(window) /\ stage # "over"
  /\ transaction.valid \/ pc \in {"estimate", "invoke"} =>
       /\ transaction.body.blockHash \in EventHashes(window)
       /\ transaction.builtIn = window
  /\ hash # NoHash => txs[hash].blockHash \in EventHashes(window)
  /\ stage = "over" /\ pc # "endTrack" =>
       status = "Iddle" /\ hash = NoHash /\ ~transaction.valid
  /\ pc = "endTrack" => stage = "over"

\* The chain holds an attestation for every transaction it accepted, and a window is misled
\* only by an answer about a later epoch.
Attested == /\ \A i \in DOMAIN txs : txs[i].state = "accepted" => txs[i].blockHash \in attested
            /\ \A w \in misled : w < epoch
            /\ SuccessIsAttested

\* A window is counted once, when it is closed.
Counted ==
  /\ ConfirmedIsAttested
  /\ confirmed \cup failed \subseteq 0..window
  /\ stage # "over" \/ pc = "endTrack" => window \notin confirmed \cup failed
-----------------------------------------------------------------------------
(***************************************************************************)
(* One transaction in flight.                                              *)
(***************************************************************************)
LEMMA ControlStep == TypeOK /\ Control /\ [Next]_vars => Control'
<1> SUFFICES ASSUME TypeOK, Control, [Next]_vars PROVE Control'
  OBVIOUS
<1> USE DEF sender, metrics, tracker, chain
<1>1. CASE PrepareBuild
  BY <1>1 DEF PrepareBuild, Control
<1>2. CASE Track
  <2>1. PICK reply \in TransactionStatus(hash) :
          /\ hash' = HashAfter(TrackAttest(reply))
          /\ IF TrackAttest(reply) = "Failed"
             THEN StartAttest
             ELSE status' = TrackAttest(reply) /\ pc' = "select"
    BY <1>2 DEF Track
  <2>2. TrackAttest(reply) \in {"Ongoing", "Successful", "Failed"}
    BY TrackAttestType
  <2>3. transaction' = transaction
    BY <1>2 DEF Track
  <2> QED
    BY <2>1, <2>2, <2>3 DEF StartAttest, HashAfter, Control
<1>3. CASE DoBuild
  BY <1>3 DEF DoBuild, Control
<1>4. CASE UpdateNonce
  BY <1>4 DEF UpdateNonce, Control
<1>5. CASE Estimate
  BY <1>5 DEF Estimate, SetStatus, HashAfter, Control
<1>6. CASE Invoke
  BY <1>6 DEF Invoke, SetStatus, HashAfter, Control
<1>7. ASSUME NEW s, NEW w, CloseWindow(s, w)
      PROVE  Control'
  BY <1>7 DEF CloseWindow, NewAttestTracker, Control
<1>8. CASE EndTrack
  BY <1>7, <1>8 DEF EndTrack
<1>9. CASE ReceiveClosed
  BY <1>9 DEF ReceiveClosed, Control
<1>10. CASE Close
  BY <1>10 DEF Close, Control
<1>11. CASE AttestElsewhere
  BY <1>11 DEF AttestElsewhere, Control
<1>12. CASE Chain
  BY <1>12 DEF Chain, Control
<1>13. ASSUME NEW w, NEW b, ReceivePrepare(w, b)
       PROVE  Control'
  BY <1>13 DEF ReceivePrepare, Control
<1>14. ASSUME NEW w, NEW b, ReceiveDo(w, b)
       PROVE  Control'
  BY <1>14 DEF ReceiveDo, StartAttest, Control
<1>15. ASSUME NEW w, ReceiveEndOfWindow(w)
       PROVE  Control'
  BY <1>7, <1>15 DEF ReceiveEndOfWindow, Control
<1>16. CASE UNCHANGED vars
  BY <1>16 DEF vars, Control
<1> QED
  BY <1>1, <1>2, <1>3, <1>4, <1>5, <1>6, <1>8, <1>9, <1>10, <1>11, <1>12, <1>13, <1>14,
     <1>15, <1>16 DEF Next, Dispatch, Events

\* The chain keeps the transactions that are followed, and those that are not.
LEMMA FollowedKept ==
  ASSUME TypeOK, Followed, UNCHANGED <<hash, sent>>,
         \/ UNCHANGED txs
         \/ \A i \in DOMAIN txs : txs[i].state = "reverted" => txs'[i].state = "reverted"
  PROVE  Followed'
BY TypeFacts DEF Followed

\* Following no more is a step of its own, with or without forgetting the hash.
LEMMA FollowedSettled ==
  ASSUME TypeOK, Followed, NEW fate \in Ends, sent' = Settled(fate), hash' = NoHash,
         UNCHANGED txs, fate = "reverted" /\ hash # NoHash => txs[hash].state = "reverted"
  PROVE  Followed'
<1>1. /\ DOMAIN sent' = DOMAIN sent /\ DOMAIN sent = 1..Len(txs) /\ Len(txs) \in Nat
      /\ \A i \in DOMAIN sent :
           sent'[i].fate = IF sent[i].fate = "open" THEN fate ELSE sent[i].fate
  BY SettledType, EndsAreFates, TypeFacts DEF TypeOK
<1>2. fate # "open"
  BY DEF Ends
<1> QED
  BY <1>1, <1>2 DEF Followed, NoHash

\* The step that matters is Invoke: a new transaction becomes the followed one, and
\* by Control there was none.
LEMMA FollowedStep ==
  TypeOK /\ Control /\ Followed /\ [Next]_vars => Followed'
<1> SUFFICES ASSUME TypeOK, Control, Followed, [Next]_vars PROVE Followed'
  OBVIOUS
<1> USE DEF sender, metrics, tracker, chain
<1>1. CASE UNCHANGED <<hash, sent, txs>>
  BY <1>1, FollowedKept
<1>2. CASE Track
  <2>1. PICK reply \in TransactionStatus(hash) :
          /\ hash' = HashAfter(TrackAttest(reply))
          /\ sent' = CASE reply = "error"                     -> Settled("unanswered")
                        [] reply = "reverted"                  -> Settled("reverted")
                        [] reply \notin {"error", "reverted"} -> sent
    BY <1>2 DEF Track
  <2>2. TrackAttest(reply) = "Failed" <=> reply \in {"error", "reverted"}
    BY TrackAttestType
  <2>3. UNCHANGED txs
    BY <1>2 DEF Track
  <2>4. CASE reply = "error"
    BY <2>1, <2>2, <2>3, <2>4, FollowedSettled DEF HashAfter, Ends
  <2>5. CASE reply = "reverted"
    <3>1. hash = NoHash \/ (hash \in DOMAIN txs /\ txs[hash].state \in TxStates)
      BY TypeFacts DEF TypeOK, Txs
    <3>2. hash # NoHash => txs[hash].state = "reverted"
      BY <2>5, <3>1 DEF TransactionStatus, TxStates
    <3> QED
      BY <2>1, <2>2, <2>3, <2>5, <3>2, FollowedSettled DEF HashAfter, Ends
  <2>6. CASE reply \notin {"error", "reverted"}
    BY <1>1, <2>1, <2>2, <2>3, <2>6 DEF HashAfter
  <2> QED
    BY <2>4, <2>5, <2>6
<1>3. CASE Estimate
  BY <1>1, <1>3 DEF Estimate, SetStatus, HashAfter, Control
<1>4. CASE Invoke
  <2>1. hash = NoHash /\ DOMAIN sent = 1..Len(txs) /\ Len(txs) \in Nat
    BY <1>4, TypeFacts DEF Invoke, Control
  <2>2. \A i \in 1..Len(txs) : /\ sent[i].fate # "open"
                               /\ sent[i].fate = "reverted" => txs[i].state = "reverted"
    BY <2>1 DEF Followed, NoHash
  <2>3. ASSUME NEW fate \in Fates, Land(fate)
        PROVE  /\ DOMAIN sent' = 1..(Len(txs) + 1)
               /\ \A i \in 1..Len(txs) : sent'[i] = sent[i] /\ txs'[i] = txs[i]
               /\ sent'[Len(txs) + 1].fate = fate
    <3>1. /\ sent' \in Seq(Sent) /\ Len(sent') = Len(txs) + 1
          /\ \A i \in 1..Len(txs) : txs'[i] = txs[i] /\ sent'[i] = sent[i]
          /\ sent'[Len(txs) + 1] = [transaction |-> transaction, fate |-> fate]
      BY <2>3, LandStep
    <3>2. DOMAIN sent' = 1..(Len(txs) + 1)
      BY <3>1, LenProperties
    <3> QED
      BY <3>1, <3>2
  <2>4. CASE Land("open") /\ hash' = Len(txs) + 1
    BY <2>1, <2>2, <2>3, <2>4 DEF Followed, Fates
  <2>5. CASE Land("unacknowledged") /\ hash' = NoHash
    BY <2>1, <2>2, <2>3, <2>5 DEF Followed, Fates
  <2>6. CASE UNCHANGED <<txs, sent>> /\ hash' = NoHash
    BY <1>1, <2>1, <2>6
  <2> QED
    BY <1>4, <2>4, <2>5, <2>6 DEF Invoke, SetStatus, HashAfter
<1>5. CASE PrepareBuild \/ DoBuild \/ UpdateNonce \/ ReceiveClosed \/ Close
           \/ AttestElsewhere \/ UNCHANGED vars
  BY <1>1, <1>5
     DEF PrepareBuild, DoBuild, UpdateNonce, ReceiveClosed, Close, AttestElsewhere, vars
<1>6. CASE Chain
  BY <1>6, ChainStep, FollowedKept DEF Chain, TypeOK
<1>7. ASSUME NEW s, NEW w, CloseWindow(s, w), UNCHANGED txs
      PROVE  Followed'
  BY <1>7, FollowedSettled DEF CloseWindow, NewAttestTracker, Ends
<1>8. CASE EndTrack
  BY <1>7, <1>8 DEF EndTrack
<1>9. CASE Events
  BY <1>1, <1>7, <1>9 DEF Events, ReceivePrepare, ReceiveDo, ReceiveEndOfWindow
<1> QED
  BY <1>2, <1>3, <1>4, <1>5, <1>6, <1>8, <1>9 DEF Next, Dispatch

\* Two acknowledged transactions are in the mempool together only if the dispatcher gave
\* the earlier one up (dispatcher.go:307, or the end of its window), for every number of
\* epochs and transactions and every feed.
THEOREM OneInFlightAlways == Spec => []OneInFlight
<1>1. Init => Control /\ Followed
  BY DEF Init, Control, Followed
<1>2. TypeOK /\ Followed => OneInFlight
  <2> SUFFICES ASSUME TypeOK, Followed,
                      NEW i \in DOMAIN sent, NEW j \in DOMAIN sent,
                      InFlight(i), InFlight(j), i < j
               PROVE  GivenUp(i)
    BY DEF OneInFlight
  <2>1. i \in Nat /\ j \in Nat /\ sent[i].fate \in Fates
    BY TypeFacts DEF Sent
  <2>2. sent[i].fate # "reverted" /\ sent[i].fate # "unacknowledged"
    BY DEF InFlight, Followed
  <2>3. sent[i].fate # "open"
    <3> SUFFICES ASSUME sent[i].fate = "open" PROVE FALSE
      OBVIOUS
    <3>1. i = hash /\ hash # NoHash
      BY TypeFacts DEF Followed, NoHash
    <3>2. j <= hash
      BY <3>1 DEF InFlight, Followed
    <3> QED
      BY <2>1, <3>1, <3>2
  <2> QED
    BY <2>1, <2>2, <2>3 DEF Fates, GivenUp
<1> QED
  BY <1>1, <1>2, TypeInit, TypeStep, ControlStep, FollowedStep, PTL DEF Spec
-----------------------------------------------------------------------------
(***************************************************************************)
(* What is sent.                                                           *)
(***************************************************************************)

\* A property of what was sent survives every step that only follows it up, and
\* sending, if the transaction at hand has it.
LEMMA SentStep ==
  ASSUME TypeOK, [Next]_vars
  PROVE  \/ /\ DOMAIN sent' = DOMAIN sent
            /\ \A i \in DOMAIN sent : sent'[i].transaction = sent[i].transaction
         \/ /\ pc = "invoke"
            /\ DOMAIN sent' = DOMAIN sent \cup {Len(txs) + 1}
            /\ \A i \in DOMAIN sent : sent'[i] = sent[i]
            /\ sent'[Len(txs) + 1].transaction = transaction
<1> USE DEF sender, metrics, tracker, chain
<1> DEFINE Kept == /\ DOMAIN sent' = DOMAIN sent
                   /\ \A i \in DOMAIN sent : sent'[i].transaction = sent[i].transaction
           Added == /\ DOMAIN sent' = DOMAIN sent \cup {Len(txs) + 1}
                    /\ \A i \in DOMAIN sent : sent'[i] = sent[i]
                    /\ sent'[Len(txs) + 1].transaction = transaction
<1>1. CASE sent' = sent
  BY <1>1
<1>2. ASSUME NEW fate \in Ends, sent' = Settled(fate)
      PROVE  Kept
  BY <1>2, SettledType, EndsAreFates DEF TypeOK
<1>3. ASSUME NEW fate \in Fates, Land(fate)
      PROVE  Added
  <2>1. /\ sent' \in Seq(Sent) /\ Len(sent') = Len(txs) + 1
        /\ \A i \in 1..Len(txs) : sent'[i] = sent[i]
        /\ sent'[Len(txs) + 1] = [transaction |-> transaction, fate |-> fate]
    BY <1>3, LandStep
  <2>2. DOMAIN sent' = 1..(Len(txs) + 1) /\ DOMAIN sent = 1..Len(txs)
        /\ Len(txs) \in Nat
    BY <2>1, LenProperties, TypeFacts
  <2> QED
    BY <2>1, <2>2
<1>4. CASE Invoke
  BY <1>1, <1>3, <1>4 DEF Invoke, Fates
<1>5. CASE Track \/ EndTrack
  BY <1>1, <1>2, <1>5 DEF Track, EndTrack, CloseWindow, Ends
<1>6. CASE PrepareBuild \/ DoBuild \/ UpdateNonce \/ Estimate \/ ReceiveClosed \/ Close
           \/ AttestElsewhere \/ Chain \/ UNCHANGED vars
  BY <1>1, <1>6
     DEF PrepareBuild, DoBuild, UpdateNonce, Estimate, ReceiveClosed, Close,
         AttestElsewhere, Chain, vars
<1>7. CASE Events
  BY <1>1, <1>2, <1>7
     DEF Events, ReceivePrepare, ReceiveDo, ReceiveEndOfWindow, CloseWindow, Ends
<1> QED
  BY <1>4, <1>5, <1>6, <1>7 DEF Next, Dispatch

\* Where the dispatcher gets to the gateway from, and where the transaction that is
\* sent was made.
LEMMA ToInvoke ==
  ASSUME [Next]_vars, pc' = "invoke"
  PROVE  \/ pc = "invoke" /\ UNCHANGED <<transaction, nonceAtDo, window>>
         \/ /\ pc = "estimate"
            /\ transaction' = ReadyToInvoke(transaction)
            /\ UNCHANGED <<nonceAtDo, window>>
<1> USE DEF sender, metrics, tracker, chain
<1>1. CASE Estimate
  BY <1>1 DEF Estimate
<1>2. CASE Close \/ AttestElsewhere \/ Chain \/ UNCHANGED vars
  BY <1>2 DEF Close, AttestElsewhere, Chain, vars
<1>3. CASE PrepareBuild \/ DoBuild \/ UpdateNonce \/ ReceiveClosed \/ Invoke \/ EndTrack
  BY <1>3 DEF PrepareBuild, DoBuild, UpdateNonce, ReceiveClosed, Invoke, EndTrack,
              CloseWindow
<1>4. CASE Track
  <2>1. PICK reply \in TransactionStatus(hash) :
          IF TrackAttest(reply) = "Failed"
          THEN StartAttest
          ELSE status' = TrackAttest(reply) /\ pc' = "select"
    BY <1>4 DEF Track
  <2> QED
    BY <2>1 DEF StartAttest
<1>5. CASE Events
  BY <1>5 DEF Events, ReceivePrepare, ReceiveDo, StartAttest, ReceiveEndOfWindow,
              CloseWindow
<1> QED
  BY <1>1, <1>2, <1>3, <1>4, <1>5 DEF Next, Dispatch

LEMMA SigningStep == TypeOK /\ Signing /\ [Next]_vars => Signing'
<1> SUFFICES ASSUME TypeOK, Signing, [Next]_vars PROVE Signing'
  OBVIOUS
<1>1. pc' = "invoke" => /\ transaction'.signature = transaction'.body
                        /\ transaction'.body.version = "V3"
                        /\ transaction'.body.bounds = "estimated"
  <2> SUFFICES ASSUME pc' = "invoke"
               PROVE  /\ transaction'.signature = transaction'.body
                      /\ transaction'.body.version = "V3"
                      /\ transaction'.body.bounds = "estimated"
    OBVIOUS
  <2>1. CASE pc = "invoke" /\ UNCHANGED transaction
    BY <2>1 DEF Signing
  <2>2. CASE transaction' = ReadyToInvoke(transaction)
    BY <2>2, ReadyToInvokeType DEF TypeOK
  <2> QED
    BY <2>1, <2>2, ToInvoke
<1>2. SignedAsSent'
  <2>1. CASE /\ DOMAIN sent' = DOMAIN sent
             /\ \A i \in DOMAIN sent : sent'[i].transaction = sent[i].transaction
    BY <2>1 DEF Signing, SignedAsSent
  <2>2. CASE /\ pc = "invoke"
             /\ DOMAIN sent' = DOMAIN sent \cup {Len(txs) + 1}
             /\ \A i \in DOMAIN sent : sent'[i] = sent[i]
             /\ sent'[Len(txs) + 1].transaction = transaction
    BY <2>2 DEF Signing, SignedAsSent
  <2> QED
    BY <2>1, <2>2, SentStep
<1> QED
  BY <1>1, <1>2 DEF Signing

\* Every transaction that reaches the mempool carries a signature over its final
\* contents, for Braavos accounts too, whose fee estimates are signed differently.
THEOREM SignedAlways == Spec => []SignedAsSent
<1>1. Init => Signing
  BY DEF Init, Signing, SignedAsSent
<1>2. Signing => SignedAsSent
  BY DEF Signing
<1> QED
  BY <1>1, <1>2, TypeInit, TypeStep, SigningStep, PTL DEF Spec

\* Where the dispatcher gets to the fee estimate from: a transaction just built, or
\* a prepared one with the nonce looked up again.
LEMMA ToEstimate ==
  ASSUME TypeOK, [Next]_vars, pc' = "estimate"
  PROVE  \/ pc = "estimate" /\ UNCHANGED <<transaction, nonceAtDo, window, attest>>
         \/ /\ pc = "doBuild" /\ transaction' = Build(attest)
            /\ UNCHANGED <<nonce, nonceAtDo, window, attest>>
         \/ /\ pc = "updateNonce"
            /\ transaction' \in Transactions
            /\ transaction'.body.nonce = nonce
            /\ transaction'.body.blockHash = transaction.body.blockHash
            /\ transaction'.builtIn = transaction.builtIn
            /\ UNCHANGED <<nonce, nonceAtDo, window, attest>>
<1> USE DEF sender, metrics, tracker, chain
<1>1. CASE DoBuild
  BY <1>1 DEF DoBuild
<1>2. CASE UpdateNonce
  <2> DEFINE t == WithNonce(transaction)
  <2>1. nonce \in Nat /\ transaction \in Transactions
    BY TypeFacts DEF TypeOK
  <2>2. /\ t \in Transactions /\ t.body.nonce = nonce
        /\ t.body.blockHash = transaction.body.blockHash
        /\ t.builtIn = transaction.builtIn
    BY <2>1, WithNonceType
  <2>3. Sign(t) \in Transactions /\ Sign(t).body = t.body /\ Sign(t).builtIn = t.builtIn
    BY <2>2, SignType
  <2>4. /\ pc = "updateNonce" /\ UNCHANGED <<nonce, nonceAtDo, window, attest>>
        /\ \/ transaction.body.nonce = nonce /\ UNCHANGED transaction
           \/ transaction' = Sign(t)
    BY <1>2 DEF UpdateNonce
  <2> HIDE DEF t
  <2> QED
    BY <2>1, <2>2, <2>3, <2>4
<1>3. CASE Close \/ AttestElsewhere \/ Chain \/ UNCHANGED vars
  BY <1>3 DEF Close, AttestElsewhere, Chain, vars
<1>4. CASE PrepareBuild \/ Estimate \/ ReceiveClosed \/ Invoke \/ EndTrack
  BY <1>4 DEF PrepareBuild, Estimate, ReceiveClosed, Invoke, EndTrack, CloseWindow
<1>5. CASE Track
  <2>1. PICK reply \in TransactionStatus(hash) :
          IF TrackAttest(reply) = "Failed"
          THEN StartAttest
          ELSE status' = TrackAttest(reply) /\ pc' = "select"
    BY <1>5 DEF Track
  <2> QED
    BY <2>1 DEF StartAttest
<1>6. CASE Events
  BY <1>6 DEF Events, ReceivePrepare, ReceiveDo, StartAttest, ReceiveEndOfWindow,
              CloseWindow
<1> QED
  BY <1>1, <1>2, <1>3, <1>4, <1>5, <1>6 DEF Next, Dispatch

\* The account's nonce only grows, and a Do event notes its value.
LEMMA NonceStep ==
  ASSUME TypeOK, [Next]_vars
  PROVE  /\ nonce' \in Nat /\ nonce <= nonce'
         /\ nonceAtDo' = nonceAtDo \/ (nonceAtDo' = nonce /\ nonce' = nonce)
<1> USE DEF sender, metrics, tracker, chain
<1> USE TypeFacts
<1>1. CASE Dispatch
  BY <1>1 DEF Dispatch, PrepareBuild, Track, DoBuild, UpdateNonce, Estimate, Invoke,
              EndTrack, ReceiveClosed
<1>2. CASE Events
  BY <1>2 DEF Events, ReceivePrepare, ReceiveDo, ReceiveEndOfWindow
<1>3. CASE Close \/ UNCHANGED vars
  BY <1>3 DEF Close, vars
<1>4. CASE AttestElsewhere
  BY <1>4 DEF AttestElsewhere
<1>5. CASE Chain
  BY <1>5, ChainStep DEF Chain, TypeOK, StarknetTypeOK
<1> QED
  BY <1>1, <1>2, <1>3, <1>4, <1>5 DEF Next

LEMMA NoncesStep == TypeOK /\ Nonces /\ [Next]_vars => Nonces'
<1> SUFFICES ASSUME TypeOK, Nonces, [Next]_vars PROVE Nonces'
  OBVIOUS
<1>1. nonceAtDo \in Nat /\ nonce \in Nat /\ transaction \in Transactions
      /\ transaction.body.nonce \in Nat
  BY TypeFacts DEF TypeOK, Transactions, Bodies
<1>2. nonceAtDo' <= nonce'
  BY <1>1, NonceStep DEF Nonces, NonceIsFresh
<1>3. pc' = "estimate" => nonceAtDo' <= transaction'.body.nonce
  <2> SUFFICES ASSUME pc' = "estimate"
               PROVE  nonceAtDo' <= transaction'.body.nonce
    OBVIOUS
  <2>1. CASE pc = "estimate" /\ UNCHANGED <<transaction, nonceAtDo>>
    BY <2>1 DEF Nonces, NonceIsFresh
  <2>2. CASE transaction' = Build(attest) /\ UNCHANGED nonceAtDo
    BY <1>1, <2>2, BuildType, TypeFacts DEF Nonces, NonceIsFresh, TypeOK
  <2>3. CASE transaction'.body.nonce = nonce /\ UNCHANGED nonceAtDo
    BY <2>3 DEF Nonces, NonceIsFresh
  <2> QED
    BY <2>1, <2>2, <2>3, ToEstimate
<1>4. pc' = "invoke" => nonceAtDo' <= transaction'.body.nonce
  <2> SUFFICES ASSUME pc' = "invoke"
               PROVE  nonceAtDo' <= transaction'.body.nonce
    OBVIOUS
  <2>1. CASE pc = "invoke" /\ UNCHANGED <<transaction, nonceAtDo>>
    BY <2>1 DEF Nonces, NonceIsFresh
  <2>2. CASE pc = "estimate" /\ transaction' = ReadyToInvoke(transaction)
             /\ UNCHANGED nonceAtDo
    BY <1>1, <2>2, ReadyToInvokeType DEF Nonces, NonceIsFresh
  <2> QED
    BY <2>1, <2>2, ToInvoke
<1> QED
  BY <1>2, <1>3, <1>4 DEF Nonces, NonceIsFresh

\* What goes to the estimate and to the gateway has a nonce the account had since the
\* Do event that sends it, however long ago the transaction was prepared.
THEOREM NonceFreshAlways == Spec => []NonceIsFresh
<1>1. Init => Nonces
  BY DEF Init, StarknetInit, Nonces, NonceIsFresh
<1>2. Nonces => NonceIsFresh
  BY DEF Nonces
<1> QED
  BY <1>1, <1>2, TypeInit, TypeStep, NoncesStep, PTL DEF Spec
-----------------------------------------------------------------------------
(***************************************************************************)
(* The window an attestation belongs to.                                   *)
(***************************************************************************)

\* Without gaps a new window begins only when the one before was closed: then the
\* tracker is empty.
LEMMA WindowedStep ==
  ASSUME Feed = "complete"
  PROVE  TypeOK /\ Control /\ Windowed /\ [Next]_vars => Windowed'
<1> SUFFICES ASSUME TypeOK, Control, Windowed, [Next]_vars PROVE Windowed'
  OBVIOUS
<1> USE DEF sender, metrics, tracker, chain
<1> USE TypeFacts
<1> DEFINE Ours(b) == b \in EventHashes(window)
<1>b. NoTransaction.valid = FALSE
  BY DEF NoTransaction
<1>1. CASE PrepareBuild
  <2>1. Build(attest).body.blockHash = attest /\ Build(attest).builtIn = window
    BY BuildType DEF TypeOK
  <2> QED
    BY <1>1, <1>b, <2>1 DEF PrepareBuild, Windowed, EventHashes
<1>2. CASE Track
  <2>1. PICK reply \in TransactionStatus(hash) :
          /\ hash' = HashAfter(TrackAttest(reply))
          /\ IF TrackAttest(reply) = "Failed"
             THEN StartAttest
             ELSE status' = TrackAttest(reply) /\ pc' = "select"
    BY <1>2 DEF Track
  <2>2. /\ pc = "track" /\ UNCHANGED <<chain, transaction, attest, sender>>
        /\ hash' \in {hash, NoHash}
        /\ pc' \in {"select", "updateNonce", "doBuild"}
    BY <1>2, <2>1 DEF Track, HashAfter, StartAttest
  <2>3. hash' # NoHash => Ours(txs'[hash'].blockHash)
    BY <2>2 DEF Windowed
  <2> QED
    BY <2>2, <2>3 DEF Windowed, EventHashes
<1>3. CASE DoBuild
  <2>1. Build(attest).body.blockHash = attest /\ Build(attest).builtIn = window
    BY BuildType DEF TypeOK
  <2> QED
    BY <1>3, <1>b, <2>1 DEF DoBuild, Windowed, EventHashes
<1>4. CASE UpdateNonce
  <2> DEFINE t == WithNonce(transaction)
  <2>1. /\ t \in Transactions /\ t.body.blockHash = transaction.body.blockHash
        /\ t.builtIn = transaction.builtIn
    BY WithNonceType DEF TypeOK
  <2>2. Sign(t).body = t.body /\ Sign(t).builtIn = t.builtIn
    BY <2>1, SignType
  <2>3. /\ pc = "updateNonce" /\ pc' \in {"select", "estimate"}
        /\ UNCHANGED <<chain, status, hash, attest, sender>>
        /\ transaction' = transaction \/ transaction' = t \/ transaction' = Sign(t)
    BY <1>4 DEF UpdateNonce
  <2> HIDE DEF t
  <2>4. transaction.valid
    BY <2>3 DEF Control
  <2>5. transaction'.body.blockHash = transaction.body.blockHash
        /\ transaction'.builtIn = transaction.builtIn
    BY <2>1, <2>2, <2>3
  <2> QED
    BY <2>3, <2>4, <2>5 DEF Windowed, EventHashes
<1>5. CASE Estimate
  <2>1. /\ pc = "estimate" /\ pc' \in {"select", "invoke"} /\ hash' \in {hash, NoHash}
        /\ UNCHANGED <<chain, attest, sender>>
        /\ \/ pc' = "invoke" /\ transaction' = ReadyToInvoke(transaction)
           \/ pc' = "select" /\ transaction' = NoTransaction
    BY <1>5 DEF Estimate, SetStatus, HashAfter
  <2>2. /\ ReadyToInvoke(transaction).body.blockHash = transaction.body.blockHash
        /\ ReadyToInvoke(transaction).builtIn = transaction.builtIn
        /\ ReadyToInvoke(transaction).valid = FALSE
    BY ReadyToInvokeType DEF TypeOK
  <2> QED
    BY <1>b, <2>1, <2>2 DEF Windowed, EventHashes
<1>6. CASE Invoke
  <2>1. /\ pc = "invoke" /\ pc' = "select" /\ transaction' = NoTransaction
        /\ UNCHANGED <<epoch, attest, sender>>
        /\ \/ Land("open") /\ hash' = Len(txs) + 1
           \/ hash' = NoHash
    BY <1>6 DEF Invoke, SetStatus, HashAfter
  <2>2. hash' # NoHash => Ours(txs'[hash'].blockHash)
    BY <2>1, LandStep DEF Windowed, Fates
  <2> QED
    BY <1>b, <2>1, <2>2 DEF Windowed, EventHashes
<1>7. ASSUME NEW s, NEW w, CloseWindow(s, w), window' <= epoch'
      PROVE  Windowed'
  BY <1>7, <1>b DEF CloseWindow, NewAttestTracker, Windowed
<1>8. CASE EndTrack
  BY <1>7, <1>8 DEF EndTrack, Windowed
<1>9. CASE ReceiveClosed
  BY <1>9 DEF ReceiveClosed, Windowed, EventHashes
<1>10. CASE Close
  BY <1>10 DEF Close, Windowed, EventHashes
<1>11. CASE AttestElsewhere
  BY <1>11 DEF AttestElsewhere, Windowed, EventHashes
<1>12. CASE Chain
  <2>1. epoch <= epoch' /\ epoch' \in Epochs /\ DOMAIN txs' = DOMAIN txs
        /\ \A i \in DOMAIN txs : txs'[i].blockHash = txs[i].blockHash
    BY <1>12, ChainStep DEF Chain, TypeOK, StarknetTypeOK
  <2>2. window <= epoch' /\ hash \in {NoHash} \cup DOMAIN txs
    BY <2>1, ConstantTypes DEF Windowed, TypeOK
  <2> QED
    BY <1>12, <2>1, <2>2 DEF Chain, Windowed, EventHashes
<1>13. ASSUME NEW w \in 1..epoch, NEW from, NEW to, Offer(w, from, to), pc = "select",
              "over" \notin from
       PROVE  /\ window' <= epoch
              /\ window' = window \/ (status = "Iddle" /\ hash = NoHash /\ ~transaction.valid)
              /\ stage' = to /\ window' = w
              /\ stage = "over" => window' # window
  BY <1>13 DEF Offer, Windowed
<1>14. ASSUME NEW w \in 1..epoch, NEW b \in EventHashes(w), ReceivePrepare(w, b)
       PROVE  Windowed'
  <2>1. /\ window' <= epoch
        /\ window' = window \/ (status = "Iddle" /\ hash = NoHash /\ ~transaction.valid)
        /\ stage' = "prepare" /\ window' = w
    BY <1>13, <1>14 DEF ReceivePrepare, OfferPrepare
  <2> QED
    BY <1>14, <2>1 DEF ReceivePrepare, Windowed, EventHashes
<1>15. ASSUME NEW w \in 1..epoch, NEW b \in EventHashes(w), ReceiveDo(w, b)
       PROVE  Windowed'
  <2>1. /\ window' <= epoch
        /\ window' = window \/ (status = "Iddle" /\ hash = NoHash /\ ~transaction.valid)
        /\ stage' = "do" /\ window' = w
    BY <1>13, <1>15 DEF ReceiveDo, OfferDo
  <2>2. pc' \in {"select", "track", "updateNonce", "doBuild"}
    BY <1>15 DEF ReceiveDo, StartAttest
  <2> QED
    BY <1>15, <2>1, <2>2 DEF ReceiveDo, Windowed, EventHashes
<1>16. ASSUME NEW w \in 1..epoch, ReceiveEndOfWindow(w)
       PROVE  Windowed'
  <2>1. /\ window' <= epoch
        /\ window' = window \/ (status = "Iddle" /\ hash = NoHash /\ ~transaction.valid)
        /\ stage' = "over" /\ window' = w
    BY <1>13, <1>16 DEF ReceiveEndOfWindow, OfferEndOfWindow
  <2>2. epoch' = epoch
    BY <1>16 DEF ReceiveEndOfWindow
  <2>3. CASE status = "Successful"
    BY <1>7, <1>16, <2>1, <2>2, <2>3 DEF ReceiveEndOfWindow
  <2>4. CASE status # "Successful"
    BY <1>16, <2>1, <2>4 DEF ReceiveEndOfWindow, Windowed, EventHashes
  <2> QED
    BY <2>3, <2>4
<1>17. CASE UNCHANGED vars
  BY <1>17 DEF vars, Windowed, EventHashes
<1> QED
  BY <1>1, <1>2, <1>3, <1>4, <1>5, <1>6, <1>8, <1>9, <1>10, <1>11, <1>12, <1>14, <1>15,
     <1>16, <1>17 DEF Next, Dispatch, Events

\* The window only grows, and without gaps it does so only when the tracker is
\* empty: the window before was closed.
LEMMA WindowGrows ==
  ASSUME Feed = "complete", TypeOK, Windowed, [Next]_vars
  PROVE  /\ window' \in Nat /\ window <= window'
         /\ \/ UNCHANGED window
            \/ /\ Events /\ UNCHANGED chain
               /\ pc = "select" /\ stage = "over"
               /\ status = "Iddle" /\ hash = NoHash
<1> USE DEF sender, metrics, tracker, chain
<1> USE TypeFacts
<1>1. CASE Dispatch
  BY <1>1 DEF Dispatch, PrepareBuild, Track, DoBuild, UpdateNonce, Estimate, Invoke,
              EndTrack, ReceiveClosed
<1>2. ASSUME NEW w \in 1..epoch, NEW from, NEW to, Offer(w, from, to), pc = "select"
      PROVE  /\ window' \in Nat /\ window <= window'
             /\ UNCHANGED window \/ (stage = "over" /\ status = "Iddle" /\ hash = NoHash)
  BY <1>2 DEF Offer, Windowed
<1>3. ASSUME NEW w \in 1..epoch, NEW b \in EventHashes(w),
             ReceivePrepare(w, b) \/ ReceiveDo(w, b) \/ ReceiveEndOfWindow(w)
      PROVE  /\ pc = "select" /\ UNCHANGED chain
             /\ window' \in Nat /\ window <= window'
             /\ UNCHANGED window \/ (stage = "over" /\ status = "Iddle" /\ hash = NoHash)
  BY <1>2, <1>3 DEF ReceivePrepare, ReceiveDo, ReceiveEndOfWindow,
                    OfferPrepare, OfferDo, OfferEndOfWindow
<1>4. CASE Events
  <2>1. PICK w \in 1..epoch :
          \/ \E b \in EventHashes(w) : ReceivePrepare(w, b) \/ ReceiveDo(w, b)
          \/ ReceiveEndOfWindow(w)
    BY <1>4 DEF Events
  <2>2. ZeroHash \in EventHashes(w)
    BY DEF EventHashes
  <2> QED
    BY <1>3, <1>4, <2>1, <2>2
<1>5. CASE Close \/ AttestElsewhere \/ Chain \/ UNCHANGED vars
  BY <1>5 DEF Close, AttestElsewhere, Chain, vars
<1> QED
  BY <1>1, <1>4, <1>5 DEF Next

\* The node reports success only for the attestation of this window.
LEMMA SucceededHere ==
  ASSUME TypeOK, Windowed, Attested, NEW reply \in TransactionStatus(hash),
         TrackAttest(reply) = "Successful"
  PROVE  window \in attested
<1>1. hash \in DOMAIN txs /\ txs[hash].state = "accepted"
  BY TrackAttestType
<1>2. hash # NoHash
  BY <1>1, TypeFacts DEF NoHash
<1>3. txs[hash].blockHash \in attested /\ txs[hash].blockHash \in EventHashes(window)
  BY <1>1, <1>2 DEF Attested, Windowed
<1>4. ZeroHash \notin attested
  BY ConstantTypes DEF TypeOK, StarknetTypeOK, ZeroHash
<1> QED
  BY <1>3, <1>4 DEF EventHashes

\* The contract, when it refuses an estimate, may speak of a later epoch.
LEMMA DoneHere ==
  ASSUME TypeOK, Windowed, NEW b, "done" \in EstimateFee(b)
  PROVE  window \in attested \/ window < epoch
<1>1. epoch \in attested
  BY DEF EstimateFee
<1> QED
  BY <1>1, TypeFacts DEF Windowed

\* What the chain does on its own: what it accepts, it records.
LEMMA AttestedChain ==
  ASSUME TypeOK, Attested, StarknetNext
  PROVE  /\ attested \subseteq attested'
         /\ \A i \in DOMAIN txs' : txs'[i].state = "accepted" =>
                                       txs'[i].blockHash \in attested'
<1> USE TypeFacts
<1>1. CASE NewEpoch \/ ForeignTransaction
  BY <1>1 DEF NewEpoch, ForeignTransaction, Attested
<1>2. ASSUME NEW i \in 1..Len(txs), NEW s \in TxStates,
             txs' = [txs EXCEPT ![i].state = s]
      PROVE  /\ DOMAIN txs' = DOMAIN txs
             /\ \A j \in DOMAIN txs : txs'[j].blockHash = txs[j].blockHash
             /\ \A j \in DOMAIN txs \ {i} : txs'[j].state = txs[j].state
             /\ txs'[i].state = s
  BY <1>2 DEF Txs
<1>3. ASSUME NEW i \in 1..Len(txs), Accept(i)
      PROVE  /\ attested \subseteq attested'
             /\ \A j \in DOMAIN txs' : txs'[j].state = "accepted" =>
                                           txs'[j].blockHash \in attested'
  <2>1. /\ txs[i].blockHash = epoch /\ attested' = attested \cup {epoch}
        /\ txs' = [txs EXCEPT ![i].state = "accepted"]
    BY <1>3 DEF Accept
  <2>2. "accepted" \in TxStates
    BY DEF TxStates
  <2>3. /\ DOMAIN txs' = DOMAIN txs
        /\ \A j \in DOMAIN txs : txs'[j].blockHash = txs[j].blockHash
        /\ \A j \in DOMAIN txs \ {i} : txs'[j].state = txs[j].state
    BY <1>2, <2>1, <2>2
  <2> QED
    BY <2>1, <2>3 DEF Attested
<1>4. ASSUME NEW i \in 1..Len(txs), Revert(i) \/ Drop(i)
      PROVE  /\ attested \subseteq attested'
             /\ \A j \in DOMAIN txs' : txs'[j].state = "accepted" =>
                                           txs'[j].blockHash \in attested'
  <2>1. PICK s \in {"reverted", "dropped"} :
          txs' = [txs EXCEPT ![i].state = s] /\ attested' = attested
    BY <1>4 DEF Revert, Drop
  <2>2. s \in TxStates
    BY DEF TxStates
  <2>3. /\ DOMAIN txs' = DOMAIN txs
        /\ \A j \in DOMAIN txs : txs'[j].blockHash = txs[j].blockHash
        /\ \A j \in DOMAIN txs \ {i} : txs'[j].state = txs[j].state
        /\ txs'[i].state # "accepted"
    BY <1>2, <2>1, <2>2
  <2> QED
    BY <2>1, <2>3 DEF Attested
<1> QED
  BY <1>1, <1>3, <1>4 DEF StarknetNext

\* The record of the chain, and of what the dispatcher was told, only grows.
LEMMA RecordGrows ==
  ASSUME TypeOK, Attested, [Next]_vars
  PROVE  /\ attested \subseteq attested' /\ misled \subseteq misled'
         /\ epoch <= epoch' /\ epoch' \in Nat
<1> USE DEF sender, metrics, tracker, chain
<1> USE TypeFacts
<1>1. CASE Dispatch
  BY <1>1 DEF Dispatch, PrepareBuild, Track, DoBuild, UpdateNonce, Estimate, Invoke,
              EndTrack, ReceiveClosed
<1>2. CASE Events
  BY <1>2 DEF Events, ReceivePrepare, ReceiveDo, ReceiveEndOfWindow
<1>3. CASE Close \/ AttestElsewhere \/ UNCHANGED vars
  BY <1>3 DEF Close, AttestElsewhere, vars
<1>4. CASE Chain
  <2>1. epoch <= epoch' /\ epoch' \in Epochs
    BY <1>4, ChainStep DEF Chain, TypeOK, StarknetTypeOK
  <2> QED
    BY <1>4, <2>1, ConstantTypes, AttestedChain DEF Chain
<1> QED
  BY <1>1, <1>2, <1>3, <1>4 DEF Next

\* Success is reported by the node, for this window, or by the contract, for this window or
\* a later one.
LEMMA SuccessStep ==
  ASSUME Feed = "complete", TypeOK, Windowed, Attested, [Next]_vars,
         status' = "Successful"
  PROVE  window' \in attested \cup misled'
<1> USE DEF sender, metrics, tracker, chain
<1>1. CASE UNCHANGED <<status, window>>
  BY <1>1, RecordGrows DEF Attested, SuccessIsAttested
<1>2. CASE Track
  <2>1. PICK reply \in TransactionStatus(hash) :
          IF TrackAttest(reply) = "Failed"
          THEN StartAttest
          ELSE status' = TrackAttest(reply) /\ pc' = "select"
    BY <1>2 DEF Track
  <2>2. TrackAttest(reply) = "Successful"
    BY <2>1 DEF StartAttest
  <2> QED
    BY <1>2, <2>2, SucceededHere DEF Track
<1>3. CASE Estimate
  <2>1. \/ /\ "done" \in EstimateFee(transaction.body.blockHash)
           /\ misled' = misled \cup ({window} \ {epoch})
        \/ UNCHANGED status
    BY <1>3 DEF Estimate, SetStatus
  <2>2. UNCHANGED window
    BY <1>3 DEF Estimate
  <2>3. CASE UNCHANGED status
    BY <1>1, <2>2, <2>3
  <2>4. CASE /\ "done" \in EstimateFee(transaction.body.blockHash)
             /\ misled' = misled \cup ({window} \ {epoch})
    BY <2>2, <2>4, DoneHere, TypeFacts
  <2> QED
    BY <2>1, <2>3, <2>4
<1>4. CASE Invoke
  BY <1>1, <1>4 DEF Invoke, SetStatus
<1>5. CASE EndTrack
  BY <1>5 DEF EndTrack, CloseWindow, NewAttestTracker
<1>6. CASE Events
  <2>1. status = "Successful"
    BY <1>6 DEF Events, ReceivePrepare, ReceiveDo, StartAttest, ReceiveEndOfWindow,
                CloseWindow, NewAttestTracker
  <2> QED
    BY <1>1, <2>1, WindowGrows
<1>7. CASE PrepareBuild \/ DoBuild \/ UpdateNonce \/ ReceiveClosed
  BY <1>1, <1>7 DEF PrepareBuild, DoBuild, UpdateNonce, ReceiveClosed
<1>8. CASE Close \/ AttestElsewhere \/ Chain \/ UNCHANGED vars
  BY <1>1, <1>8 DEF Close, AttestElsewhere, Chain, vars
<1> QED
  BY <1>2, <1>3, <1>4, <1>5, <1>6, <1>7, <1>8 DEF Next, Dispatch

LEMMA AttestedStep ==
  ASSUME Feed = "complete"
  PROVE  TypeOK /\ Windowed /\ Attested /\ [Next]_vars => Attested'
<1> SUFFICES ASSUME TypeOK, Windowed, Attested, [Next]_vars
             PROVE  Attested'
  OBVIOUS
<1> USE DEF sender, metrics, tracker, chain
<1> USE TypeFacts
<1>1. /\ attested \subseteq attested' /\ misled \subseteq misled'
      /\ epoch <= epoch' /\ epoch' \in Nat
  BY RecordGrows
<1>2. \A w \in misled' : w < epoch'
  <2>1. \A w \in misled : w \in Nat /\ w < epoch'
    BY <1>1 DEF Attested, TypeOK
  <2>2. CASE misled' = misled
    BY <2>1, <2>2
  <2>3. CASE Estimate
    <3>1. epoch' = epoch /\ misled' \subseteq misled \cup ({window} \ {epoch})
      BY <2>3 DEF Estimate
    <3> QED
      BY <2>1, <3>1 DEF Windowed
  <2> QED
    BY <2>2, <2>3
       DEF Next, Dispatch, PrepareBuild, Track, DoBuild, UpdateNonce, Invoke, EndTrack,
           ReceiveClosed, Events, ReceivePrepare, ReceiveDo, ReceiveEndOfWindow, Close,
           AttestElsewhere, Chain, vars
<1>3. SuccessIsAttested'
  <2> SUFFICES ASSUME status' = "Successful"
               PROVE  window' \in attested' \/ (window' \in misled' /\ window' < epoch')
    BY DEF SuccessIsAttested
  <2> QED
    BY <1>1, <1>2, SuccessStep
<1>4. \A i \in DOMAIN txs' : txs'[i].state = "accepted" => txs'[i].blockHash \in attested'
  <2>1. CASE txs' = txs
    BY <1>1, <2>1 DEF Attested
  <2>2. CASE Invoke
    <3>1. CASE \E fate \in Fates : Land(fate)
      <4>1. PICK fate \in Fates : Land(fate)
        BY <3>1
      <4>2. /\ txs' \in Seq(Txs) /\ Len(txs') = Len(txs) + 1
            /\ \A i \in 1..Len(txs) : txs'[i] = txs[i]
            /\ txs'[Len(txs) + 1].state = "pending"
        BY <4>1, LandStep
      <4>3. DOMAIN txs' = 1..(Len(txs) + 1)
        BY <4>2, LenProperties
      <4> QED
        BY <1>1, <4>2, <4>3 DEF Attested
    <3>2. (\E fate \in Fates : Land(fate)) \/ txs' = txs
      BY <2>2 DEF Invoke, Fates
    <3> QED
      BY <2>1, <3>1, <3>2
  <2>3. CASE Chain
    BY <2>3, AttestedChain DEF Chain
  <2> QED
    BY <2>1, <2>2, <2>3
       DEF Next, Dispatch, PrepareBuild, Track, DoBuild, UpdateNonce, Estimate, EndTrack,
           ReceiveClosed, Events, ReceivePrepare, ReceiveDo, ReceiveEndOfWindow, Close,
           AttestElsewhere, vars
<1> QED
  BY <1>2, <1>3, <1>4 DEF Attested

\* Closing a window that was not counted before counts it, as confirmed only if the
\* chain holds its attestation or the contract spoke of a later epoch.
LEMMA CloseCounts ==
  ASSUME TypeOK, Counted, NEW s, NEW w \in Nat, CloseWindow(s, w),
         s = "Successful" => w \in attested \cup misled,
         w \notin confirmed \cup failed,
         window <= w, window' = w, stage' = "over", UNCHANGED <<attested, misled>>
  PROVE  Counted'
<1>1. /\ pc' = "select"
      /\ confirmed' \cup failed' = confirmed \cup failed \cup {w}
      /\ confirmed' \subseteq attested' \cup misled' /\ confirmed' \cap failed' = {}
  BY DEF CloseWindow, Counted, ConfirmedIsAttested
<1>2. confirmed \cup failed \cup {w} \subseteq 0..w
  BY TypeFacts DEF Counted
<1> QED
  BY <1>1, <1>2 DEF Counted, ConfirmedIsAttested

\* Every other step counts nothing.
LEMMA NotCounted ==
  ASSUME TypeOK, Counted, attested \subseteq attested', misled \subseteq misled',
         UNCHANGED <<confirmed, failed>>, window' \in Nat, window <= window',
         \/ window' = window /\ (stage' # "over" \/ pc' = "endTrack" =>
                                   stage # "over" \/ pc = "endTrack")
         \/ window' # window
  PROVE  Counted'
<1>1. ConfirmedIsAttested' /\ confirmed' \cup failed' \subseteq 0..window'
  BY TypeFacts DEF Counted, ConfirmedIsAttested
<1>2. window' # window => window' \notin confirmed \cup failed
  BY TypeFacts DEF Counted
<1> QED
  BY <1>1, <1>2 DEF Counted

LEMMA CountedStep ==
  ASSUME Feed = "complete"
  PROVE  TypeOK /\ Control /\ Windowed /\ Attested /\ Counted /\ [Next]_vars => Counted'
<1> SUFFICES ASSUME TypeOK, Control, Windowed, Attested, Counted, [Next]_vars
             PROVE  Counted'
  OBVIOUS
<1> USE DEF sender, metrics, tracker, chain
<1> USE TypeFacts
<1>1. /\ window' \in Nat /\ window <= window'
      /\ attested \subseteq attested' /\ misled \subseteq misled'
  BY WindowGrows, RecordGrows
<1>2. CASE PrepareBuild \/ Track \/ DoBuild \/ UpdateNonce \/ Estimate \/ Invoke
           \/ ReceiveClosed
  <2>1. /\ UNCHANGED <<confirmed, failed, sender>>
        /\ pc' # "endTrack"
    BY <1>2 DEF PrepareBuild, Track, StartAttest, DoBuild, UpdateNonce, Estimate, Invoke,
                ReceiveClosed
  <2> QED
    BY <1>1, <2>1, NotCounted
<1>3. CASE Close \/ AttestElsewhere \/ Chain \/ UNCHANGED vars
  <2>1. UNCHANGED <<confirmed, failed, sender, pc>>
    BY <1>3 DEF Close, AttestElsewhere, Chain, vars
  <2> QED
    BY <1>1, <2>1, NotCounted
<1>4. CASE EndTrack
  <2>1. PICK reply \in TransactionStatus(hash) : CloseWindow(TrackAttest(reply), window)
    BY <1>4 DEF EndTrack
  <2>2. TrackAttest(reply) = "Successful" => window \in attested
    BY SucceededHere
  <2>3. pc = "endTrack" /\ UNCHANGED <<attested, misled, sender>>
    BY <1>4 DEF EndTrack
  <2>4. window \notin confirmed \cup failed
    BY <2>3 DEF Counted
  <2>5. stage = "over"
    BY <2>3 DEF Windowed
  <2> QED
    BY <2>1, <2>2, <2>3, <2>4, <2>5, CloseCounts
<1>5. ASSUME NEW w \in 1..epoch, ReceiveEndOfWindow(w)
      PROVE  Counted'
  <2>1. /\ pc = "select" /\ window' = w /\ stage' = "over" /\ UNCHANGED <<attested, misled>>
        /\ \/ w = window /\ stage # "over"
           \/ w # window
    BY <1>5 DEF ReceiveEndOfWindow, OfferEndOfWindow, Offer
  <2>2. w \notin confirmed \cup failed
    BY <1>1, <2>1 DEF Counted
  <2>3. CASE status = "Successful"
    <3>1. w \in attested \cup misled
      BY <2>1, <2>3, WindowGrows DEF Attested, SuccessIsAttested
    <3> QED
      BY <1>1, <1>5, <2>1, <2>2, <2>3, <3>1, CloseCounts DEF ReceiveEndOfWindow
  <2>4. CASE status # "Successful"
    <3>1. UNCHANGED <<confirmed, failed>>
      BY <1>5, <2>4 DEF ReceiveEndOfWindow
    <3> QED
      BY <1>1, <2>1, <3>1, NotCounted
  <2> QED
    BY <2>3, <2>4
<1>6. ASSUME NEW w \in 1..epoch, NEW b \in EventHashes(w),
             ReceivePrepare(w, b) \/ ReceiveDo(w, b)
      PROVE  Counted'
  <2>1. /\ UNCHANGED <<confirmed, failed>>
        /\ window' = window => stage # "over"
    BY <1>6 DEF ReceivePrepare, ReceiveDo, OfferPrepare, OfferDo, Offer
  <2> QED
    BY <1>1, <2>1, NotCounted
<1> QED
  BY <1>2, <1>3, <1>4, <1>5, <1>6 DEF Next, Dispatch, Events
-----------------------------------------------------------------------------
(***************************************************************************)
(* The theorems of an orderly feed.                                        *)
(***************************************************************************)
LEMMA WindowInit == Init => Control /\ Windowed /\ Attested /\ Counted
BY BoundsAssumption
   DEF Init, StarknetInit, SenderInit, Control, Windowed, Attested, Counted, EventHashes,
       NoTransaction, SuccessIsAttested, ConfirmedIsAttested

LEMMA WindowInvariants ==
  ASSUME Feed = "complete"
  PROVE  Spec => [](Control /\ Windowed /\ Attested /\ Counted)
<1>1. TypeOK /\ Control /\ Windowed /\ Attested /\ Counted /\ [Next]_vars
        => (Control /\ Windowed /\ Attested /\ Counted)'
  BY ControlStep, WindowedStep, AttestedStep, CountedStep
<1> QED
  BY <1>1, WindowInit, TypeInit, TypeStep, PTL DEF Spec

\* When the feed skips no block, what is kept ready or being sent was built in this
\* window: what PrepareAttest built for one never meets the next.
THEOREM BuiltInItsWindowAlways ==
  ASSUME Feed = "complete"
  PROVE  Spec => []BuiltInItsWindow
<1>1. Windowed => BuiltInItsWindow
  BY DEF Windowed, BuiltInItsWindow
<1> QED
  BY <1>1, WindowInvariants, PTL

\* When the feed skips no block, the dispatcher stops trying in a window only if the
\* chain holds the attestation of its epoch, or the contract said "done" of a later one:
\* other signers of the account attest in whatever epoch the chain is in.
THEOREM SuccessIsAttestedAlways ==
  ASSUME Feed = "complete"
  PROVE  Spec => []SuccessIsAttested
<1>1. Attested => SuccessIsAttested
  BY DEF Attested
<1> QED
  BY <1>1, WindowInvariants, PTL

\* When the feed skips no block, the confirmed counter counts only epochs with a recorded
\* attestation, but for windows the contract said "done" of a later epoch in; and no window
\* is counted as confirmed and as failed.
THEOREM ConfirmedIsAttestedAlways ==
  ASSUME Feed = "complete"
  PROVE  Spec => []ConfirmedIsAttested
<1>1. Counted => ConfirmedIsAttested
  BY DEF Counted
<1> QED
  BY <1>1, WindowInvariants, PTL

-----------------------------------------------------------------------------
(***************************************************************************)
(* Dispatcher implements Attestation: what the tracker and the counters go *)
(* through is one attempt at a time, and a window is closed once unless    *)
(* processors overlap.                                                     *)
(***************************************************************************)
\* A window that is counted is over, and the one being closed is not counted yet.
ClosedOnce ==
  /\ pc = "endTrack" => window \in Windows
  /\ Feed # "overlapping" =>
       /\ \A w \in confirmed \cup failed : w <= window
       /\ stage # "over" \/ pc = "endTrack" => window \notin confirmed \cup failed
       /\ pc = "endTrack" => stage = "over"

\* The abstract state Attestation sees.
abstract == <<status, hash # NoHash, submitted, confirmed, failed>>
-----------------------------------------------------------------------------
\* The calls and events that change neither the counters nor the sender's place.
LEMMA ClosedOnceKept ==
  ASSUME ClosedOnce, UNCHANGED <<confirmed, failed, sender>>, pc' # "endTrack"
  PROVE  ClosedOnce'
BY DEF ClosedOnce, sender

LEMMA ClosedOnceStep == TypeOK /\ ClosedOnce /\ [Next]_vars => ClosedOnce'
<1> SUFFICES ASSUME TypeOK, ClosedOnce, [Next]_vars PROVE ClosedOnce'
  OBVIOUS
<1> USE DEF metrics
<1>1. CASE PrepareBuild \/ Track \/ DoBuild \/ UpdateNonce \/ Estimate \/ Invoke
           \/ ReceiveClosed
  <2>1. /\ UNCHANGED <<confirmed, failed, sender>>
        /\ pc' # "endTrack"
    BY <1>1 DEF PrepareBuild, Track, StartAttest, DoBuild, UpdateNonce, Estimate, Invoke,
                ReceiveClosed
  <2> QED
    BY <2>1, ClosedOnceKept
<1>2. CASE Close \/ AttestElsewhere \/ Chain \/ UNCHANGED vars
  <2>1. UNCHANGED <<confirmed, failed, sender, pc>>
    BY <1>2 DEF Close, AttestElsewhere, Chain, vars
  <2> QED
    BY <2>1 DEF ClosedOnce, sender
<1>3. CASE EndTrack
  <2>1. PICK reply \in TransactionStatus(hash) : CloseWindow(TrackAttest(reply), window)
    BY <1>3 DEF EndTrack
  <2>2. /\ pc = "endTrack" /\ pc' = "select"
        /\ UNCHANGED <<window, stage>>
        /\ confirmed' \cup failed' = confirmed \cup failed \cup {window}
    BY <1>3, <2>1 DEF EndTrack, CloseWindow, sender
  <2> QED
    BY <2>2, TypeFacts DEF ClosedOnce
<1>4. ASSUME NEW w \in 1..epoch, ReceiveEndOfWindow(w)
      PROVE  ClosedOnce'
  <2>1. /\ window' = w /\ stage' = "over" /\ w \in Nat /\ w \in Windows
        /\ Feed # "overlapping" => \/ w = window /\ stage # "over"
                                   \/ w > window
    BY <1>4, TypeFacts, ConstantTypes
    DEF ReceiveEndOfWindow, OfferEndOfWindow, Offer, Epochs
  <2>2. Feed # "overlapping" => w \notin confirmed \cup failed /\ window <= w
    BY <2>1, TypeFacts DEF ClosedOnce
  <2>3. CASE status = "Successful"
    <3>1. pc' = "select" /\ confirmed' \cup failed' = confirmed \cup failed \cup {w}
      BY <1>4, <2>3 DEF ReceiveEndOfWindow, CloseWindow
    <3>2. Feed # "overlapping" => \A v \in confirmed \cup failed : v <= window /\ v \in Nat
      BY DEF ClosedOnce, TypeOK
    <3>3. ASSUME Feed # "overlapping", NEW v \in confirmed' \cup failed'
          PROVE  v <= w
      <4>1. v = w \/ v \in confirmed \cup failed
        BY <3>1, <3>3
      <4> QED
        BY <2>1, <2>2, <3>2, <3>3, <4>1, TypeFacts
    <3> QED
      BY <2>1, <3>1, <3>3 DEF ClosedOnce
  <2>4. CASE status # "Successful"
    <3>1. UNCHANGED <<confirmed, failed>>
      BY <1>4, <2>4 DEF ReceiveEndOfWindow
    <3> QED
      BY <2>1, <2>2, <3>1, TypeFacts DEF ClosedOnce, TypeOK
  <2> QED
    BY <2>3, <2>4
<1>5. ASSUME NEW w \in 1..epoch, NEW b, ReceivePrepare(w, b) \/ ReceiveDo(w, b)
      PROVE  ClosedOnce'
  <2>1. /\ UNCHANGED <<confirmed, failed>>
        /\ window' = w /\ stage' # "over" /\ pc' # "endTrack" /\ w \in Nat
        /\ Feed # "overlapping" => \/ w = window /\ stage # "over"
                                   \/ w > window
    BY <1>5, TypeFacts DEF ReceivePrepare, ReceiveDo, StartAttest, OfferPrepare, OfferDo,
                           Offer
  <2> QED
    BY <2>1, TypeFacts DEF ClosedOnce, TypeOK
<1> QED
  BY <1>1, <1>2, <1>3, <1>4, <1>5 DEF Next, Dispatch, Events
-----------------------------------------------------------------------------
\* Closing a window is a step of the abstract attestation, whatever the answer that
\* settles it: without a transaction there is no success.
LEMMA CloseImplemented ==
  ASSUME TypeOK, Control, NEW s, NEW w \in Windows, CloseWindow(s, w), submitted' = submitted,
         s = "Successful" => status = "Successful" \/ (status = "Ongoing" /\ hash # NoHash),
         s # "Successful" => status # "Successful",
         Feed # "overlapping" => w \notin confirmed \cup failed
  PROVE  Abstract!Close(w)
<1>1. status' = "Iddle" /\ (hash' # NoHash) = FALSE
  BY DEF CloseWindow, NewAttestTracker
<1>2. \/ s = "Successful" /\ confirmed' = confirmed \cup {w} /\ UNCHANGED failed
      \/ s # "Successful" /\ failed' = failed \cup {w} /\ UNCHANGED confirmed
  BY DEF CloseWindow
<1> QED
  BY <1>1, <1>2 DEF Abstract!Close

LEMMA StepImplements ==
  TypeOK /\ Control /\ ClosedOnce /\ [Next]_vars => [Abstract!Next]_abstract
<1> SUFFICES ASSUME TypeOK, Control, ClosedOnce, [Next]_vars
             PROVE  Abstract!Next \/ UNCHANGED abstract
  BY DEF abstract, Abstract!vars
<1> USE DEF metrics, tracker, abstract
<1>1. CASE PrepareBuild \/ DoBuild \/ UpdateNonce \/ ReceiveClosed \/ Close
           \/ AttestElsewhere \/ Chain \/ UNCHANGED vars
  <2>1. UNCHANGED <<status, hash, submitted, confirmed, failed>>
    BY <1>1 DEF PrepareBuild, DoBuild, UpdateNonce, ReceiveClosed, Close, AttestElsewhere,
                Chain, vars
  <2> QED
    BY <2>1
<1>2. CASE Track
  <2>1. PICK reply \in TransactionStatus(hash) :
          /\ hash' = HashAfter(TrackAttest(reply))
          /\ IF TrackAttest(reply) = "Failed"
             THEN StartAttest
             ELSE status' = TrackAttest(reply) /\ pc' = "select"
    BY <1>2 DEF Track
  <2>2. status = "Ongoing" /\ UNCHANGED <<submitted, confirmed, failed>>
    BY <1>2 DEF Track, Control
  <2>3. TrackAttest(reply) \in {"Ongoing", "Successful", "Failed"}
    BY TrackAttestType
  <2>4. CASE TrackAttest(reply) = "Failed"
    <3>1. hash' = NoHash /\ status' = "Ongoing"
      BY <2>1, <2>4 DEF HashAfter, StartAttest
    <3> QED
      BY <2>2, <3>1 DEF Abstract!Next, Abstract!Retry
  <2>5. CASE TrackAttest(reply) # "Failed"
    <3>1. hash' = hash /\ status' \in {"Ongoing", "Successful"}
      BY <2>1, <2>3, <2>5 DEF HashAfter
    <3> QED
      BY <2>2, <3>1 DEF Abstract!Next, Abstract!Succeed
  <2> QED
    BY <2>4, <2>5
<1>3. CASE Estimate
  <2>1. /\ status = "Ongoing" /\ hash = NoHash
        /\ UNCHANGED <<submitted, confirmed, failed>>
        /\ \/ UNCHANGED <<status, hash>>
           \/ status' \in {"Successful", "Failed"} /\ hash' = NoHash
    BY <1>3 DEF Estimate, Control, SetStatus, HashAfter
  <2> QED
    BY <2>1 DEF Abstract!Next, Abstract!Succeed, Abstract!Fail
<1>4. CASE Invoke
  <2>1. /\ status = "Ongoing" /\ hash = NoHash
        /\ UNCHANGED <<confirmed, failed>>
        /\ \/ /\ hash' = Len(txs) + 1 /\ submitted' = submitted + 1
              /\ UNCHANGED status
           \/ status' = "Failed" /\ hash' = NoHash /\ UNCHANGED submitted
    BY <1>4 DEF Invoke, Control, SetStatus, HashAfter
  <2>2. Len(txs) + 1 # NoHash
    BY LenProperties DEF TypeOK, StarknetTypeOK, NoHash
  <2> QED
    BY <2>1, <2>2 DEF Abstract!Next, Abstract!Submit, Abstract!Fail
<1>5. CASE EndTrack
  <2>1. PICK reply \in TransactionStatus(hash) : CloseWindow(TrackAttest(reply), window)
    BY <1>5 DEF EndTrack
  <2>2. pc = "endTrack" /\ submitted' = submitted
    BY <1>5 DEF EndTrack
  <2>3. TrackAttest(reply) = "Successful" => hash # NoHash
    BY TrackAttestType, TypeFacts DEF NoHash
  <2>4. status # "Successful" /\ (hash # NoHash => status = "Ongoing")
    BY <2>2 DEF Control, TypeOK, Statuses
  <2>5. window \in Windows
    BY <2>2 DEF ClosedOnce
  <2> QED
    BY <2>1, <2>2, <2>3, <2>4, <2>5, CloseImplemented DEF ClosedOnce, Abstract!Next
<1>6. ASSUME NEW w \in 1..epoch, ReceiveEndOfWindow(w)
      PROVE  Abstract!Next \/ UNCHANGED abstract
  <2>1. submitted' = submitted
    BY <1>6 DEF ReceiveEndOfWindow
  <2>2. w \in Windows
    BY ConstantTypes, TypeFacts DEF TypeOK, StarknetTypeOK, Epochs
  <2>3. CASE status = "Successful"
    <3>1. CloseWindow(status, w)
      BY <1>6, <2>3 DEF ReceiveEndOfWindow
    <3>2. Feed # "overlapping" => w \notin confirmed \cup failed
      BY <1>6, TypeFacts DEF ReceiveEndOfWindow, OfferEndOfWindow, Offer, ClosedOnce
    <3> QED
      BY <2>1, <2>2, <2>3, <3>1, <3>2, CloseImplemented DEF Abstract!Next
  <2>4. CASE status # "Successful"
    BY <1>6, <2>4 DEF ReceiveEndOfWindow
  <2> QED
    BY <2>3, <2>4
<1>7. ASSUME NEW w \in 1..epoch, NEW b, ReceivePrepare(w, b)
      PROVE  UNCHANGED abstract
  BY <1>7 DEF ReceivePrepare
<1>8. ASSUME NEW w \in 1..epoch, NEW b, ReceiveDo(w, b)
      PROVE  Abstract!Next \/ UNCHANGED abstract
  <2>1. /\ UNCHANGED <<hash, submitted, confirmed, failed>>
        /\ \/ status \in {"Iddle", "Failed"} /\ status' = "Ongoing"
           \/ UNCHANGED status
    BY <1>8 DEF ReceiveDo, StartAttest
  <2> QED
    BY <2>1 DEF Abstract!Next, Abstract!Begin
<1> QED
  BY <1>1, <1>2, <1>3, <1>4, <1>5, <1>6, <1>7, <1>8 DEF Next, Dispatch, Events

\* Dispatch keeps the promise Attestation states, whatever calls fail and in whatever
\* order events arrive: dispatcher.go:195-286 tries once at a time, follows one
\* transaction, and counts a window when it closes it.
THEOREM ImplementsAttestationAlways == Spec => ImplementsAttestation
<1>1. Init => Abstract!Init
  BY DEF Init, Abstract!Init
<1>2. Init => ClosedOnce
  BY DEF Init, ClosedOnce, SenderInit
<1>3. Init => Control
  BY DEF Init, Control, NoTransaction
<1>4. TypeOK /\ Control /\ ClosedOnce /\ [Next]_vars => [Abstract!Next]_(Abstract!vars)
  BY StepImplements DEF abstract, Abstract!vars
<1> QED
  BY <1>1, <1>2, <1>3, <1>4, TypeInit, TypeStep, ControlStep, ClosedOnceStep, PTL
     DEF Spec, ImplementsAttestation, Abstract!Spec
=============================================================================
