------------------------------ MODULE Validator ------------------------------
(***************************************************************************)
(* The validator at work on a chain that may be reorganised: the header    *)
(* processors of successive subscriptions, the dispatcher they share, and  *)
(* the watcher that replaces a subscription (validator/validator.go and    *)
(* dispatcher.go).  It puts together what HeaderProcessor, Dispatcher and  *)
(* Watcher describe one by one, with these simplifications:                *)
(*                                                                         *)
(*  - an event is handled in one step, and the account's nonce is always   *)
(*    the right one (Dispatcher has the single calls and the nonce);       *)
(*  - the websocket and the HTTP node show the same chain, and a fetch is  *)
(*    repeated until it succeeds (HeaderProcessor);                        *)
(*  - reconnecting succeeds, and no processor fails (Watcher);             *)
(*  - a header has the contents the chain gives it on delivery.            *)
(*                                                                         *)
(* The hash of a target block is its epoch and the number of the           *)
(* reorganisation that made it.                                            *)
(***************************************************************************)
EXTENDS EpochSchedule, FiniteSets

CONSTANTS LastEpoch,     \* bound: the chain ends with this epoch
          EpochLen,      \* blocks in an epoch
          AttestWindow,  \* the attestation contract's window
          Poseidon,      \* the hash of stake, epoch and staker
          MaxReorgs,     \* bound: reorganisations
          MaxDepth,      \* bound: blocks one of them removes
          MaxSubs,       \* bound: subscriptions
          MaxTxs,        \* bound: attest transactions the gateway takes
          MaxFaults      \* bound: calls that fail, transactions that are left out

ASSUME ValidatorAssumption ==
  /\ LastEpoch \in Nat \ {0} /\ EpochLen \in Nat /\ AttestWindow \in Nat
  /\ MinAttestationWindow <= AttestWindow /\ AttestWindow < EpochLen
  /\ LastEpoch * EpochLen < Uint64Size
  /\ {Poseidon, MaxReorgs, MaxDepth, MaxSubs, MaxTxs, MaxFaults} \subseteq Nat

VARIABLES
  tip,          \* number of the latest block
  hashes,       \* the hash of each epoch's target block
  attestedAt,   \* the block each epoch's attestation was recorded in, or 0
  txs,          \* attest transactions in the order the gateway took them
  reorgs,       \* number of reorganisations so far
  subs,         \* number of subscriptions; the last one is current
  live,         \* the feed of the current subscription is open
  notice,       \* a reorganisation the watcher has not taken yet
  processor,    \* the header processor of each subscription
  status,       \* CurrentAttest.Status
  followed,     \* CurrentAttest.Hash: a place in txs, or 0
  valid,        \* CurrentAttest.Transaction.valid
  preparedHash, \* the block hash it was built for
  confirmed,    \* RecordAttestationConfirmed: a counter
  failed,       \* RecordAttestationFailure: a counter
  faults,       \* history: faults so far
  log           \* history: what happened since the clean slate

chain == <<tip, hashes, attestedAt, reorgs>>
watcher == <<subs, live, notice>>
tracker == <<status, followed, valid, preparedHash>>
counters == <<confirmed, failed>>
vars == <<chain, txs, watcher, processor, tracker, counters, faults, log>>

Epochs == 1..LastEpoch
LastBlock == LastEpoch * EpochLen - 1
Subs == 1..MaxSubs

EpochOf(b) == b \div EpochLen + 1
EpochInfo(e) == [epochID |-> e, startingBlock |-> (e - 1) * EpochLen, epochLen |-> EpochLen]
Target(e) == ComputeBlockNumberToAttestTo(EpochInfo(e), AttestWindow, Poseidon)

ZeroHash == <<0, 0>>
Hashes == {ZeroHash} \cup (Epochs \X (0..MaxReorgs))

Txs == [hash : Hashes, state : {"pending", "accepted", "reverted", "dropped"},
        block : 0..LastBlock]

ProcessorStates == {"none", "fetching", "looking", "receiving", "switching", "sending",
                    "returned"}
Processors == [pc : ProcessorStates, epoch : Epochs \cup {0}, hash : Hashes,
               block : 0..LastBlock, next : 0..(LastBlock + 1),
               outbox : Seq({"prepare", "do", "over"})]
Processor(pc, next) == [pc |-> pc, epoch |-> 0, hash |-> ZeroHash, block |-> 0,
                        next |-> next, outbox |-> <<>>]

\* tries: do events of a window with the right hash, while the contract takes it; troubles:
\* what cost one of them, however many calls failed in it; windows: of all events; hopeless:
\* something happened that the code does not make good (MayExpect).
Logs == [tries : Nat, troubles : Nat, windows : SUBSET Epochs, hopeless : BOOLEAN]
EmptyLog == [tries |-> 0, troubles |-> 0, windows |-> {}, hopeless |-> FALSE]

TypeOK == /\ tip \in 0..LastBlock
          /\ hashes \in [Epochs -> Hashes]
          /\ attestedAt \in [Epochs -> 0..LastBlock]
          /\ txs \in Seq(Txs) /\ Len(txs) <= MaxTxs
          /\ reorgs \in 0..MaxReorgs
          /\ subs \in 0..MaxSubs /\ live \in BOOLEAN /\ notice \in BOOLEAN
          /\ processor \in [Subs -> Processors]
          /\ status \in {"Iddle", "Ongoing", "Successful", "Failed"}
          /\ followed \in 0..Len(txs)
          /\ valid \in BOOLEAN /\ preparedHash \in Hashes
          /\ confirmed \in Nat /\ failed \in Nat
          /\ faults \in 0..MaxFaults
          /\ log \in Logs

Init == /\ tip = 0
        /\ hashes = [e \in Epochs |-> IF Target(e) = 0 THEN <<e, 0>> ELSE ZeroHash]
        /\ attestedAt = [e \in Epochs |-> 0]
        /\ txs = <<>>
        /\ reorgs = 0
        /\ subs = 0 /\ live = FALSE /\ notice = FALSE
        /\ processor = [i \in Subs |-> Processor("none", 0)]
        /\ status = "Iddle" /\ followed = 0 /\ valid = FALSE /\ preparedHash = ZeroHash
        /\ confirmed = 0 /\ failed = 0
        /\ faults = 0
        /\ log = EmptyLog

Faults(n) == faults + n <= MaxFaults /\ faults' = faults + n
Fault == Faults(1)
-----------------------------------------------------------------------------
(***************************************************************************)
(* The chain.                                                              *)
(***************************************************************************)
Attested(e) == e \in Epochs /\ attestedAt[e] # 0

\* The contract takes an attestation of block hash h in block b.
TakenIn(b, h) == LET e == EpochOf(b)
                 IN  /\ e \in Epochs /\ ~Attested(e)
                     /\ h = hashes[e] /\ h # ZeroHash
                     /\ Target(e) + MinAttestationWindow <= b
                     /\ b <= Target(e) + AttestWindow

Pending == {i \in DOMAIN txs : txs[i].state = "pending"}

\* The transactions in the mempool are executed in their order in the next block: the
\* first one the contract takes is accepted.
Accepted(i) == /\ i \in Pending /\ TakenIn(tip + 1, txs[i].hash)
               /\ \A j \in Pending : TakenIn(tip + 1, txs[j].hash) => i <= j
Executed == [i \in DOMAIN txs |->
               IF i \notin Pending THEN txs[i]
               ELSE [txs[i] EXCEPT !.state = IF Accepted(i) THEN "accepted" ELSE "reverted",
                                   !.block = tip + 1]]

Grow == /\ tip < LastBlock
        /\ tip' = tip + 1
        /\ hashes' = [e \in Epochs |-> IF Target(e) = tip + 1 THEN <<e, reorgs>>
                                                              ELSE hashes[e]]
        /\ UNCHANGED <<reorgs, watcher, processor, tracker, counters>>

NewBlock == /\ Grow
            /\ txs' = Executed
            /\ attestedAt' = [e \in Epochs |->
                 IF e = EpochOf(tip + 1) /\ \E i \in Pending : TakenIn(tip + 1, txs[i].hash)
                 THEN tip + 1 ELSE attestedAt[e]]
            /\ UNCHANGED <<faults, log>>

\* The sequencer leaves the transactions out: they stay, or are dropped.
NewBlockWithout == /\ Pending # {}
                   /\ Fault
                   /\ Grow
                   /\ \/ UNCHANGED txs
                      \/ txs' = [i \in DOMAIN txs |->
                           IF i \in Pending THEN [txs[i] EXCEPT !.state = "dropped"]
                                            ELSE txs[i]]
                   /\ log' = [log EXCEPT !.hopeless = TRUE]
                   /\ UNCHANGED attestedAt

\* The blocks after "to" are replaced.  Their transactions return to the mempool, or
\* are lost.
Reorg(to) ==
  /\ reorgs < MaxReorgs
  /\ tip' = to
  /\ reorgs' = reorgs + 1
  /\ hashes' = [e \in Epochs |-> IF Target(e) > to THEN ZeroHash ELSE hashes[e]]
  /\ attestedAt' = [e \in Epochs |-> IF attestedAt[e] > to THEN 0 ELSE attestedAt[e]]
  /\ \E s \in {"pending", "dropped"} :
       txs' = [i \in DOMAIN txs |->
                 IF txs[i].block > to THEN [txs[i] EXCEPT !.state = s, !.block = 0]
                                      ELSE txs[i]]
  /\ notice' = live
  /\ processor' = [i \in Subs |->
       IF i = subs /\ live /\ processor[i].next > to + 1
       THEN [processor[i] EXCEPT !.next = to + 1] ELSE processor[i]]
  /\ log' = [log EXCEPT !.tries = 0,
                        !.troubles = @ + 1,
                        !.hopeless = @ \/ status = "Successful"
                                       \/ \E i \in DOMAIN txs : txs'[i].state = "dropped"]
  /\ UNCHANGED <<subs, live, tracker, counters, faults>>
-----------------------------------------------------------------------------
(***************************************************************************)
(* RunBlockHeaderWatcher.                                                  *)
(***************************************************************************)

\* The subscription asks for headers from the latest block on.
Subscribe == /\ ~live /\ subs < MaxSubs
             /\ subs' = subs + 1 /\ live' = TRUE /\ notice' = FALSE
             /\ \E next \in {tip, tip + 1} :
                  processor' = [processor EXCEPT ![subs + 1] = Processor("fetching", next)]
             /\ UNCHANGED <<chain, txs, tracker, counters, faults, log>>

CleanUp == /\ live' = FALSE /\ notice' = FALSE
           /\ UNCHANGED <<chain, txs, subs, processor, tracker, counters, faults, log>>

\* case err := <-clientSubscription.Err()
SubscriptionError == live /\ CleanUp

\* Mutant: the reorganisation is only logged.
TakeReorgLogged == /\ live /\ notice
                   /\ notice' = FALSE
                   /\ UNCHANGED <<chain, txs, subs, live, processor, tracker, counters,
                                  faults, log>>

\* case reorgEvent := <-clientSubscription.Reorg()
TakeReorg == live /\ notice /\ CleanUp
-----------------------------------------------------------------------------
(***************************************************************************)
(* ProcessBlockHeaders, for subscription i.                                *)
(***************************************************************************)
FeedOpen(i) == i = subs /\ live

Becomes(i, p) == /\ processor' = [processor EXCEPT ![i] = p]
                 /\ UNCHANGED <<chain, txs, watcher, tracker, counters, log>>

\* FetchEpochAndAttestInfoWithRetry at startup.
Fetch(i) == LET p == processor[i] IN
  /\ p.pc = "fetching"
  /\ Becomes(i, [p EXCEPT !.pc = "looking", !.epoch = EpochOf(tip)])
  /\ UNCHANGED faults

\* SetTargetBlockHashIfExists.
LookUp(i) == LET p == processor[i] IN
  /\ p.pc = "looking"
  /\ \/ /\ Becomes(i, [p EXCEPT !.pc = "receiving", !.hash = hashes[p.epoch]])
        /\ UNCHANGED faults
     \/ /\ hashes[p.epoch] # ZeroHash
        /\ Fault
        /\ Becomes(i, [p EXCEPT !.pc = "receiving"])

\* What a header of its epoch makes of a processor.
Handled(p, b) ==
  LET info == AttestInfo(Target(p.epoch), AttestWindow)
      out == EventsFor(b, info)
  IN  [p EXCEPT !.pc = IF out = <<>> THEN "receiving" ELSE "sending",
                !.outbox = out,
                !.block = 0,
                !.hash = IF b = info.targetBlock THEN hashes[p.epoch] ELSE @]

ReceiveHeader(i) == LET p == processor[i]
                        q == [p EXCEPT !.next = @ + 1] IN
  /\ p.pc = "receiving" /\ FeedOpen(i) /\ p.next <= tip
  /\ Becomes(i, IF EpochIsOver(p.next, EpochInfo(p.epoch))
                THEN [q EXCEPT !.pc = "switching", !.block = p.next]
                ELSE Handled(q, p.next))
  /\ UNCHANGED faults

\* FetchEpochAndAttestInfoWithRetry shows the next epoch in the end, or never will.
Switch(i) == LET p == processor[i] IN
  /\ p.pc = "switching"
  /\ CorrectEpochSwitch(EpochInfo(p.epoch), EpochInfo(EpochOf(tip)))
  /\ Becomes(i, Handled([p EXCEPT !.epoch = EpochOf(tip), !.hash = ZeroHash], p.block))
  /\ UNCHANGED faults

FeedEnds(i) == /\ processor[i].pc = "receiving" /\ ~FeedOpen(i)
               /\ Becomes(i, Processor("returned", 0))
               /\ UNCHANGED faults
-----------------------------------------------------------------------------
(***************************************************************************)
(* Dispatch: one event.                                                    *)
(***************************************************************************)

\* The event at the head of p's outbox has been taken.
Taken(i) == LET rest == Tail(processor[i].outbox) IN
  processor' = [processor EXCEPT ![i].outbox = rest,
                                 ![i].pc = IF rest = <<>> THEN "receiving" ELSE "sending"]

\* History: an event of window w, and the troubles it met.
Logged(w, tries, troubles, hopeless) ==
  log' = [log EXCEPT !.windows = @ \cup {w},
                     !.tries = tries + (IF w \in log.windows THEN @ ELSE 0),
                     !.troubles = @ + troubles,
                     !.hopeless = @ \/ hopeless]

Offers(i, kind) == processor[i].pc = "sending" /\ Head(processor[i].outbox) = kind

\* case attest, ok := <-d.PrepareAttest
TakePrepare(i) == LET h == processor[i].hash
                      w == processor[i].epoch IN
  /\ Offers(i, "prepare")
  /\ Taken(i)
  /\ \/ /\ valid
        /\ UNCHANGED <<valid, preparedHash, faults>>
        /\ Logged(w, 0, 0, FALSE)
     \/ /\ ~valid
        /\ valid' = TRUE /\ preparedHash' = h
        /\ Logged(w, 0, IF h = hashes[w] /\ h # ZeroHash THEN 0 ELSE 1, FALSE)
        /\ UNCHANGED faults
     \/ /\ ~valid
        /\ Fault
        /\ Logged(w, 0, 0, FALSE)
        /\ UNCHANGED <<valid, preparedHash>>
  /\ UNCHANGED <<chain, txs, watcher, status, followed, counters>>

\* starknet_getTransactionStatus, as TrackAttest takes it.
TrackAttest == IF followed = 0 THEN "Ongoing"
               ELSE CASE txs[followed].state = "accepted"              -> "Successful"
                      [] txs[followed].state \in {"pending", "dropped"} -> "Ongoing"
                      [] txs[followed].state = "reverted"              -> "Failed"

\* starknet_estimateFee, on the block that is being built: a transaction in the mempool
\* may already be part of it.
EstimateFee(h) ==
  (IF Attested(EpochOf(tip + 1)) \/ \E i \in Pending : TakenIn(tip + 1, txs[i].hash)
   THEN {"done"} ELSE {}) \cup
  (IF TakenIn(tip + 1, h) THEN {"ok"} ELSE {}) \cup
  (IF ~TakenIn(tip + 1, h) /\ ~Attested(EpochOf(tip + 1)) THEN {"refused"} ELSE {})

Land(h) == /\ Len(txs) < MaxTxs
           /\ txs' = Append(txs, [hash |-> h, state |-> "pending", block |-> 0])

Forget == valid' = FALSE /\ preparedHash' = ZeroHash

\* "Attestation is done for this epoch" is said of the epoch the chain is in, which is
\* not w if the event has waited for too long or the chain was reorganised out of w.
OfAnother(w, reply) == reply = "done" /\ EpochOf(tip + 1) # w

\* Mutant: a transaction that was refused is kept for the next attempt.
InvokeKeeps(w, try, troubles, b) ==
  \E reply \in EstimateFee(b) :
    /\ \/ /\ reply = "ok"
          /\ Land(b)
          /\ status' = "Ongoing" /\ followed' = Len(txs) + 1
          /\ Forget
       \/ /\ reply # "ok"
          /\ status' = IF reply = "done" THEN "Successful" ELSE "Failed"
          /\ followed' = 0
          /\ valid' = TRUE /\ preparedHash' = b
          /\ UNCHANGED txs
    /\ Logged(w, try, troubles, OfAnother(w, reply))

\* The attempt, with no call failing.
Invoke(w, try, troubles, b) ==
  /\ \E reply \in EstimateFee(b) :
       /\ \/ /\ reply = "ok"
             /\ Land(b)
             /\ status' = "Ongoing" /\ followed' = Len(txs) + 1
          \/ /\ reply # "ok"
             /\ status' = IF reply = "done" THEN "Successful" ELSE "Failed"
             /\ followed' = 0
             /\ UNCHANGED txs
       /\ Logged(w, try, troubles, OfAnother(w, reply))
  /\ Forget

\* Mutant: the hash is taken over before the error is looked at.
InvokeFailsFollowed(w, try, b) ==
  /\ Forget
  /\ status' = "Failed" /\ followed' = Len(txs) + 1
  /\ (TakenIn(tip + 1, b) /\ Land(b)) \/ UNCHANGED txs
  /\ Logged(w, try, 1, FALSE)

\* The estimate or the gateway fails, or the gateway's answer is lost.
InvokeFails(w, try, b) ==
  /\ Forget
  /\ status' = "Failed" /\ followed' = 0
  /\ (TakenIn(tip + 1, b) /\ Land(b)) \/ UNCHANGED txs
  /\ Logged(w, try, 1, FALSE)

\* Build or UpdateNonce fails, and the status stays at Ongoing.
BuildFails(w) == /\ status' = "Ongoing" /\ followed' = 0
                 /\ UNCHANGED <<valid, preparedHash, txs>>
                 /\ Logged(w, 0, 1, TRUE)

\* A prepared transaction goes first, whatever hash the event carries; missed: the calls
\* that failed in this event before.
Built(h) == IF valid THEN preparedHash ELSE h
Attempt(w, h, try, missed) == LET b == Built(h) IN
  \/ Invoke(w, try, missed, b) /\ Faults(missed)
  \/ InvokeFails(w, try, b) /\ Faults(missed + 1)
  \/ BuildFails(w) /\ Faults(missed + 1)

\* case attest, ok := <-d.DoAttest
TakeDo(i) == LET h == processor[i].hash
                 w == processor[i].epoch
                 try == IF TakenIn(tip + 1, h) THEN 1 ELSE 0 IN
  /\ Offers(i, "do")
  /\ Taken(i)
  /\ \/ /\ status \in {"Iddle", "Failed"}
        /\ Attempt(w, h, try, 0)
     \/ /\ status = "Ongoing" /\ TrackAttest = "Failed"
        /\ Attempt(w, h, try, 0)
     \/ /\ status = "Ongoing"
        /\ Attempt(w, h, try, 1)
     \/ /\ status = "Ongoing" /\ TrackAttest # "Failed"
        /\ status' = TrackAttest
        /\ Logged(w, try, 0, FALSE)
        /\ UNCHANGED <<txs, followed, valid, preparedHash, faults>>
     \/ /\ status = "Successful"
        /\ Logged(w, try, 0, FALSE)
        /\ UNCHANGED <<txs, status, followed, valid, preparedHash, faults>>
  /\ UNCHANGED <<chain, watcher, counters>>

\* Mutant: the slate keeps the status.
CloseWindowKeeps(verdict) ==
  /\ IF verdict = "Successful" THEN confirmed' = confirmed + 1 /\ UNCHANGED failed
                               ELSE failed' = failed + 1 /\ UNCHANGED confirmed
  /\ status' = verdict /\ followed' = 0
  /\ Forget
  /\ log' = [EmptyLog EXCEPT !.troubles = Cardinality(Pending)]

\* The verdict, and the clean slate.
CloseWindow(verdict) ==
  /\ IF verdict = "Successful" THEN confirmed' = confirmed + 1 /\ UNCHANGED failed
                               ELSE failed' = failed + 1 /\ UNCHANGED confirmed
  /\ status' = "Iddle" /\ followed' = 0
  /\ Forget
  /\ log' = [EmptyLog EXCEPT !.troubles = Cardinality(Pending)]

\* case <-d.EndOfWindow
TakeEndOfWindow(i) ==
  /\ Offers(i, "over")
  /\ Taken(i)
  /\ \/ CloseWindow(IF status = "Successful" THEN status ELSE TrackAttest) /\ UNCHANGED faults
     \/ status # "Successful" /\ Fault /\ CloseWindow("Failed")
  /\ UNCHANGED <<chain, txs, watcher>>

Dispatch(i) == TakePrepare(i) \/ TakeDo(i) \/ TakeEndOfWindow(i)

ProcessBlockHeaders(i) == \/ Fetch(i) \/ LookUp(i) \/ ReceiveHeader(i) \/ Switch(i)
                          \/ FeedEnds(i) \/ Dispatch(i)

Chain == NewBlock \/ NewBlockWithout \/ \E to \in 0..(tip - 1) : tip - to <= MaxDepth /\ Reorg(to)

Watcher == Subscribe \/ SubscriptionError \/ TakeReorg

Next == Chain \/ Watcher \/ \E i \in Subs : ProcessBlockHeaders(i)

\* The goroutines are scheduled and served.
Fairness == \A i \in Subs : WF_vars(ProcessBlockHeaders(i))

Spec == Init /\ [][Next]_vars /\ Fairness
-----------------------------------------------------------------------------
\* Once the watcher has dealt with a reorganisation (validator.go:174), the current
\* processor works with the target block the chain has now.
HashFollowsChain ==
  live /\ ~notice /\ processor[subs].pc \in {"receiving", "switching", "sending"}
    => processor[subs].hash \in {ZeroHash, hashes[processor[subs].epoch]}

\* Attempts that the chain would take, at least one more of them than there were troubles: an
\* event in which calls fail, a reorganisation, a transaction prepared for the wrong block,
\* one of an earlier window in the mempool.  And nothing hopeless since the clean slate: no
\* build or nonce lookup failed in a do event (dispatcher.go:221, 232), no transaction was
\* left out of a block, dropped or lost in a reorganisation, none was removed after it had
\* made the status Successful (dispatcher.go:207), and no event was told "done" about
\* another epoch (dispatcher.go:243).  The code makes none of these good.
MayExpect == log.tries > log.troubles /\ ~log.hopeless

\* The end of a window that has really ended.
WindowEnds(i) == TakeEndOfWindow(i) /\ Target(processor[i].epoch) + AttestWindow <= tip

\* What is asked of it: the window is attested; and counted as confirmed, if there were no
\* troubles and the status can be had.
EndsWell(i) == /\ Attested(processor[i].epoch)
               /\ log.troubles = 0 => confirmed' = confirmed + 1 \/ faults' # faults

\* "from [window start, window end), make sure the attestation is done"
\* (validator.go:254).  A window with the attempts to expect it, in which nothing hopeless
\* happened, ends well, provided that every event since the last clean slate was of this
\* window.
WindowSurvives ==
  [][\A i \in Subs : WindowEnds(i) /\ MayExpect /\ log.windows \subseteq {processor[i].epoch}
                      => EndsWell(i)]_vars

\* Until the first subscription is replaced the proviso on the events is not needed,
\* reorganisations or not (what is hopeless is excepted here too): its processor ends a
\* window (validator.go:258) before it begins another one, so that nothing of the
\* dispatcher's state is carried over.
FirstSubscriptionSurvives ==
  [][\A i \in Subs : subs = 1 /\ WindowEnds(i) /\ MayExpect => EndsWell(i)]_vars

\* The same of every window the current subscription sees the end of, as the comment says
\* it.
MakesSureItIsDone ==
  [][\A i \in Subs : i = subs /\ WindowEnds(i) /\ MayExpect
                       /\ processor[i].epoch \in log.windows
                      => Attested(processor[i].epoch)]_vars
=============================================================================
