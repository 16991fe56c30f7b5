--------------------------- MODULE ValidatorProofs ---------------------------
(***************************************************************************)
(* Theorems about Validator for every schedule and any number of           *)
(* reorganisations, of any depth, subscriptions, transactions and faults.  *)
(***************************************************************************)
EXTENDS Validator, EpochScheduleProofs, FiniteSetTheorems

Kinds == {"prepare", "do", "over"}

LEMMA ConstantTypes ==
  /\ LastEpoch \in Nat \ {0} /\ EpochLen \in Nat \ {0} /\ AttestWindow \in Nat
  /\ MinAttestationWindow \in Nat \ {0} /\ MinAttestationWindow <= AttestWindow
  /\ AttestWindow < EpochLen /\ Uint64Size \in Nat \ {0} /\ LastBlock \in Nat
  /\ LastBlock + 1 = LastEpoch * EpochLen /\ LastBlock + 1 < Uint64Size
  /\ Poseidon \in Nat /\ MaxReorgs \in Nat /\ MaxSubs \in Nat /\ MaxTxs \in Nat
  /\ MaxFaults \in Nat
<1>1. /\ LastEpoch \in Nat \ {0} /\ EpochLen \in Nat \ {0} /\ AttestWindow \in Nat
      /\ MinAttestationWindow \in Nat \ {0} /\ MinAttestationWindow <= AttestWindow
      /\ AttestWindow < EpochLen /\ Uint64Size \in Nat \ {0}
      /\ LastEpoch * EpochLen < Uint64Size
      /\ Poseidon \in Nat /\ MaxReorgs \in Nat /\ MaxSubs \in Nat /\ MaxTxs \in Nat
      /\ MaxFaults \in Nat
  BY ValidatorAssumption, MinWindowAssumption, Uint64Assumption
<1>2. LastEpoch * EpochLen \in Nat \ {0}
  BY <1>1
<1> QED
  BY <1>1, <1>2 DEF LastBlock

LEMMA EpochOfBlock == ASSUME NEW b \in 0..LastBlock PROVE EpochOf(b) \in Epochs
<1> DEFINE q == b \div EpochLen
<1>1. b \in Nat /\ b < LastEpoch * EpochLen
  BY ConstantTypes
<1>2. q \in Nat /\ q * EpochLen <= b
  BY <1>1, Division, ConstantTypes
<1>3. q < LastEpoch
  BY <1>1, <1>2, ConstantTypes
<1> QED
  BY <1>2, <1>3, ConstantTypes DEF EpochOf, Epochs

LEMMA EpochIsRegular == ASSUME NEW e \in Epochs PROVE Regular(EpochInfo(e), AttestWindow)
<1>1. e \in Nat \ {0} /\ e <= LastEpoch /\ e - 1 \in Nat
  BY ConstantTypes DEF Epochs
<1>2. /\ (e - 1) * EpochLen \in Nat /\ (e - 1) * EpochLen + EpochLen <= LastEpoch * EpochLen
      /\ e <= LastEpoch * EpochLen /\ EpochLen <= LastEpoch * EpochLen
  BY <1>1, ConstantTypes
<1> QED
  BY <1>1, <1>2, ConstantTypes DEF Regular, EpochInfo, EpochInfos, Uint64

LEMMA TargetType == ASSUME NEW e \in Epochs PROVE Target(e) \in Nat
BY EpochIsRegular, ConstantTypes, TargetInEpoch DEF Target

\* A processor's state: an epoch once it has fetched one, no hash before it has looked it up,
\* and something to send when it is sending.
Fine(p) == /\ p \in Processors
           /\ p.pc \in {"looking", "receiving", "switching", "sending"} => p.epoch \in Epochs
           /\ p.pc \in {"fetching", "looking"} => p.hash = ZeroHash
           /\ p.pc = "sending" => p.outbox # <<>>

\* It works with the target block the chain has.
Follows(p) == p.pc \in {"receiving", "switching", "sending"}
                => p.hash \in {ZeroHash, hashes[p.epoch]}

VInv == /\ TypeOK
        /\ \A i \in Subs : Fine(processor[i])
        /\ live => subs \in Subs
        /\ \A e \in Epochs : tip < Target(e) => hashes[e] = ZeroHash
        /\ live /\ ~notice => Follows(processor[subs])

LEMMA NewProcessor ==
  ASSUME NEW s \in {"none", "fetching", "returned"}, NEW n \in 0..(LastBlock + 1)
  PROVE  Fine(Processor(s, n)) /\ Follows(Processor(s, n))
<1>1. 0 \in 0..LastBlock /\ <<>> \in Seq(Kinds) /\ ZeroHash \in Hashes
  BY ConstantTypes DEF Hashes
<1> QED
  BY <1>1 DEF Processor, Fine, Follows, Processors, ProcessorStates, Kinds

LEMMA HandledFine ==
  ASSUME NEW p \in Processors, p.epoch \in Epochs, hashes \in [Epochs -> Hashes], NEW b
  PROVE  /\ Fine(Handled(p, b))
         /\ p.hash \in {ZeroHash, hashes[p.epoch]} => Follows(Handled(p, b))
<1> DEFINE info == AttestInfo(Target(p.epoch), AttestWindow)
           out == EventsFor(b, info)
           q == Handled(p, b)
<1>1. out \in Seq(Kinds)
  BY EventTypes DEF Kinds
<1> HIDE DEF info
<1>2. q = [p EXCEPT !.pc = IF out = <<>> THEN "receiving" ELSE "sending",
                    !.outbox = out, !.block = 0,
                    !.hash = IF b = info.targetBlock THEN hashes[p.epoch] ELSE @]
  BY DEF Handled, info
<1> HIDE DEF out
<1>3. /\ q.pc = IF out = <<>> THEN "receiving" ELSE "sending"
      /\ q.epoch = p.epoch /\ q.outbox = out /\ q.block = 0 /\ q.next = p.next
      /\ q.hash = IF b = info.targetBlock THEN hashes[p.epoch] ELSE p.hash
      /\ q = [pc |-> q.pc, epoch |-> q.epoch, hash |-> q.hash, block |-> q.block,
              next |-> q.next, outbox |-> q.outbox]
  BY <1>2 DEF Processors
<1> HIDE DEF q
<1>4. q \in Processors
  <2>1. /\ q.pc \in ProcessorStates /\ q.epoch \in Epochs \cup {0} /\ q.hash \in Hashes
        /\ q.block \in 0..LastBlock /\ q.next \in 0..(LastBlock + 1) /\ q.outbox \in Seq(Kinds)
    BY <1>1, <1>3, ConstantTypes DEF Processors, ProcessorStates
  <2> QED
    BY <1>3, <2>1 DEF Processors, Kinds
<1>5. Fine(q)
  BY <1>3, <1>4 DEF Fine
<1>6. p.hash \in {ZeroHash, hashes[p.epoch]} => Follows(q)
  BY <1>3 DEF Follows
<1> QED
  BY <1>5, <1>6 DEF q

\* A mempool in which every transaction has been replaced.
LEMMA MapTxs ==
  ASSUME txs \in Seq(Txs), NEW new \in [DOMAIN txs -> Txs]
  PROVE  new \in Seq(Txs) /\ Len(new) = Len(txs)
OBVIOUS

LEMMA LogType ==
  ASSUME log \in Logs, NEW w \in Epochs, NEW try \in Nat, NEW troubles \in Nat,
         NEW hopeless \in BOOLEAN, Logged(w, try, troubles, hopeless)
  PROVE  log' \in Logs
<1>1. /\ log.windows \in SUBSET Epochs /\ log.tries \in Nat /\ log.troubles \in Nat
      /\ log.hopeless \in BOOLEAN
  BY DEF Logs
<1> DEFINE ws == log.windows \cup {w}
           ts == try + (IF w \in log.windows THEN log.tries ELSE 0)
           h == log.hopeless \/ hopeless
<1>2. ws \in SUBSET Epochs /\ ts \in Nat /\ log.troubles + troubles \in Nat /\ h \in BOOLEAN
  BY <1>1
<1>3. log' = [log EXCEPT !.windows = ws, !.tries = ts, !.troubles = @ + troubles, !.hopeless = h]
  BY DEF Logged
<1> HIDE DEF ws, ts, h
<1> QED
  BY <1>1, <1>2, <1>3 DEF Logs

\* What a step needs that leaves the processors, the watcher and the chain alone, and one
\* that moves a single processor.
LEMMA KeepsFollowing ==
  ASSUME VInv, UNCHANGED <<hashes, tip, live, notice, subs>>, TypeOK',
         NEW i \in Subs, NEW q, processor' = [processor EXCEPT ![i] = q],
         Fine(q), Follows(processor[i]) \/ i # subs => Follows(q)
  PROVE  VInv'
<1>1. processor' \in [Subs -> Processors] /\ processor \in [Subs -> Processors]
  BY DEF VInv, TypeOK
<1>2. processor'[i] = q /\ \A j \in Subs \ {i} : processor'[j] = processor[j]
  BY <1>1
<1>3. \A j \in Subs : Fine(processor'[j])
  BY <1>2 DEF VInv
<1>4. live /\ ~notice => Follows(processor'[subs])
  BY <1>2 DEF VInv
<1> QED
  BY <1>3, <1>4 DEF VInv, Fine, Follows

-----------------------------------------------------------------------------
(***************************************************************************)
(* Every step keeps the invariant: the processors.                         *)
(***************************************************************************)
LEMMA BecomesStep ==
  ASSUME VInv, NEW i \in Subs, NEW q, Becomes(i, q), UNCHANGED txs, faults' \in 0..MaxFaults,
         Fine(q), Follows(processor[i]) \/ i # subs => Follows(q)
  PROVE  VInv'
<1>1. /\ UNCHANGED <<chain, txs, watcher, tracker, counters, log>>
      /\ processor' = [processor EXCEPT ![i] = q]
  BY DEF Becomes
<1>2. processor' \in [Subs -> Processors]
  BY <1>1 DEF VInv, TypeOK, Fine
<1>3. TypeOK'
  BY <1>1, <1>2 DEF VInv, TypeOK, chain, watcher, tracker, counters
<1> QED
  BY <1>1, <1>3, KeepsFollowing DEF chain, watcher

LEMMA ProcessorStep ==
  ASSUME VInv, NEW i \in Subs,
         Fetch(i) \/ LookUp(i) \/ ReceiveHeader(i) \/ Switch(i) \/ FeedEnds(i)
  PROVE  VInv'
<1> DEFINE p == processor[i]
<1>1. /\ Fine(p) /\ p \in Processors /\ tip \in 0..LastBlock /\ hashes \in [Epochs -> Hashes]
      /\ faults \in 0..MaxFaults
  BY DEF VInv, Fine, TypeOK
<1> HIDE DEF p
<1>2. CASE Fetch(i)
  <2> DEFINE q == [p EXCEPT !.pc = "looking", !.epoch = EpochOf(tip)]
  <2>1. p.pc = "fetching" /\ Becomes(i, q) /\ UNCHANGED <<txs, faults>>
    BY <1>2 DEF Fetch, p, Becomes
  <2>2. Fine(q) /\ Follows(q)
    BY <1>1, <2>1, EpochOfBlock DEF Fine, Follows, Processors, ProcessorStates
  <2> HIDE DEF q
  <2> QED
    BY <1>1, <2>1, <2>2, BecomesStep
<1>3. CASE LookUp(i)
  <2>1. /\ p.pc = "looking" /\ faults' \in 0..MaxFaults
        /\ \/ Becomes(i, [p EXCEPT !.pc = "receiving", !.hash = hashes[p.epoch]])
           \/ Becomes(i, [p EXCEPT !.pc = "receiving"])
    BY <1>1, <1>3, ConstantTypes DEF LookUp, p, Fault, Faults
  <2>2. /\ Fine([p EXCEPT !.pc = "receiving", !.hash = hashes[p.epoch]])
        /\ Follows([p EXCEPT !.pc = "receiving", !.hash = hashes[p.epoch]])
    BY <1>1, <2>1 DEF Fine, Follows, Processors, ProcessorStates
  <2>3. Fine([p EXCEPT !.pc = "receiving"]) /\ Follows([p EXCEPT !.pc = "receiving"])
    BY <1>1, <2>1 DEF Fine, Follows, Processors, ProcessorStates
  <2>4. UNCHANGED txs
    BY <2>1 DEF Becomes
  <2> QED
    BY <2>1, <2>2, <2>3, <2>4, BecomesStep
<1>4. CASE ReceiveHeader(i)
  <2> DEFINE q == [p EXCEPT !.next = @ + 1]
             s == [q EXCEPT !.pc = "switching", !.block = p.next]
             r == Handled(q, p.next)
  <2>1. /\ p.pc = "receiving" /\ p.next <= tip /\ UNCHANGED faults
        /\ Becomes(i, s) \/ Becomes(i, r)
    BY <1>4 DEF ReceiveHeader, p
  <2>2. UNCHANGED txs
    BY <2>1 DEF Becomes
  <2>3. /\ p.epoch \in Epochs /\ p.next + 1 \in 0..(LastBlock + 1) /\ p.next \in 0..LastBlock
    BY <1>1, <2>1, ConstantTypes DEF Fine, Processors
  <2>4. /\ q \in Processors /\ q.epoch = p.epoch /\ q.hash = p.hash /\ q.pc = "receiving"
    BY <1>1, <2>1, <2>3 DEF Processors
  <2> HIDE DEF q
  <2>5. Fine(r) /\ (Follows(p) => Follows(r))
    BY <1>1, <2>1, <2>3, <2>4, HandledFine DEF Follows
  <2>6. Fine(s) /\ (Follows(p) => Follows(s))
    BY <2>1, <2>3, <2>4 DEF Fine, Follows, Processors, ProcessorStates
  <2> HIDE DEF r, s
  <2>7. i = subs
    BY <1>4 DEF ReceiveHeader, FeedOpen
  <2> QED
    BY <1>1, <2>1, <2>2, <2>5, <2>6, <2>7, BecomesStep DEF p
<1>5. CASE Switch(i)
  <2> DEFINE q == [p EXCEPT !.epoch = EpochOf(tip), !.hash = ZeroHash]
             r == Handled(q, p.block)
  <2>1. p.pc = "switching" /\ UNCHANGED <<txs, faults>> /\ Becomes(i, r)
    BY <1>5 DEF Switch, p, Becomes
  <2>2. q \in Processors /\ q.epoch = EpochOf(tip) /\ q.hash = ZeroHash /\ q.epoch \in Epochs
    BY <1>1, EpochOfBlock DEF Processors, Hashes
  <2> HIDE DEF q
  <2>3. Fine(r) /\ Follows(r)
    BY <1>1, <2>2, HandledFine
  <2> HIDE DEF r
  <2> QED
    BY <1>1, <2>1, <2>3, BecomesStep
<1>6. CASE FeedEnds(i)
  <2>1. UNCHANGED <<txs, faults>> /\ Becomes(i, Processor("returned", 0))
    BY <1>6 DEF FeedEnds, Becomes
  <2>2. Fine(Processor("returned", 0)) /\ Follows(Processor("returned", 0))
    BY NewProcessor, ConstantTypes
  <2> QED
    BY <1>1, <2>1, <2>2, BecomesStep
<1> QED
  BY <1>2, <1>3, <1>4, <1>5, <1>6

(***************************************************************************)
(* The dispatcher.                                                         *)
(***************************************************************************)
LEMMA TakenStep ==
  ASSUME VInv, NEW i \in Subs, processor[i].pc = "sending", Taken(i),
         UNCHANGED <<chain, watcher>>,
         txs' \in Seq(Txs), Len(txs') <= MaxTxs,
         status' \in {"Iddle", "Ongoing", "Successful", "Failed"}, followed' \in 0..Len(txs'),
         valid' \in BOOLEAN, preparedHash' \in Hashes, confirmed' \in Nat, failed' \in Nat,
         faults' \in 0..MaxFaults, log' \in Logs
  PROVE  VInv'
<1> DEFINE p == processor[i]
           rest == Tail(p.outbox)
           next == IF rest = <<>> THEN "receiving" ELSE "sending"
           q == [p EXCEPT !.outbox = rest, !.pc = next]
<1>1. /\ Fine(p) /\ p \in Processors /\ processor \in [Subs -> Processors]
      /\ p.outbox # <<>> /\ p.pc = "sending"
  BY DEF VInv, Fine, TypeOK
<1>2. p.outbox \in Seq(Kinds) /\ rest \in Seq(Kinds) /\ next \in ProcessorStates
  BY <1>1 DEF Processors, Kinds, ProcessorStates
<1>3. processor' = [processor EXCEPT ![i] = q]
  BY <1>1 DEF Taken, Processors
<1> HIDE DEF rest
<1>4. /\ q \in Processors /\ q.pc = next /\ q.epoch = p.epoch /\ q.hash = p.hash
      /\ q.outbox = rest
  BY <1>1, <1>2 DEF Processors, Kinds
<1> HIDE DEF p, q
<1>5. Fine(q)
  BY <1>1, <1>4 DEF Fine
<1>6. Follows(p) => Follows(q)
  BY <1>1, <1>4 DEF Follows
<1>7. processor' \in [Subs -> Processors]
  BY <1>1, <1>3, <1>4
<1>8. TypeOK'
  BY <1>7 DEF VInv, TypeOK, chain, watcher
<1>9. \A j \in Subs : Fine(processor'[j])
  BY <1>1, <1>3, <1>5 DEF VInv
<1>10. live /\ ~notice => Follows(processor'[subs])
  BY <1>1, <1>3, <1>6 DEF VInv, p
<1> QED
  BY <1>8, <1>9, <1>10 DEF VInv, Fine, Follows, chain, watcher

LEMMA PrepareStep == ASSUME VInv, NEW i \in Subs, TakePrepare(i) PROVE VInv'
<1>1. /\ processor[i].pc = "sending" /\ Taken(i)
      /\ UNCHANGED <<chain, txs, watcher, status, followed, counters>>
  BY DEF TakePrepare, Offers
<1>2. /\ processor[i].hash \in Hashes /\ processor[i].epoch \in Epochs
      /\ TypeOK
  BY <1>1 DEF VInv, Fine, Processors
<1>3. /\ valid' \in BOOLEAN /\ preparedHash' \in Hashes /\ faults' \in 0..MaxFaults
      /\ \E troubles \in {0, 1} : Logged(processor[i].epoch, 0, troubles, FALSE)
  <2>1. valid' \in BOOLEAN /\ preparedHash' \in Hashes /\ faults' \in 0..MaxFaults
    <3>1. valid \in BOOLEAN /\ preparedHash \in Hashes /\ faults \in 0..MaxFaults
      BY <1>2 DEF TypeOK
    <3>2. \/ UNCHANGED <<valid, preparedHash, faults>>
          \/ valid' = TRUE /\ preparedHash' = processor[i].hash /\ UNCHANGED faults
          \/ UNCHANGED <<valid, preparedHash>> /\ faults + 1 <= MaxFaults /\ faults' = faults + 1
      BY DEF TakePrepare, Fault, Faults
    <3>3. faults' \in 0..MaxFaults
      BY <3>1, <3>2, ConstantTypes
    <3>4. preparedHash' \in Hashes
      BY <1>2, <3>1, <3>2
    <3>5. valid' \in BOOLEAN
      BY <3>1, <3>2, Zenon
    <3> QED
      BY <3>3, <3>4, <3>5
  <2>2. \E troubles \in {0, 1} : Logged(processor[i].epoch, 0, troubles, FALSE)
    <3>1. \/ Logged(processor[i].epoch, 0, 0, FALSE)
          \/ Logged(processor[i].epoch, 0,
                    IF processor[i].hash = hashes[processor[i].epoch]
                       /\ processor[i].hash # ZeroHash THEN 0 ELSE 1, FALSE)
      BY DEF TakePrepare
    <3> QED
      BY <3>1
  <2> QED
    BY <2>1, <2>2
<1>4. log' \in Logs
  BY <1>2, <1>3, LogType DEF TypeOK
<1> QED
  BY <1>1, <1>2, <1>3, <1>4, TakenStep DEF TypeOK, counters

\* What an attempt to send an attestation leaves behind.
Tracked == /\ txs' \in Seq(Txs) /\ Len(txs') <= MaxTxs
           /\ status' \in {"Iddle", "Ongoing", "Successful", "Failed"} /\ followed' \in 0..Len(txs')
           /\ valid' \in BOOLEAN /\ preparedHash' \in Hashes

LEMMA LandType ==
  ASSUME TypeOK, NEW h \in Hashes, Land(h)
  PROVE  txs' \in Seq(Txs) /\ Len(txs') = Len(txs) + 1 /\ Len(txs') <= MaxTxs
<1>1. [hash |-> h, state |-> "pending", block |-> 0] \in Txs
  BY ConstantTypes DEF Txs
<1>2. txs \in Seq(Txs) /\ Len(txs) < MaxTxs
  BY DEF TypeOK, Land
<1> QED
  BY <1>1, <1>2, ConstantTypes DEF Land

LEMMA ForgetType == Forget => valid' \in BOOLEAN /\ preparedHash' \in Hashes
BY DEF Forget, Hashes

LEMMA InvokeType ==
  ASSUME TypeOK, NEW w \in Epochs, NEW try \in Nat, NEW troubles \in Nat, NEW h \in Hashes,
         Invoke(w, try, troubles, h)
  PROVE  Tracked /\ log' \in Logs
<1>1. Forget /\ \E hopeless \in BOOLEAN : Logged(w, try, troubles, hopeless)
  BY DEF Invoke, OfAnother
<1>2. \/ Land(h) /\ status' = "Ongoing" /\ followed' = Len(txs) + 1
      \/ status' \in {"Successful", "Failed"} /\ followed' = 0 /\ UNCHANGED txs
  BY DEF Invoke
<1>3. txs \in Seq(Txs) /\ Len(txs) <= MaxTxs /\ log \in Logs
  BY DEF TypeOK
<1>4. log' \in Logs
  BY <1>1, <1>3, LogType
<1>5. CASE Land(h) /\ status' = "Ongoing" /\ followed' = Len(txs) + 1
  <2>1. txs' \in Seq(Txs) /\ Len(txs') = Len(txs) + 1 /\ Len(txs') <= MaxTxs
    BY <1>5, LandType
  <2> QED
    BY <1>1, <1>3, <1>4, <1>5, <2>1, ForgetType DEF Tracked
<1>6. CASE status' \in {"Successful", "Failed"} /\ followed' = 0 /\ UNCHANGED txs
  BY <1>1, <1>3, <1>4, <1>6, ForgetType DEF Tracked
<1> QED
  BY <1>2, <1>5, <1>6

LEMMA FaultsType ==
  ASSUME TypeOK, NEW n \in Nat, Faults(n)
  PROVE  faults' \in 0..MaxFaults
BY ConstantTypes DEF TypeOK, Faults

LEMMA AttemptType ==
  ASSUME TypeOK, NEW w \in Epochs, NEW try \in Nat, NEW missed \in Nat, NEW h \in Hashes,
         Attempt(w, h, try, missed)
  PROVE  Tracked /\ log' \in Logs /\ faults' \in 0..MaxFaults
<1>1. Built(h) \in Hashes
  BY DEF TypeOK, Built
<1>2. txs \in Seq(Txs) /\ Len(txs) <= MaxTxs /\ log \in Logs
  BY DEF TypeOK
<1>3. faults' \in 0..MaxFaults
  BY FaultsType DEF Attempt
<1>4. CASE Invoke(w, try, missed, Built(h))
  BY <1>1, <1>3, <1>4, InvokeType
<1>5. CASE InvokeFails(w, try, Built(h))
  <2>1. /\ Forget /\ status' = "Failed" /\ followed' = 0
        /\ Land(Built(h)) \/ UNCHANGED txs
        /\ Logged(w, try, 1, FALSE)
    BY <1>5 DEF InvokeFails
  <2>2. txs' \in Seq(Txs) /\ Len(txs') <= MaxTxs
    BY <1>1, <1>2, <2>1, LandType
  <2>3. log' \in Logs
    BY <1>2, <2>1, LogType
  <2> QED
    BY <1>3, <2>1, <2>2, <2>3, ForgetType DEF Tracked
<1>6. CASE BuildFails(w)
  <2>1. /\ status' = "Ongoing" /\ followed' = 0
        /\ UNCHANGED <<valid, preparedHash, txs>> /\ Logged(w, 0, 1, TRUE)
    BY <1>6 DEF BuildFails
  <2>2. log' \in Logs
    BY <1>2, <2>1, LogType
  <2>3. valid \in BOOLEAN /\ preparedHash \in Hashes
    BY DEF TypeOK
  <2> QED
    BY <1>2, <1>3, <2>1, <2>2, <2>3 DEF Tracked
<1> QED
  BY <1>4, <1>5, <1>6 DEF Attempt

LEMMA TrackType ==
  ASSUME TypeOK
  PROVE  TrackAttest \in {"Ongoing", "Successful", "Failed"}
<1>1. CASE followed = 0
  BY <1>1 DEF TrackAttest
<1>2. CASE followed # 0
  <2>1. txs[followed] \in Txs
    BY <1>2 DEF TypeOK
  <2>2. txs[followed].state \in {"pending", "accepted", "reverted", "dropped"}
    BY <2>1 DEF Txs
  <2> QED
    BY <1>2, <2>2 DEF TrackAttest
<1> QED
  BY <1>1, <1>2

LEMMA DoStep == ASSUME VInv, NEW i \in Subs, TakeDo(i) PROVE VInv'
<1> DEFINE h == processor[i].hash
           w == processor[i].epoch
           try == IF TakenIn(tip + 1, h) THEN 1 ELSE 0
<1>1. processor[i].pc = "sending" /\ Taken(i) /\ UNCHANGED <<chain, watcher, counters>>
  BY DEF TakeDo, Offers
<1>2. TypeOK /\ h \in Hashes /\ w \in Epochs /\ try \in Nat /\ Built(h) \in Hashes
  BY <1>1 DEF VInv, Fine, Processors, TypeOK, Built
<1>3. /\ txs \in Seq(Txs) /\ Len(txs) <= MaxTxs /\ log \in Logs /\ faults \in 0..MaxFaults
      /\ followed \in 0..Len(txs) /\ valid \in BOOLEAN /\ preparedHash \in Hashes
      /\ status \in {"Iddle", "Ongoing", "Successful", "Failed"}
  BY <1>2 DEF TypeOK
<1>4. \/ \E missed \in {0, 1} : Attempt(w, h, try, missed)
      \/ /\ status' = TrackAttest \/ status' = status
         /\ Logged(w, try, 0, FALSE)
         /\ UNCHANGED <<txs, followed, valid, preparedHash, faults>>
  BY DEF TakeDo
<1> HIDE DEF h, w, try
<1>5. Tracked /\ log' \in Logs /\ faults' \in 0..MaxFaults
  <2>1. CASE \E missed \in {0, 1} : Attempt(w, h, try, missed)
    BY <1>2, <2>1, AttemptType
  <2>2. CASE /\ status' = TrackAttest \/ status' = status
             /\ Logged(w, try, 0, FALSE)
             /\ UNCHANGED <<txs, followed, valid, preparedHash, faults>>
    <3>1. log' \in Logs
      BY <1>2, <1>3, <2>2, LogType
    <3>2. status' \in {"Iddle", "Ongoing", "Successful", "Failed"}
      BY <1>2, <1>3, <2>2, TrackType
    <3> QED
      BY <1>3, <2>2, <3>1, <3>2 DEF Tracked
  <2> QED
    BY <1>4, <2>1, <2>2
<1>6. confirmed' \in Nat /\ failed' \in Nat
  BY <1>1, <1>2 DEF TypeOK, counters
<1> QED
  BY <1>1, <1>5, <1>6, TakenStep DEF Tracked

LEMMA EndOfWindowStep == ASSUME VInv, NEW i \in Subs, TakeEndOfWindow(i) PROVE VInv'
<1>1. /\ processor[i].pc = "sending" /\ Taken(i) /\ UNCHANGED <<chain, txs, watcher>>
      /\ \E verdict : CloseWindow(verdict)
      /\ UNCHANGED faults \/ Fault
  BY DEF TakeEndOfWindow, Offers
<1>2. TypeOK /\ Forget
  BY <1>1 DEF VInv, CloseWindow
<1>3. /\ txs' \in Seq(Txs) /\ Len(txs') <= MaxTxs /\ faults \in 0..MaxFaults
      /\ confirmed \in Nat /\ failed \in Nat
  BY <1>1, <1>2 DEF TypeOK
<1>4. confirmed' \in Nat /\ failed' \in Nat /\ status' = "Iddle" /\ followed' = 0
  BY <1>1, <1>3 DEF CloseWindow
<1>5. faults' \in 0..MaxFaults
  BY <1>1, <1>3, ConstantTypes DEF Fault, Faults
<1>6. log' \in Logs
  <2>1. Cardinality(Pending) \in Nat
    <3>1. txs \in Seq(Txs)
      BY <1>2 DEF TypeOK
    <3>2. DOMAIN txs = 1..Len(txs) /\ Len(txs) \in Nat
      BY <3>1
    <3>3. IsFiniteSet(DOMAIN txs)
      BY <3>2, FS_Interval
    <3> QED
      BY <3>3, FS_Subset, FS_CardinalityType DEF Pending
  <2>2. log' = [EmptyLog EXCEPT !.troubles = Cardinality(Pending)]
    BY <1>1 DEF CloseWindow
  <2> QED
    BY <2>1, <2>2 DEF EmptyLog, Logs
<1>7. Len(txs') \in Nat
  BY <1>3
<1> QED
  BY <1>1, <1>2, <1>3, <1>4, <1>5, <1>6, <1>7, ForgetType, TakenStep
-----------------------------------------------------------------------------
(***************************************************************************)
(* The chain and the watcher.                                              *)
(***************************************************************************)
LEMMA GrowFacts ==
  ASSUME VInv, Grow
  PROVE  /\ tip' \in 0..LastBlock /\ hashes' \in [Epochs -> Hashes]
         /\ \A e \in Epochs : tip' < Target(e) => hashes'[e] = ZeroHash
         /\ \A e \in Epochs : hashes'[e] = hashes[e] \/ hashes[e] = ZeroHash
         /\ UNCHANGED <<reorgs, watcher, processor, tracker, counters>>
<1>1. /\ tip' = tip + 1 /\ tip < LastBlock /\ tip \in 0..LastBlock /\ LastBlock \in Nat
      /\ hashes' = [e \in Epochs |-> IF Target(e) = tip + 1 THEN <<e, reorgs>> ELSE hashes[e]]
      /\ hashes \in [Epochs -> Hashes] /\ reorgs \in 0..MaxReorgs
  BY ConstantTypes DEF Grow, VInv, TypeOK
<1>2. hashes' \in [Epochs -> Hashes]
  BY <1>1 DEF Hashes
<1>3. ASSUME NEW e \in Epochs, tip' < Target(e)
      PROVE  hashes'[e] = ZeroHash
  BY <1>1, <1>3, TargetType DEF VInv
<1>4. ASSUME NEW e \in Epochs, hashes'[e] # hashes[e]
      PROVE  hashes[e] = ZeroHash
  <2>1. Target(e) = tip + 1
    BY <1>1, <1>4
  <2>2. tip < Target(e)
    BY <1>1, <2>1
  <2> QED
    BY <2>2 DEF VInv
<1> QED
  BY <1>1, <1>2, <1>3, <1>4 DEF Grow

\* A new block changes no more than the target block it is.
LEMMA GrowStep ==
  ASSUME VInv, Grow, txs' \in Seq(Txs), Len(txs') = Len(txs),
         attestedAt' \in [Epochs -> 0..LastBlock], faults' \in 0..MaxFaults, log' \in Logs
  PROVE  VInv'
<1>1. /\ tip' \in 0..LastBlock /\ hashes' \in [Epochs -> Hashes]
      /\ \A e \in Epochs : tip' < Target(e) => hashes'[e] = ZeroHash
      /\ \A e \in Epochs : hashes'[e] = hashes[e] \/ hashes[e] = ZeroHash
      /\ UNCHANGED <<reorgs, watcher, processor, tracker, counters>>
  BY GrowFacts
<1>2. TypeOK'
  BY <1>1 DEF VInv, TypeOK, watcher, tracker, counters
<1>3. live /\ ~notice => Follows(processor[subs])'
  <2> SUFFICES ASSUME live, ~notice, processor[subs].pc \in {"receiving", "switching", "sending"}
               PROVE  processor[subs].hash \in {ZeroHash, hashes'[processor[subs].epoch]}
    BY <1>1 DEF Follows, watcher
  <2>1. processor[subs].epoch \in Epochs
    BY DEF VInv, Fine
  <2>2. processor[subs].hash \in {ZeroHash, hashes[processor[subs].epoch]}
    BY DEF VInv, Follows
  <2> QED
    BY <1>1, <2>1, <2>2
<1> QED
  BY <1>1, <1>2, <1>3 DEF VInv, Fine, watcher, Target

LEMMA BlockStep == ASSUME VInv, NewBlock \/ NewBlockWithout PROVE VInv'
<1>1. /\ txs \in Seq(Txs) /\ attestedAt \in [Epochs -> 0..LastBlock] /\ log \in Logs
      /\ faults \in 0..MaxFaults /\ tip \in 0..LastBlock /\ LastBlock \in Nat
  BY ConstantTypes DEF VInv, TypeOK
<1>2. tip < LastBlock /\ tip + 1 \in 0..LastBlock /\ Grow
  BY <1>1 DEF NewBlock, NewBlockWithout, Grow
<1>3. CASE NewBlock
  <2>1. Executed \in [DOMAIN txs -> Txs]
    <3> SUFFICES ASSUME NEW i \in DOMAIN txs
                 PROVE  Executed[i] \in Txs
      BY DEF Executed
    <3>1. txs[i] \in Txs
      BY <1>1
    <3>2. \/ Executed[i] = txs[i]
          \/ Executed[i] = [txs[i] EXCEPT !.state = "accepted", !.block = tip + 1]
          \/ Executed[i] = [txs[i] EXCEPT !.state = "reverted", !.block = tip + 1]
      BY DEF Executed
    <3> QED
      BY <1>2, <3>1, <3>2 DEF Txs
  <2>2. txs' \in Seq(Txs) /\ Len(txs') = Len(txs)
    BY <1>1, <1>3, <2>1, MapTxs DEF NewBlock
  <2>3. attestedAt' \in [Epochs -> 0..LastBlock] /\ UNCHANGED <<faults, log>>
    BY <1>1, <1>2, <1>3 DEF NewBlock
  <2> QED
    BY <1>1, <1>2, <2>2, <2>3, GrowStep
<1>4. CASE NewBlockWithout
  <2>1. txs' \in Seq(Txs) /\ Len(txs') = Len(txs)
    <3> DEFINE left == [i \in DOMAIN txs |->
                          IF i \in Pending THEN [txs[i] EXCEPT !.state = "dropped"] ELSE txs[i]]
    <3>1. left \in [DOMAIN txs -> Txs]
      <4> SUFFICES ASSUME NEW i \in DOMAIN txs
                   PROVE  left[i] \in Txs
        OBVIOUS
      <4>1. txs[i] \in Txs
        BY <1>1
      <4> QED
        BY <4>1 DEF Txs
    <3>2. txs' = txs \/ txs' = left
      BY <1>4 DEF NewBlockWithout
    <3> QED
      BY <1>1, <3>1, <3>2, MapTxs
  <2>2. UNCHANGED attestedAt /\ faults' \in 0..MaxFaults /\ log' \in Logs
    <3>1. UNCHANGED attestedAt /\ Fault /\ log' = [log EXCEPT !.hopeless = TRUE]
      BY <1>4 DEF NewBlockWithout
    <3>2. faults' \in 0..MaxFaults
      BY <1>1, <3>1, ConstantTypes DEF Fault, Faults
    <3>3. log' \in Logs
      BY <1>1, <3>1 DEF Logs
    <3> QED
      BY <3>1, <3>2, <3>3
  <2> QED
    BY <1>1, <1>2, <2>1, <2>2, GrowStep
<1> QED
  BY <1>3, <1>4

\* After a reorganisation the watcher has notice of it, if it has a subscription at all.
LEMMA ReorgStep == ASSUME VInv, NEW to \in 0..(tip - 1), Reorg(to) PROVE VInv'
<1>1. /\ txs \in Seq(Txs) /\ attestedAt \in [Epochs -> 0..LastBlock] /\ log \in Logs
      /\ hashes \in [Epochs -> Hashes] /\ tip \in 0..LastBlock /\ reorgs \in 0..MaxReorgs
      /\ processor \in [Subs -> Processors] /\ live \in BOOLEAN
      /\ LastBlock \in Nat /\ MaxReorgs \in Nat
  BY ConstantTypes DEF VInv, TypeOK
<1>2. /\ tip' = to /\ to \in 0..LastBlock /\ to + 1 \in 0..(LastBlock + 1)
      /\ reorgs' \in 0..MaxReorgs /\ notice' = live
      /\ UNCHANGED <<subs, live, tracker, counters, faults>>
  <2>1. /\ tip' = to /\ reorgs < MaxReorgs /\ reorgs' = reorgs + 1 /\ notice' = live
        /\ UNCHANGED <<subs, live, tracker, counters, faults>>
    BY DEF Reorg
  <2>2. to \in Nat /\ to < tip
    BY <1>1
  <2>3. reorgs' \in 0..MaxReorgs
    BY <1>1, <2>1
  <2>4. to \in 0..LastBlock /\ to + 1 \in 0..(LastBlock + 1)
    BY <1>1, <2>2
  <2> QED
    BY <2>1, <2>3, <2>4
<1>3. /\ hashes' = [e \in Epochs |-> IF Target(e) > to THEN ZeroHash ELSE hashes[e]]
      /\ hashes' \in [Epochs -> Hashes]
  BY <1>1 DEF Reorg, Hashes
<1>4. attestedAt' \in [Epochs -> 0..LastBlock]
  <2>1. attestedAt' = [e \in Epochs |-> IF attestedAt[e] > to THEN 0 ELSE attestedAt[e]]
    BY DEF Reorg
  <2>2. 0 \in 0..LastBlock
    BY <1>1
  <2> QED
    BY <1>1, <2>1, <2>2
<1>5. txs' \in Seq(Txs) /\ Len(txs') = Len(txs)
  <2>1. PICK s \in {"pending", "dropped"} :
          txs' = [i \in DOMAIN txs |->
                    IF txs[i].block > to THEN [txs[i] EXCEPT !.state = s, !.block = 0]
                                         ELSE txs[i]]
    BY DEF Reorg
  <2>2. txs' \in [DOMAIN txs -> Txs]
    <3> SUFFICES ASSUME NEW i \in DOMAIN txs
                 PROVE  (IF txs[i].block > to THEN [txs[i] EXCEPT !.state = s, !.block = 0]
                                              ELSE txs[i]) \in Txs
      BY <2>1
    <3>1. txs[i] \in Txs
      BY <1>1
    <3>2. 0 \in 0..LastBlock
      BY <1>1
    <3>3. s \in {"pending", "accepted", "reverted", "dropped"}
      OBVIOUS
    <3>4. [txs[i] EXCEPT !.state = s, !.block = 0] \in Txs
      BY <3>1, <3>2, <3>3 DEF Txs
    <3> QED
      BY <3>1, <3>4
  <2> QED
    BY <1>1, <2>2, MapTxs
<1>6. log' \in Logs
  <2> DEFINE h == log.hopeless \/ status = "Successful" \/ \E i \in DOMAIN txs : txs'[i].state = "dropped"
  <2>1. log' = [log EXCEPT !.tries = 0, !.troubles = @ + 1, !.hopeless = h]
    BY DEF Reorg
  <2>2. h \in BOOLEAN
    OBVIOUS
  <2> HIDE DEF h
  <2>3. log.windows \in SUBSET Epochs /\ log.troubles + 1 \in Nat
    BY <1>1 DEF Logs
  <2> QED
    BY <1>1, <2>1, <2>2, <2>3 DEF Logs
<1>7. /\ processor' \in [Subs -> Processors]
      /\ \A i \in Subs : Fine(processor'[i])
  <2>1. \A i \in Subs : \/ processor'[i] = processor[i]
                       \/ processor'[i] = [processor[i] EXCEPT !.next = to + 1]
    BY DEF Reorg
  <2>2. ASSUME NEW i \in Subs PROVE Fine(processor'[i])
    <3>1. Fine(processor[i]) /\ processor[i] \in Processors
      BY DEF VInv, Fine
    <3>2. Fine([processor[i] EXCEPT !.next = to + 1])
      BY <1>2, <3>1 DEF Fine, Processors
    <3> QED
      BY <2>1, <3>1, <3>2
  <2>3. processor' = [i \in Subs |-> processor'[i]]
    BY DEF Reorg
  <2> QED
    BY <2>2, <2>3 DEF Fine
<1>8. \A e \in Epochs : tip' < Target(e) => hashes'[e] = ZeroHash
  BY <1>2, <1>3, TargetType
<1>9. TypeOK'
  BY <1>1, <1>2, <1>3, <1>4, <1>5, <1>6, <1>7 DEF VInv, TypeOK, tracker, counters
<1> QED
  BY <1>2, <1>7, <1>8, <1>9 DEF VInv, Fine, Target

LEMMA WatcherStep == ASSUME VInv, Watcher PROVE VInv'
<1>1. CASE Subscribe
  <2>1. PICK n \in {tip, tip + 1} :
          processor' = [processor EXCEPT ![subs + 1] = Processor("fetching", n)]
    BY <1>1 DEF Subscribe
  <2>2. /\ subs' = subs + 1 /\ live' = TRUE /\ notice' = FALSE
        /\ UNCHANGED <<chain, txs, tracker, counters, faults, log>>
    BY <1>1 DEF Subscribe
  <2>3. n \in 0..(LastBlock + 1)
    BY ConstantTypes DEF VInv, TypeOK
  <2>4. subs' \in Subs /\ subs' \in 0..MaxSubs
    BY <1>1, <2>2, ConstantTypes DEF Subscribe, VInv, TypeOK, Subs
  <2> DEFINE q == Processor("fetching", n)
  <2>5. Fine(q) /\ Follows(q) /\ q \in Processors
    BY <2>3, NewProcessor DEF Fine
  <2> HIDE DEF q
  <2>6. /\ processor' \in [Subs -> Processors] /\ processor'[subs'] = q
        /\ \A i \in Subs : Fine(processor'[i])
    BY <2>1, <2>2, <2>4, <2>5 DEF VInv, TypeOK, q
  <2>7. TypeOK'
    BY <2>2, <2>4, <2>6 DEF VInv, TypeOK, chain, tracker, counters
  <2>8. UNCHANGED <<hashes, tip>>
    BY <2>2 DEF chain
  <2> QED
    BY <2>2, <2>4, <2>5, <2>6, <2>7, <2>8 DEF VInv, Fine, Follows, Target
<1>2. CASE CleanUp
  <2>1. live' = FALSE /\ notice' = FALSE
        /\ UNCHANGED <<chain, txs, subs, processor, tracker, counters, faults, log>>
    BY <1>2 DEF CleanUp
  <2>2. TypeOK'
    BY <2>1 DEF VInv, TypeOK, chain, tracker, counters
  <2> QED
    BY <2>1, <2>2 DEF VInv, Fine, chain, Target
<1> QED
  BY <1>1, <1>2 DEF Watcher, SubscriptionError, TakeReorg
-----------------------------------------------------------------------------
LEMMA VInvInit == Init => VInv
<1> SUFFICES ASSUME Init PROVE VInv
  OBVIOUS
<1>1. \A e \in Epochs : 0 < Target(e) => hashes[e] = ZeroHash
  BY TargetType DEF Init
<1>2. hashes \in [Epochs -> Hashes]
  BY ConstantTypes DEF Init, Hashes
<1>3. Fine(Processor("none", 0)) /\ Processor("none", 0) \in Processors
  BY NewProcessor, ConstantTypes DEF Fine
<1>4. /\ processor \in [Subs -> Processors] /\ \A i \in Subs : Fine(processor[i])
  BY <1>3 DEF Init
<1>5. EmptyLog \in Logs /\ ZeroHash \in Hashes /\ <<>> \in Seq(Txs) /\ Len(<<>>) = 0
  BY DEF EmptyLog, Logs, Hashes
<1>6. TypeOK
  <2>1. /\ tip \in 0..LastBlock /\ attestedAt \in [Epochs -> 0..LastBlock]
        /\ reorgs \in 0..MaxReorgs /\ subs \in 0..MaxSubs /\ faults \in 0..MaxFaults
    BY ConstantTypes DEF Init
  <2>2. /\ txs \in Seq(Txs) /\ Len(txs) <= MaxTxs /\ followed \in 0..Len(txs)
        /\ preparedHash \in Hashes /\ log \in Logs
    BY <1>5, ConstantTypes DEF Init
  <2>3. /\ live \in BOOLEAN /\ notice \in BOOLEAN /\ valid \in BOOLEAN
        /\ confirmed \in Nat /\ failed \in Nat
        /\ status \in {"Iddle", "Ongoing", "Successful", "Failed"}
    BY DEF Init
  <2> QED
    BY <1>2, <1>4, <2>1, <2>2, <2>3 DEF TypeOK
<1> QED
  BY <1>1, <1>4, <1>6 DEF Init, VInv

LEMMA VInvStep == VInv /\ [Next]_vars => VInv'
<1> SUFFICES ASSUME VInv, [Next]_vars PROVE VInv'
  OBVIOUS
<1>1. CASE Chain
  BY <1>1, BlockStep, ReorgStep DEF Chain
<1>2. CASE Watcher
  BY <1>2, WatcherStep
<1>3. ASSUME NEW i \in Subs, ProcessBlockHeaders(i) PROVE VInv'
  BY <1>3, ProcessorStep, PrepareStep, DoStep, EndOfWindowStep DEF ProcessBlockHeaders, Dispatch
<1>4. CASE UNCHANGED vars
  <2>1. TypeOK'
    BY <1>4 DEF VInv, TypeOK, vars, chain, watcher, tracker, counters
  <2> QED
    BY <1>4, <2>1 DEF VInv, Fine, Follows, Target, vars, chain, watcher
<1> QED
  BY <1>1, <1>2, <1>3, <1>4 DEF Next

\* The types of the chain, the processors and the tracker: in particular a hash the tracker
\* follows is one of a transaction the gateway took, reorganised or not.
THEOREM TypeCorrect == Spec => []TypeOK
<1>1. VInv => TypeOK
  BY DEF VInv
<1> QED
  BY <1>1, VInvInit, VInvStep, PTL DEF Spec

\* Once the watcher has dealt with a reorganisation (validator.go:174) the current processor
\* has the hash of the target block the chain has now, or none, however deep the
\* reorganisations are and however many processors have been left behind.
THEOREM HashFollowsChainAlways == Spec => []HashFollowsChain
<1>1. VInv => HashFollowsChain
  BY DEF VInv, Follows, HashFollowsChain
<1> QED
  BY <1>1, VInvInit, VInvStep, PTL DEF Spec
=============================================================================
