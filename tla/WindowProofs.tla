----------------------------- MODULE WindowProofs -----------------------------
(***************************************************************************)
(* What Validator promises of a window, for every schedule and any number  *)
(* of reorganisations, of any depth, subscriptions, transactions and       *)
(* faults, in one event or in many: one with more attempts than troubles   *)
(* is attested, unless something hopeless happened (Validator, MayExpect). *)
(***************************************************************************)
EXTENDS ValidatorProofs

\* A hash is one of the blocks that have been the target of epoch e, or none.
Own(h, e) == h = ZeroHash \/ h \in {e} \X (0..MaxReorgs)

\* No hash is taken for another epoch's.
HashesOwn == /\ \A e \in Epochs : Own(hashes[e], e)
             /\ \A i \in Subs : Own(processor[i].hash, processor[i].epoch)

\* What the node says of a transaction agrees with the contract.
TxsOwn == \A k \in DOMAIN txs :
  /\ txs[k].hash[1] \in Epochs
  /\ txs[k].state = "accepted" =>
       txs[k].block # 0 /\ attestedAt[txs[k].hash[1]] = txs[k].block

\* Without troubles the mempool has no transaction but the one the tracker follows.
Sole == log.troubles = 0 => \A k \in Pending : status = "Ongoing" /\ followed = k

\* The events since the clean slate are of window w, and nothing has gone wrong for good.
Alone(w) == log.windows \subseteq {w} /\ ~log.hopeless

\* The window is attested, or the next block will do it.
Coming(w) ==
  \/ Attested(w)
  \/ EpochOf(tip + 1) = w /\ \E k \in Pending : TakenIn(tip + 1, txs[k].hash)

Prepared(w) == Alone(w) /\ valid => Own(preparedHash, w)

\* The prepared transaction is one the contract will refuse: it costs the next attempt.
Misled(w) == valid /\ (preparedHash # hashes[w] \/ preparedHash = ZeroHash)

\* Each attempt that came to nothing has been paid for by a trouble, and so has the one
\* that a prepared transaction will cost.
Accounts(w) ==
  Alone(w) => Coming(w) \/ log.tries + (IF Misled(w) THEN 1 ELSE 0) <= log.troubles

\* The block a transaction is executed in, as far as one can tell.
Place(t) == IF t.state = "pending" THEN tip + 1 ELSE t.block

\* The tracker follows a transaction of the window; if it is not of the target block that
\* the chain has now, it is executed before the window begins.
FollowedOwn(w) == Alone(w) /\ status = "Ongoing" =>
  /\ followed # 0 /\ txs[followed].hash[1] = w /\ txs[followed].state # "dropped"
  /\ txs[followed].hash = hashes[w] \/ Place(txs[followed]) <= Target(w)

Succeeded(w) == Alone(w) /\ status = "Successful" => Coming(w)

\* Without troubles the first attempt is on its way, or there.
Delivered(w) == Alone(w) /\ log.tries > 0 /\ log.troubles = 0 =>
  \/ status = "Successful"
  \/ /\ status = "Ongoing"
     /\ \/ txs[followed].state = "accepted"
        \/ txs[followed].state = "pending" /\ TakenIn(tip + 1, txs[followed].hash)

Window(w) == Prepared(w) /\ Accounts(w) /\ FollowedOwn(w) /\ Succeeded(w) /\ Delivered(w)

Mempool == TxsOwn /\ Sole

WInv == VInv /\ HashesOwn /\ Mempool /\ \A w \in Epochs : Window(w)

-----------------------------------------------------------------------------
(***************************************************************************)
(* Facts.                                                                  *)
(***************************************************************************)
LEMMA Facts ==
  ASSUME VInv
  PROVE  /\ tip \in 0..LastBlock /\ tip \in Nat /\ hashes \in [Epochs -> Hashes]
         /\ attestedAt \in [Epochs -> 0..LastBlock] /\ reorgs \in 0..MaxReorgs
         /\ txs \in Seq(Txs) /\ Len(txs) \in Nat /\ DOMAIN txs = 1..Len(txs)
         /\ \A k \in DOMAIN txs : txs[k] \in Txs
         /\ followed \in 0..Len(txs) /\ (followed # 0 => followed \in DOMAIN txs)
         /\ status \in {"Iddle", "Ongoing", "Successful", "Failed"}
         /\ log.windows \in SUBSET Epochs /\ log.tries \in Nat /\ log.troubles \in Nat
         /\ log.hopeless \in BOOLEAN
<1>1. TypeOK
  BY DEF VInv
<1>2. txs \in Seq(Txs) /\ tip \in 0..LastBlock /\ log \in Logs /\ followed \in 0..Len(txs)
  BY <1>1 DEF TypeOK
<1>3. tip \in Nat
  BY <1>2, ConstantTypes
<1>4. /\ log.windows \in SUBSET Epochs /\ log.tries \in Nat /\ log.troubles \in Nat
      /\ log.hopeless \in BOOLEAN
  BY <1>2 DEF Logs
<1>5. /\ Len(txs) \in Nat /\ DOMAIN txs = 1..Len(txs) /\ \A k \in DOMAIN txs : txs[k] \in Txs
  BY <1>2
<1>6. followed # 0 => followed \in DOMAIN txs
  BY <1>2, <1>5
<1> QED
  BY <1>1, <1>2, <1>3, <1>4, <1>5, <1>6 DEF TypeOK

\* A block hash tells the epoch.
LEMMA OwnEpoch ==
  ASSUME NEW h, NEW e, NEW f, Own(h, e), Own(h, f), h # ZeroHash
  PROVE  e = f /\ h[1] = e
BY DEF Own

LEMMA NoEpochZero == ASSUME NEW h, h[1] \in Epochs PROVE h # ZeroHash
BY ConstantTypes DEF ZeroHash, Epochs

\* What the contract takes in the next block is an attestation of that block's epoch.
LEMMA TakenFacts ==
  ASSUME HashesOwn, NEW b, NEW h, TakenIn(b, h)
  PROVE  /\ EpochOf(b) \in Epochs /\ ~Attested(EpochOf(b)) /\ h = hashes[EpochOf(b)]
         /\ h # ZeroHash /\ Own(h, EpochOf(b)) /\ h[1] = EpochOf(b)
         /\ Target(EpochOf(b)) + MinAttestationWindow <= b
         /\ b <= Target(EpochOf(b)) + AttestWindow
<1>1. EpochOf(b) \in Epochs /\ h = hashes[EpochOf(b)] /\ h # ZeroHash
  BY DEF TakenIn
<1>2. Own(h, EpochOf(b))
  BY <1>1 DEF HashesOwn
<1> QED
  BY <1>1, <1>2, OwnEpoch DEF TakenIn

LEMMA LoggedFields ==
  ASSUME VInv, NEW w \in Epochs, NEW try \in Nat, NEW troubles \in Nat,
         NEW hopeless \in BOOLEAN, Logged(w, try, troubles, hopeless)
  PROVE  /\ log'.windows = log.windows \cup {w}
         /\ log'.tries = try + (IF w \in log.windows THEN log.tries ELSE 0)
         /\ log'.tries <= log.tries + try /\ log'.tries \in Nat
         /\ log'.troubles = log.troubles + troubles
         /\ log'.hopeless = (log.hopeless \/ hopeless)
<1> DEFINE ws == log.windows \cup {w}
           ts == try + (IF w \in log.windows THEN log.tries ELSE 0)
           h == log.hopeless \/ hopeless
<1>1. log \in Logs
  BY DEF VInv, TypeOK
<1>2. log' = [log EXCEPT !.windows = ws, !.tries = ts, !.troubles = @ + troubles, !.hopeless = h]
  BY DEF Logged
<1> HIDE DEF ws, ts, h
<1>3. log'.windows = ws /\ log'.tries = ts /\ log'.troubles = log.troubles + troubles
  BY <1>1, <1>2 DEF Logs
<1>4. log'.hopeless = h
  BY <1>1, <1>2 DEF Logs
<1>5. ts <= log.tries + try /\ ts \in Nat
  BY Facts DEF ts
<1> QED
  BY <1>3, <1>4, <1>5 DEF ws, ts, h

\* An event of another window, or one that leaves no hope, makes no promise.
LEMMA NoPromise == ASSUME NEW w, ~Alone(w)' PROVE Window(w)'
BY DEF Window, Prepared, Accounts, FollowedOwn, Succeeded, Delivered

LEMMA SameEvent ==
  ASSUME VInv, NEW w \in Epochs, NEW try \in Nat, NEW troubles \in Nat, NEW v \in Epochs,
         NEW hopeless \in BOOLEAN, Logged(w, try, troubles, hopeless), Alone(v)'
  PROVE  v = w /\ Alone(v) /\ ~hopeless
<1>1. log'.windows = log.windows \cup {w} /\ log'.hopeless = (log.hopeless \/ hopeless)
  BY LoggedFields
<1>2. log'.windows \subseteq {v} /\ ~log'.hopeless
  BY DEF Alone
<1> QED
  BY <1>1, <1>2 DEF Alone

-----------------------------------------------------------------------------
(***************************************************************************)
(* The processors and the watcher change nothing of this but a hash.       *)
(***************************************************************************)
Quiet == UNCHANGED <<chain, txs, tracker, log>>

LEMMA QuietStep ==
  ASSUME WInv, Quiet, \A i \in Subs : Own(processor'[i].hash, processor'[i].epoch)
  PROVE  HashesOwn' /\ Mempool' /\ \A w \in Epochs : Window(w)'
<1>1. /\ tip' = tip /\ hashes' = hashes /\ attestedAt' = attestedAt /\ txs' = txs
      /\ status' = status /\ followed' = followed /\ valid' = valid
      /\ preparedHash' = preparedHash /\ log' = log
  BY DEF Quiet, chain, tracker
<1>2. HashesOwn'
  BY <1>1 DEF WInv, HashesOwn, Own
<1>3. Mempool'
  BY <1>1 DEF WInv, Mempool, TxsOwn, Sole, Pending
<1>4. ASSUME NEW w \in Epochs PROVE Window(w)'
  <2>1. Window(w)
    BY DEF WInv
  <2>2. Alone(w)' = Alone(w) /\ Misled(w)' = Misled(w) /\ Coming(w)' = Coming(w)
    BY <1>1 DEF Alone, Misled, Coming, Attested, Pending, TakenIn, Target, EpochOf
  <2>3. Place(txs[followed])' = Place(txs[followed])
    BY <1>1 DEF Place
  <2>4. TakenIn(tip + 1, txs[followed].hash)' = TakenIn(tip + 1, txs[followed].hash)
    BY <1>1 DEF TakenIn, Attested, Target, EpochOf
  <2>5. Prepared(w)' /\ Accounts(w)'
    BY <1>1, <2>1, <2>2 DEF Window, Prepared, Accounts, Own
  <2>6. FollowedOwn(w)'
    BY <1>1, <2>1, <2>2, <2>3 DEF Window, FollowedOwn, Target
  <2>7. Succeeded(w)' /\ Delivered(w)'
    BY <1>1, <2>1, <2>2, <2>4 DEF Window, Succeeded, Delivered
  <2> QED
    BY <2>5, <2>6, <2>7 DEF Window
<1> QED
  BY <1>2, <1>3, <1>4

LEMMA MovedStep ==
  ASSUME WInv, VInv', NEW i \in Subs, NEW q, UNCHANGED txs, Becomes(i, q), Own(q.hash, q.epoch)
  PROVE  WInv'
<1>1. Quiet /\ processor' = [processor EXCEPT ![i] = q]
  BY DEF Becomes, Quiet
<1>2. processor \in [Subs -> Processors]
  BY DEF WInv, VInv, TypeOK
<1>3. \A j \in Subs : Own(processor'[j].hash, processor'[j].epoch)
  BY <1>1, <1>2 DEF WInv, HashesOwn
<1> QED
  BY <1>1, <1>3, QuietStep DEF WInv

LEMMA HandledOwn ==
  ASSUME NEW p \in Processors, p.epoch \in Epochs, Own(p.hash, p.epoch), HashesOwn, NEW b
  PROVE  Own(Handled(p, b).hash, Handled(p, b).epoch)
<1> DEFINE info == AttestInfo(Target(p.epoch), AttestWindow)
           out == EventsFor(b, info)
           q == Handled(p, b)
<1>1. q = [p EXCEPT !.pc = IF out = <<>> THEN "receiving" ELSE "sending",
                    !.outbox = out, !.block = 0,
                    !.hash = IF b = info.targetBlock THEN hashes[p.epoch] ELSE @]
  BY DEF Handled
<1> HIDE DEF info, out, q
<1>2. q.epoch = p.epoch /\ q.hash \in {p.hash, hashes[p.epoch]}
  BY <1>1 DEF Processors
<1>3. Own(hashes[p.epoch], p.epoch)
  BY DEF HashesOwn
<1> QED
  BY <1>2, <1>3 DEF q

LEMMA WindowProcessorStep ==
  ASSUME WInv, VInv', NEW i \in Subs,
         Fetch(i) \/ LookUp(i) \/ ReceiveHeader(i) \/ Switch(i) \/ FeedEnds(i)
  PROVE  WInv'
<1> DEFINE p == processor[i]
<1>1. /\ Fine(p) /\ p \in Processors /\ tip \in 0..LastBlock /\ Own(p.hash, p.epoch) /\ HashesOwn
  BY DEF WInv, VInv, Fine, TypeOK, HashesOwn
<1> HIDE DEF p
<1>2. CASE Fetch(i)
  <2> DEFINE q == [p EXCEPT !.pc = "looking", !.epoch = EpochOf(tip)]
  <2>1. p.pc = "fetching" /\ Becomes(i, q) /\ UNCHANGED txs
    BY <1>2 DEF Fetch, p, Becomes
  <2>2. q.hash = ZeroHash
    BY <1>1, <2>1 DEF Fine, Processors
  <2> HIDE DEF q
  <2> QED
    BY <2>1, <2>2, MovedStep DEF Own
<1>3. CASE LookUp(i)
  <2> DEFINE q == [p EXCEPT !.pc = "receiving", !.hash = hashes[p.epoch]]
             r == [p EXCEPT !.pc = "receiving"]
  <2>1. p.pc = "looking" /\ (Becomes(i, q) \/ Becomes(i, r))
    BY <1>3 DEF LookUp, p
  <2>2. q.hash = hashes[p.epoch] /\ q.epoch = p.epoch /\ r.hash = p.hash /\ r.epoch = p.epoch
    BY <1>1 DEF Processors
  <2>3. Own(q.hash, q.epoch) /\ Own(r.hash, r.epoch)
    BY <1>1, <2>1, <2>2 DEF HashesOwn, Fine
  <2>4. UNCHANGED txs
    BY <2>1 DEF Becomes
  <2> HIDE DEF q, r
  <2> QED
    BY <2>1, <2>3, <2>4, MovedStep
<1>4. CASE ReceiveHeader(i)
  <2> DEFINE q == [p EXCEPT !.next = @ + 1]
             s == [q EXCEPT !.pc = "switching", !.block = p.next]
             r == Handled(q, p.next)
  <2>1. p.pc = "receiving" /\ p.next <= tip /\ (Becomes(i, s) \/ Becomes(i, r))
    BY <1>4 DEF ReceiveHeader, p
  <2>2. p.epoch \in Epochs /\ p.next + 1 \in 0..(LastBlock + 1) /\ p.next \in 0..LastBlock
    BY <1>1, <2>1, ConstantTypes DEF Fine, Processors
  <2>3. q \in Processors /\ q.epoch = p.epoch /\ q.hash = p.hash
    BY <1>1, <2>2 DEF Processors
  <2>4. UNCHANGED txs
    BY <2>1 DEF Becomes
  <2> HIDE DEF q
  <2>5. Own(r.hash, r.epoch)
    BY <1>1, <2>2, <2>3, HandledOwn
  <2>6. Own(s.hash, s.epoch)
    BY <1>1, <2>3 DEF Processors
  <2> HIDE DEF r, s
  <2> QED
    BY <2>1, <2>4, <2>5, <2>6, MovedStep
<1>5. CASE Switch(i)
  <2> DEFINE q == [p EXCEPT !.epoch = EpochOf(tip), !.hash = ZeroHash]
             r == Handled(q, p.block)
  <2>1. UNCHANGED txs /\ Becomes(i, r)
    BY <1>5 DEF Switch, p, Becomes
  <2>2. q \in Processors /\ q.epoch = EpochOf(tip) /\ q.hash = ZeroHash /\ q.epoch \in Epochs
    BY <1>1, EpochOfBlock DEF Processors, Hashes
  <2> HIDE DEF q
  <2>3. Own(r.hash, r.epoch)
    BY <1>1, <2>2, HandledOwn DEF Own
  <2> HIDE DEF r
  <2> QED
    BY <2>1, <2>3, MovedStep
<1>6. CASE FeedEnds(i)
  <2>1. UNCHANGED txs /\ Becomes(i, Processor("returned", 0))
    BY <1>6 DEF FeedEnds, Becomes
  <2>2. Own(Processor("returned", 0).hash, Processor("returned", 0).epoch)
    BY DEF Processor, Own
  <2> QED
    BY <2>1, <2>2, MovedStep
<1> QED
  BY <1>2, <1>3, <1>4, <1>5, <1>6

LEMMA WindowWatcherStep == ASSUME WInv, VInv', Watcher PROVE WInv'
<1>1. CASE Subscribe
  <2>1. PICK n \in {tip, tip + 1} :
          processor' = [processor EXCEPT ![subs + 1] = Processor("fetching", n)]
    BY <1>1 DEF Subscribe
  <2>2. Quiet
    BY <1>1 DEF Subscribe, Quiet
  <2>3. processor \in [Subs -> Processors]
    BY DEF WInv, VInv, TypeOK
  <2>4. Own(Processor("fetching", n).hash, Processor("fetching", n).epoch)
    BY DEF Processor, Own
  <2>5. \A j \in Subs : Own(processor'[j].hash, processor'[j].epoch)
    BY <2>1, <2>3, <2>4 DEF WInv, HashesOwn
  <2> QED
    BY <2>2, <2>5, QuietStep DEF WInv
<1>2. CASE CleanUp
  <2>1. Quiet /\ UNCHANGED processor
    BY <1>2 DEF CleanUp, Quiet
  <2> QED
    BY <2>1, QuietStep DEF WInv, HashesOwn
<1> QED
  BY <1>1, <1>2 DEF Watcher, SubscriptionError, TakeReorg

LEMMA WindowStutter == ASSUME WInv, VInv', UNCHANGED vars PROVE WInv'
<1>1. Quiet /\ UNCHANGED processor
  BY DEF Quiet, vars
<1> QED
  BY <1>1, QuietStep DEF WInv, HashesOwn

-----------------------------------------------------------------------------
(***************************************************************************)
(* The chain.                                                              *)
(***************************************************************************)
LEMMA GrowOwn ==
  ASSUME WInv, Grow
  PROVE  HashesOwn' /\ tip' = tip + 1
<1>1. /\ hashes' = [e \in Epochs |-> IF Target(e) = tip + 1 THEN <<e, reorgs>> ELSE hashes[e]]
      /\ UNCHANGED processor /\ tip' = tip + 1
  BY DEF Grow
<1>2. \A e \in Epochs : Own(hashes'[e], e)
  BY <1>1, Facts DEF Own, WInv, HashesOwn
<1> QED
  BY <1>1, <1>2 DEF WInv, HashesOwn

\* The transactions of the next block.
LEMMA ExecutedFacts ==
  ASSUME VInv, NEW k \in DOMAIN txs
  PROVE  /\ Executed[k].hash = txs[k].hash
         /\ k \notin Pending => Executed[k] = txs[k]
         /\ k \in Pending => Executed[k].block = tip + 1
         /\ k \in Pending /\ Accepted(k) => Executed[k].state = "accepted"
         /\ k \in Pending /\ ~Accepted(k) => Executed[k].state = "reverted"
<1>1. txs[k] \in Txs
  BY Facts
<1>2. k \in Pending =>
        Executed[k] = [txs[k] EXCEPT !.state = IF Accepted(k) THEN "accepted" ELSE "reverted",
                                     !.block = tip + 1]
  BY DEF Executed
<1>3. k \notin Pending => Executed[k] = txs[k]
  BY DEF Executed
<1> QED
  BY <1>1, <1>2, <1>3 DEF Txs

LEMMA NewBlockStep == ASSUME WInv, VInv', NewBlock PROVE WInv'
<1>1. /\ Grow /\ txs' = Executed /\ DOMAIN txs' = DOMAIN txs /\ log' = log
      /\ status' = status /\ followed' = followed /\ valid' = valid
      /\ preparedHash' = preparedHash /\ tip' = tip + 1
  BY DEF NewBlock, Grow, Executed, tracker
<1>2. /\ HashesOwn /\ HashesOwn' /\ VInv /\ TxsOwn /\ Sole
  BY <1>1, GrowOwn DEF WInv, Mempool
<1> DEFINE next == EpochOf(tip + 1)
           taken == \E k \in Pending : TakenIn(tip + 1, txs[k].hash)
<1>3. attestedAt' = [e \in Epochs |-> IF e = next /\ taken THEN tip + 1 ELSE attestedAt[e]]
  BY DEF NewBlock
<1>4. taken => ~Attested(next) /\ next \in Epochs
  BY <1>2, TakenFacts
<1>5. Pending' = {}
  <2>1. ASSUME NEW k \in DOMAIN txs PROVE txs'[k].state # "pending"
    BY <1>1, <1>2, ExecutedFacts DEF Pending
  <2> QED
    BY <1>1, <2>1 DEF Pending
<1>6. TxsOwn'
  <2> SUFFICES ASSUME NEW k \in DOMAIN txs
               PROVE  /\ txs'[k].hash[1] \in Epochs
                      /\ txs'[k].state = "accepted" =>
                           txs'[k].block # 0 /\ attestedAt'[txs'[k].hash[1]] = txs'[k].block
    BY <1>1 DEF TxsOwn
  <2>1. txs'[k].hash = txs[k].hash /\ txs[k].hash[1] \in Epochs
    BY <1>1, <1>2, ExecutedFacts DEF TxsOwn
  <2>2. CASE k \notin Pending
    <3>1. txs'[k] = txs[k]
      BY <1>1, <1>2, <2>2, ExecutedFacts
    <3>2. txs[k].state = "accepted" => Attested(txs[k].hash[1])
      BY <1>2, <2>1 DEF TxsOwn, Attested
    <3> QED
      BY <1>2, <1>3, <1>4, <2>1, <3>1, <3>2 DEF TxsOwn
  <2>3. CASE k \in Pending
    <3>1. txs'[k].block = tip + 1 /\ (txs'[k].state = "accepted" => Accepted(k))
      BY <1>1, <1>2, <2>3, ExecutedFacts
    <3>2. Accepted(k) => taken /\ txs[k].hash[1] = next
      BY <1>2, <2>3, TakenFacts DEF Accepted
    <3>3. tip + 1 # 0
      BY <1>2, Facts
    <3> QED
      BY <1>3, <2>1, <3>1, <3>2, <3>3
  <2> QED
    BY <2>2, <2>3
<1>7. Sole'
  BY <1>5 DEF Sole
<1>8. ASSUME NEW w \in Epochs PROVE Window(w)'
  <2>1. Window(w) /\ Alone(w)' = Alone(w)
    BY <1>1 DEF WInv, Alone
  <2>2. Coming(w) => Attested(w)'
    <3>1. Attested(w) => Attested(w)'
      BY <1>2, <1>3, Facts DEF Attested
    <3>2. (next = w /\ taken) => Attested(w)'
      BY <1>2, <1>3, Facts DEF Attested
    <3> QED
      BY <3>1, <3>2 DEF Coming
  <2>3. Attested(w)' => Coming(w)'
    BY DEF Coming
  <2>4. hashes'[w] = hashes[w] \/ hashes[w] = ZeroHash
    BY <1>1, <1>2, GrowFacts
  <2>5. Prepared(w)'
    BY <1>1, <2>1 DEF Window, Prepared, Own
  <2>6. Accounts(w)'
    <3>1. Misled(w)' => Misled(w)
      BY <1>1, <2>4 DEF Misled
    <3> QED
      BY <1>1, <1>2, <2>1, <2>2, <2>3, <3>1, Facts DEF Window, Accounts
  <2>7. FollowedOwn(w)'
    <3> SUFFICES ASSUME Alone(w), status = "Ongoing"
                 PROVE  /\ followed # 0 /\ txs'[followed].hash[1] = w
                        /\ txs'[followed].state # "dropped"
                        /\ \/ txs'[followed].hash = hashes'[w]
                           \/ Place(txs[followed])' <= Target(w)
      BY <1>1, <2>1 DEF FollowedOwn, Target
    <3>1. /\ followed # 0 /\ txs[followed].hash[1] = w /\ txs[followed].state # "dropped"
          /\ txs[followed].hash = hashes[w] \/ Place(txs[followed]) <= Target(w)
          /\ followed \in DOMAIN txs
      BY <1>2, <2>1, Facts DEF Window, FollowedOwn
    <3>2. txs'[followed].hash = txs[followed].hash /\ txs'[followed].state \notin {"dropped", "pending"}
      BY <1>1, <1>2, <3>1, ExecutedFacts DEF Pending
    <3>3. Place(txs[followed])' = Place(txs[followed])
      <4>1. Place(txs[followed])' = txs'[followed].block
        BY <1>1, <3>2 DEF Place
      <4>2. CASE followed \in Pending
        BY <1>1, <1>2, <3>1, <4>1, <4>2, ExecutedFacts DEF Place, Pending
      <4>3. CASE followed \notin Pending
        BY <1>1, <1>2, <3>1, <4>1, <4>3, ExecutedFacts DEF Place, Pending
      <4> QED
        BY <4>2, <4>3
    <3>4. txs[followed].hash # ZeroHash
      BY <3>1, NoEpochZero
    <3> QED
      BY <2>4, <3>1, <3>2, <3>3, <3>4
  <2>8. Succeeded(w)'
    BY <1>1, <2>1, <2>2, <2>3 DEF Window, Succeeded
  <2>9. Delivered(w)'
    <3> SUFFICES ASSUME Alone(w), log.tries > 0, log.troubles = 0, status = "Ongoing"
                 PROVE  txs'[followed].state = "accepted"
      BY <1>1, <2>1 DEF Window, Delivered
    <3>1. followed \in DOMAIN txs
      BY <1>2, <2>1, Facts DEF Window, FollowedOwn
    <3>2. CASE txs[followed].state = "accepted"
      BY <1>1, <1>2, <3>1, <3>2, ExecutedFacts DEF Pending
    <3>3. CASE txs[followed].state = "pending" /\ TakenIn(tip + 1, txs[followed].hash)
      <4>1. followed \in Pending /\ \A j \in Pending : j = followed
        BY <1>2, <3>1, <3>3 DEF Pending, Sole
      <4>2. Accepted(followed)
        BY <1>2, <3>1, <3>3, <4>1, Facts DEF Accepted
      <4> QED
        BY <1>1, <1>2, <3>1, <4>1, <4>2, ExecutedFacts
    <3> QED
      BY <2>1, <3>2, <3>3 DEF Window, Delivered
  <2> QED
    BY <2>5, <2>6, <2>7, <2>8, <2>9 DEF Window
<1> QED
  BY <1>2, <1>6, <1>7, <1>8 DEF WInv, Mempool

LEMMA NewBlockWithoutStep == ASSUME WInv, VInv', NewBlockWithout PROVE WInv'
<1> DEFINE left == [k \in DOMAIN txs |->
                      IF k \in Pending THEN [txs[k] EXCEPT !.state = "dropped"] ELSE txs[k]]
<1>1. /\ Grow /\ txs' \in {txs, left} /\ log' = [log EXCEPT !.hopeless = TRUE]
      /\ attestedAt' = attestedAt /\ status' = status /\ followed' = followed
  BY DEF NewBlockWithout, Grow, tracker
<1>2. HashesOwn' /\ VInv /\ TxsOwn /\ Sole
  BY <1>1, GrowOwn DEF WInv, Mempool
<1>3. log'.hopeless /\ log'.troubles = log.troubles
  <2>1. log \in Logs
    BY <1>2 DEF VInv, TypeOK
  <2> QED
    BY <1>1, <2>1 DEF Logs
<1>4. DOMAIN txs' = DOMAIN txs
  BY <1>1
<1>5. ASSUME NEW k \in DOMAIN txs
      PROVE  /\ txs'[k].hash = txs[k].hash /\ txs'[k].block = txs[k].block
             /\ txs'[k].state = txs[k].state \/ (k \in Pending /\ txs'[k].state = "dropped")
  <2>1. txs[k] \in Txs
    BY <1>2, Facts
  <2>2. left[k].hash = txs[k].hash /\ left[k].block = txs[k].block
    BY <2>1 DEF Txs
  <2>3. left[k].state = txs[k].state \/ (k \in Pending /\ left[k].state = "dropped")
    BY <2>1 DEF Txs
  <2> HIDE DEF left
  <2> QED
    BY <1>1, <2>2, <2>3
<1>6. TxsOwn'
  BY <1>1, <1>2, <1>4, <1>5 DEF TxsOwn
<1>7. Sole'
  <2>1. Pending' \subseteq Pending
    BY <1>4, <1>5 DEF Pending
  <2> QED
    BY <1>1, <1>2, <1>3, <2>1 DEF Sole
<1>8. ASSUME NEW w \in Epochs PROVE Window(w)'
  BY <1>3, NoPromise DEF Alone
<1> QED
  BY <1>2, <1>6, <1>7, <1>8 DEF WInv, Mempool

LEMMA WindowReorgStep == ASSUME WInv, VInv', NEW to \in 0..(tip - 1), Reorg(to) PROVE WInv'
<1>1. /\ VInv /\ HashesOwn /\ TxsOwn /\ \A w \in Epochs : Window(w)
  BY DEF WInv, Mempool
<1>2. /\ tip' = to /\ to \in Nat /\ to < tip /\ tip \in Nat
      /\ status' = status /\ followed' = followed /\ valid' = valid
      /\ preparedHash' = preparedHash
  <2>1. tip' = to /\ UNCHANGED tracker
    BY DEF Reorg
  <2>2. tip \in Nat
    BY <1>1, Facts
  <2> QED
    BY <2>1, <2>2 DEF tracker
<1>3. /\ hashes' = [e \in Epochs |-> IF Target(e) > to THEN ZeroHash ELSE hashes[e]]
      /\ attestedAt' = [e \in Epochs |-> IF attestedAt[e] > to THEN 0 ELSE attestedAt[e]]
  BY DEF Reorg
<1>4. PICK s \in {"pending", "dropped"} :
        txs' = [k \in DOMAIN txs |->
                  IF txs[k].block > to THEN [txs[k] EXCEPT !.state = s, !.block = 0] ELSE txs[k]]
  BY DEF Reorg
<1>5. DOMAIN txs' = DOMAIN txs
  BY <1>4
<1>6. ASSUME NEW k \in DOMAIN txs
      PROVE  /\ txs[k].block \in Nat /\ txs'[k].hash = txs[k].hash
             /\ txs[k].block > to => txs'[k].state = s
             /\ ~(txs[k].block > to) => txs'[k] = txs[k]
  <2>1. txs[k] \in Txs
    BY <1>1, Facts
  <2> DEFINE t == [txs[k] EXCEPT !.state = s, !.block = 0]
  <2>2. t.hash = txs[k].hash /\ t.state = s
    BY <2>1 DEF Txs
  <2>3. txs[k].block \in Nat
    BY <2>1, ConstantTypes DEF Txs
  <2>4. txs'[k] = IF txs[k].block > to THEN t ELSE txs[k]
    BY <1>4
  <2> HIDE DEF t
  <2> QED
    BY <2>2, <2>3, <2>4
<1> DEFINE h == log.hopeless \/ status = "Successful" \/ \E k \in DOMAIN txs : txs'[k].state = "dropped"
<1>7. /\ log'.tries = 0 /\ log'.troubles = log.troubles + 1 /\ log'.hopeless = h
      /\ log'.windows = log.windows
  <2>1. log \in Logs
    BY <1>1 DEF VInv, TypeOK
  <2>2. log' = [log EXCEPT !.tries = 0, !.troubles = @ + 1, !.hopeless = h]
    BY DEF Reorg
  <2> HIDE DEF h
  <2>3. log'.tries = 0 /\ log'.troubles = log.troubles + 1 /\ log'.windows = log.windows
    BY <2>1, <2>2 DEF Logs
  <2>4. log'.hopeless = h
    BY <2>1, <2>2 DEF Logs
  <2> QED
    BY <2>3, <2>4
<1>8. HashesOwn'
  <2>1. \A e \in Epochs : Own(hashes'[e], e)
    BY <1>1, <1>3 DEF HashesOwn, Own
  <2>2. ASSUME NEW i \in Subs PROVE Own(processor'[i].hash, processor'[i].epoch)
    <3>1. processor[i] \in Processors
      BY <1>1 DEF VInv, Fine
    <3>2. \/ processor'[i] = processor[i]
          \/ processor'[i] = [processor[i] EXCEPT !.next = to + 1]
      BY DEF Reorg
    <3>3. processor'[i].hash = processor[i].hash /\ processor'[i].epoch = processor[i].epoch
      BY <3>1, <3>2 DEF Processors
    <3> QED
      BY <1>1, <3>3 DEF HashesOwn
  <2> QED
    BY <2>1, <2>2 DEF HashesOwn
<1>9. TxsOwn'
  <2> SUFFICES ASSUME NEW k \in DOMAIN txs
               PROVE  /\ txs'[k].hash[1] \in Epochs
                      /\ txs'[k].state = "accepted" =>
                           txs'[k].block # 0 /\ attestedAt'[txs'[k].hash[1]] = txs'[k].block
    BY <1>5 DEF TxsOwn
  <2> QED
    BY <1>1, <1>3, <1>6 DEF TxsOwn
<1>10. log'.troubles # 0
  BY <1>1, <1>7, Facts
<1>11. Sole'
  BY <1>10 DEF Sole
<1>12. ASSUME NEW w \in Epochs PROVE Window(w)'
  <2> SUFFICES ASSUME Alone(w)' PROVE Window(w)'
    BY NoPromise
  <2>1. /\ Alone(w) /\ status # "Successful" /\ Window(w)
        /\ \A k \in DOMAIN txs : txs'[k].state # "dropped"
    BY <1>1, <1>7 DEF Alone
  <2>2. Prepared(w)'
    BY <1>2, <2>1 DEF Window, Prepared, Own
  <2>3. Accounts(w)'
    BY <1>1, <1>7, Facts DEF Accounts
  <2>4. FollowedOwn(w)'
    <3> SUFFICES ASSUME status = "Ongoing"
                 PROVE  /\ followed # 0 /\ txs'[followed].hash[1] = w
                        /\ txs'[followed].state # "dropped"
                        /\ \/ txs'[followed].hash = hashes'[w]
                           \/ Place(txs[followed])' <= Target(w)
      BY <1>2 DEF FollowedOwn, Target
    <3>1. /\ followed # 0 /\ txs[followed].hash[1] = w
          /\ txs[followed].hash = hashes[w] \/ Place(txs[followed]) <= Target(w)
          /\ followed \in DOMAIN txs
      BY <1>1, <2>1, Facts DEF Window, FollowedOwn
    <3>2. txs'[followed].hash = txs[followed].hash /\ txs'[followed].state # "dropped"
      BY <1>6, <2>1, <3>1
    <3>3. /\ Place(txs[followed])' = IF txs'[followed].state = "pending" THEN to + 1
                                                                        ELSE txs'[followed].block
          /\ Place(txs[followed]) = IF txs[followed].state = "pending" THEN tip + 1
                                                                      ELSE txs[followed].block
      BY <1>2 DEF Place
    <3>4. Target(w) \in Nat
      BY TargetType
    <3>5. /\ Place(txs[followed])' \in Nat /\ Place(txs[followed]) \in Nat
          /\ Place(txs[followed])' <= to + 1
          /\ Place(txs[followed])' <= Place(txs[followed])
      BY <1>2, <1>6, <3>1, <3>2, <3>3
    <3>6. CASE Target(w) > to
      BY <1>2, <3>1, <3>2, <3>4, <3>5, <3>6
    <3>7. CASE ~(Target(w) > to)
      BY <1>3, <3>1, <3>2, <3>4, <3>5, <3>7
    <3> QED
      BY <3>6, <3>7
  <2>5. Succeeded(w)' /\ Delivered(w)'
    BY <1>2, <1>10, <2>1 DEF Succeeded, Delivered
  <2> QED
    BY <2>2, <2>3, <2>4, <2>5 DEF Window
<1> QED
  BY <1>8, <1>9, <1>11, <1>12 DEF WInv, Mempool

-----------------------------------------------------------------------------
(***************************************************************************)
(* The events.                                                             *)
(***************************************************************************)
LEMMA TakenOwn ==
  ASSUME WInv, NEW i \in Subs, Taken(i), UNCHANGED hashes
  PROVE  HashesOwn'
<1>1. processor \in [Subs -> Processors]
  BY DEF WInv, VInv, TypeOK
<1>2. \A j \in Subs : processor'[j].hash = processor[j].hash /\ processor'[j].epoch = processor[j].epoch
  BY <1>1 DEF Taken, Processors
<1> QED
  BY <1>2 DEF WInv, HashesOwn, Own

LEMMA OfferFacts ==
  ASSUME WInv, NEW i \in Subs, processor[i].pc = "sending"
  PROVE  processor[i].epoch \in Epochs /\ Own(processor[i].hash, processor[i].epoch)
BY DEF WInv, VInv, Fine, HashesOwn

\* An attempt that the contract would take is one for the chain's epoch.
LEMMA TryFacts ==
  ASSUME WInv, NEW w \in Epochs, NEW h, Own(h, w), TakenIn(tip + 1, h)
  PROVE  /\ EpochOf(tip + 1) = w /\ h = hashes[w] /\ h # ZeroHash /\ ~Attested(w)
         /\ Target(w) < tip + 1
<1>1. HashesOwn /\ tip \in Nat
  BY Facts DEF WInv
<1>2. /\ EpochOf(tip + 1) = w /\ h = hashes[w] /\ h # ZeroHash /\ ~Attested(w)
      /\ Target(w) + MinAttestationWindow <= tip + 1
  BY <1>1, TakenFacts, OwnEpoch
<1> QED
  BY <1>1, <1>2, TargetType, ConstantTypes

LEMMA SameChain ==
  ASSUME UNCHANGED chain
  PROVE  /\ tip' = tip /\ hashes' = hashes /\ attestedAt' = attestedAt
         /\ \A h : TakenIn(tip + 1, h)' = TakenIn(tip + 1, h)
         /\ \A e : Attested(e)' = Attested(e)
         /\ \A t : Place(t)' = Place(t)
BY DEF chain, TakenIn, Attested, Place

LEMMA WindowPrepareStep == ASSUME WInv, VInv', NEW i \in Subs, TakePrepare(i) PROVE WInv'
<1>1. /\ Taken(i) /\ UNCHANGED chain /\ txs' = txs /\ status' = status /\ followed' = followed
      /\ VInv /\ Mempool
  BY DEF TakePrepare, WInv
<1>2. HashesOwn'
  BY <1>1, TakenOwn DEF chain
<1>3. PICK w \in Epochs, h \in {processor[i].hash} :
        w = processor[i].epoch /\ h = processor[i].hash /\ Own(h, w)
  BY OfferFacts DEF TakePrepare, Offers
<1>4. PICK troubles \in Nat :
        /\ Logged(w, 0, troubles, FALSE)
        /\ \/ UNCHANGED <<valid, preparedHash>>
           \/ /\ valid' = TRUE /\ preparedHash' = h
              /\ (h = hashes[w] /\ h # ZeroHash) \/ troubles = 1
  <2>1. \/ UNCHANGED <<valid, preparedHash>> /\ Logged(w, 0, 0, FALSE)
        \/ /\ valid' = TRUE /\ preparedHash' = h
           /\ Logged(w, 0, IF h = hashes[w] /\ h # ZeroHash THEN 0 ELSE 1, FALSE)
    BY <1>3 DEF TakePrepare
  <2>2. CASE UNCHANGED <<valid, preparedHash>> /\ Logged(w, 0, 0, FALSE)
    BY <2>2
  <2>3. CASE /\ valid' = TRUE /\ preparedHash' = h
             /\ Logged(w, 0, IF h = hashes[w] /\ h # ZeroHash THEN 0 ELSE 1, FALSE)
    <3>1. CASE h = hashes[w] /\ h # ZeroHash
      BY <2>3, <3>1
    <3>2. CASE ~(h = hashes[w] /\ h # ZeroHash)
      BY <2>3, <3>2
    <3> QED
      BY <3>1, <3>2
  <2> QED
    BY <2>1, <2>2, <2>3
<1>5. /\ log'.tries <= log.tries /\ log'.tries \in Nat /\ log.tries \in Nat
      /\ log'.troubles = log.troubles + troubles /\ log.troubles \in Nat
  <2>1. log.tries \in Nat /\ log.troubles \in Nat
    BY <1>1, Facts
  <2>2. log'.tries <= log.tries + 0 /\ log'.tries \in Nat /\ log'.troubles = log.troubles + troubles
    <3>1. 0 \in Nat /\ FALSE \in BOOLEAN
      OBVIOUS
    <3> QED
      BY <1>1, <1>4, <3>1, LoggedFields
  <2> QED
    BY <2>1, <2>2
<1>6. Mempool'
  <2>1. log'.troubles = 0 => log.troubles = 0
    BY <1>5
  <2> QED
    BY <1>1, <2>1 DEF Mempool, TxsOwn, Sole, Pending, chain
<1>7. ASSUME NEW v \in Epochs PROVE Window(v)'
  <2> SUFFICES ASSUME Alone(v)' PROVE Window(v)'
    BY NoPromise
  <2>1. v = w /\ Alone(w) /\ Window(w)
    <3>1. 0 \in Nat /\ FALSE \in BOOLEAN
      OBVIOUS
    <3>2. v = w /\ Alone(v)
      BY <1>1, <1>4, <3>1, SameEvent
    <3> QED
      BY <3>2 DEF WInv
  <2>2. Prepared(w)'
    <3>1. CASE UNCHANGED <<valid, preparedHash>>
      BY <2>1, <3>1 DEF Window, Prepared, Own
    <3>2. CASE preparedHash' = h
      BY <1>3, <3>2 DEF Prepared, Own
    <3> QED
      BY <1>4, <3>1, <3>2
  <2>3. Coming(w)' = Coming(w)
    BY <1>1, SameChain DEF Coming, Pending, EpochOf
  <2>4. Accounts(w)'
    <3> SUFFICES ASSUME ~Coming(w)
                 PROVE  log'.tries + (IF Misled(w)' THEN 1 ELSE 0) <= log'.troubles
      BY <2>3 DEF Accounts
    <3>1. log.tries + (IF Misled(w) THEN 1 ELSE 0) <= log.troubles
      BY <2>1 DEF Window, Accounts
    <3>2. Misled(w)' => Misled(w) \/ troubles = 1
      BY <1>1, <1>4, SameChain DEF Misled
    <3>3. CASE Misled(w)
      BY <1>5, <3>1, <3>3
    <3>4. CASE ~Misled(w)
      BY <1>5, <3>1, <3>2, <3>4
    <3> QED
      BY <3>3, <3>4
  <2>5. FollowedOwn(w)'
    BY <1>1, <2>1, SameChain DEF Window, FollowedOwn, Target
  <2>6. Succeeded(w)'
    BY <1>1, <2>1, <2>3 DEF Window, Succeeded
  <2>7. Delivered(w)'
    <3>1. log'.tries > 0 => log.tries > 0
      BY <1>5
    <3>2. log'.troubles = 0 => log.troubles = 0
      BY <1>5
    <3> QED
      BY <1>1, <2>1, <3>1, <3>2, SameChain DEF Window, Delivered
  <2> QED
    BY <2>1, <2>2, <2>4, <2>5, <2>6, <2>7 DEF Window
<1> QED
  BY <1>2, <1>6, <1>7 DEF WInv, Mempool

LEMMA WindowEndStep == ASSUME WInv, VInv', NEW i \in Subs, TakeEndOfWindow(i) PROVE WInv'
<1>1. /\ Taken(i) /\ UNCHANGED <<chain, txs>> /\ status' = "Iddle" /\ ~valid'
      /\ log' = [EmptyLog EXCEPT !.troubles = Cardinality(Pending)] /\ VInv /\ TxsOwn
  BY DEF TakeEndOfWindow, CloseWindow, Forget, WInv, Mempool
<1>2. HashesOwn'
  BY <1>1, TakenOwn DEF chain
<1>3. /\ log'.tries = 0 /\ log'.troubles = Cardinality(Pending)
  BY <1>1 DEF EmptyLog
<1>4. IsFiniteSet(Pending) /\ Cardinality(Pending) \in Nat
  <2>1. DOMAIN txs = 1..Len(txs) /\ Len(txs) \in Nat
    BY <1>1, Facts
  <2>2. IsFiniteSet(DOMAIN txs)
    BY <2>1, FS_Interval
  <2> QED
    BY <2>2, FS_Subset, FS_CardinalityType DEF Pending
<1>5. TxsOwn'
  BY <1>1 DEF TxsOwn, chain
<1>6. Sole'
  BY <1>1, <1>3, <1>4, FS_EmptySet DEF Sole, Pending
<1>7. ASSUME NEW w \in Epochs PROVE Window(w)'
  BY <1>1, <1>3, <1>4
     DEF Window, Prepared, Accounts, Misled, FollowedOwn, Succeeded, Delivered
<1> QED
  BY <1>2, <1>5, <1>6, <1>7 DEF WInv, Mempool

-----------------------------------------------------------------------------
(***************************************************************************)
(* The do event.                                                           *)
(***************************************************************************)

\* The tracker starts over: from nothing, or from a transaction that was reverted.
StartsOver == status \in {"Iddle", "Failed"} \/ (status = "Ongoing" /\ TrackAttest = "Failed")

\* Without troubles it does so with an empty mempool, for the first attempt.
LEMMA StartOver ==
  ASSUME WInv, StartsOver, log.troubles = 0
  PROVE  Pending = {} /\ \A w \in Epochs : Alone(w) => log.tries = 0
<1>1. Sole /\ log.tries \in Nat /\ \A w \in Epochs : Window(w)
  BY Facts DEF WInv, Mempool
<1>2. CASE status \in {"Iddle", "Failed"}
  BY <1>1, <1>2 DEF Sole, Window, Delivered
<1>3. CASE status = "Ongoing" /\ TrackAttest = "Failed"
  <2>1. followed # 0 /\ txs[followed].state \notin {"accepted", "pending"}
    BY <1>3 DEF TrackAttest
  <2> QED
    BY <1>1, <1>3, <2>1 DEF Sole, Window, Delivered, Pending
<1> QED
  BY <1>2, <1>3 DEF StartsOver

LEMMA LandFacts ==
  ASSUME VInv, NEW b, Land(b)
  PROVE  /\ DOMAIN txs' = DOMAIN txs \cup {Len(txs) + 1} /\ Len(txs) + 1 \notin DOMAIN txs
         /\ \A k \in DOMAIN txs : txs'[k] = txs[k]
         /\ txs'[Len(txs) + 1].hash = b /\ txs'[Len(txs) + 1].state = "pending"
         /\ Len(txs) + 1 # 0
<1>1. txs \in Seq(Txs) /\ Len(txs) \in Nat /\ DOMAIN txs = 1..Len(txs)
  BY Facts
<1> DEFINE t == [hash |-> b, state |-> "pending", block |-> 0]
<1>2. t.hash = b /\ t.state = "pending"
  OBVIOUS
<1>3. txs' = Append(txs, t)
  BY DEF Land
<1> HIDE DEF t
<1>4. Len(txs') = Len(txs) + 1 /\ DOMAIN txs' = 1..(Len(txs) + 1)
  BY <1>1, <1>3
<1>5. txs'[Len(txs) + 1] = t /\ \A k \in DOMAIN txs : txs'[k] = txs[k]
  BY <1>1, <1>3
<1> QED
  BY <1>1, <1>2, <1>4, <1>5

LEMMA LandOwn ==
  ASSUME WInv, UNCHANGED chain, NEW b, TakenIn(tip + 1, b), Land(b)
  PROVE  /\ TxsOwn' /\ Len(txs) + 1 \in Pending'
         /\ \A w \in Epochs : Coming(w) => Coming(w)'
<1>1. VInv /\ HashesOwn /\ TxsOwn /\ attestedAt' = attestedAt
  BY DEF WInv, Mempool, chain
<1>2. b[1] \in Epochs
  BY <1>1, TakenFacts
<1>3. TxsOwn'
  BY <1>1, <1>2, LandFacts DEF TxsOwn
<1>4. Len(txs) + 1 \in Pending' /\ \A k \in Pending : k \in Pending' /\ txs'[k] = txs[k]
  BY <1>1, LandFacts DEF Pending
<1>5. ASSUME NEW w \in Epochs, Coming(w) PROVE Coming(w)'
  BY <1>4, <1>5, SameChain DEF Coming, EpochOf
<1> QED
  BY <1>3, <1>4, <1>5

\* The transaction that an attempt sends for window w carries a hash of w.
LEMMA BuiltOwn ==
  ASSUME WInv, NEW w \in Epochs, NEW h, Own(h, w), Alone(w)
  PROVE  Own(Built(h), w)
BY DEF WInv, Window, Prepared, Built

\* An attempt: what is sent is taken or refused, or the gateway knows better.
LEMMA WindowInvoke ==
  ASSUME WInv, VInv', UNCHANGED chain, NEW w \in Epochs, NEW h, Own(h, w),
         NEW try \in Nat, try = (IF TakenIn(tip + 1, h) THEN 1 ELSE 0),
         NEW troubles \in Nat, troubles = 0 => StartsOver,
         Invoke(w, try, troubles, Built(h))
  PROVE  Mempool' /\ \A v \in Epochs : Window(v)'
<1> DEFINE n == EpochOf(tip + 1)
<1>1. /\ VInv /\ HashesOwn /\ Mempool /\ \A v \in Epochs : Window(v)
      /\ tip' = tip /\ hashes' = hashes /\ attestedAt' = attestedAt
      /\ log.tries \in Nat /\ log.troubles \in Nat
  BY Facts DEF WInv, chain
<1>2. PICK b : b = Built(h)
  OBVIOUS
<1>3. PICK reply \in EstimateFee(b), hopeless \in BOOLEAN :
        /\ \/ reply = "ok" /\ Land(b) /\ status' = "Ongoing" /\ followed' = Len(txs) + 1
           \/ /\ reply # "ok" /\ status' = (IF reply = "done" THEN "Successful" ELSE "Failed")
              /\ followed' = 0 /\ txs' = txs
        /\ Logged(w, try, troubles, hopeless)
        /\ hopeless = (reply = "done" /\ n # w)
  BY <1>2 DEF Invoke, OfAnother
<1>4. valid' = FALSE
  BY DEF Invoke, Forget
<1>5. /\ log'.troubles = log.troubles + troubles /\ log'.tries <= log.tries + try
      /\ log'.tries \in Nat
  BY <1>1, <1>3, LoggedFields
<1>6. log'.troubles = 0 => /\ troubles = 0 /\ log.troubles = 0 /\ Pending = {}
                           /\ \A v \in Epochs : Alone(v) => log.tries = 0
  <2>1. log'.troubles = 0 => troubles = 0 /\ log.troubles = 0
    BY <1>1, <1>5
  <2> QED
    BY <2>1, StartOver
<1>7. ASSUME NEW v \in Epochs, Alone(v)' PROVE v = w /\ Alone(w) /\ (reply = "done" => n = w)
  BY <1>1, <1>3, <1>7, SameEvent
<1>8. CASE reply = "ok"
  <2>1. /\ TakenIn(tip + 1, b) /\ Land(b) /\ status' = "Ongoing" /\ followed' = Len(txs) + 1
    BY <1>3, <1>8 DEF EstimateFee
  <2>2. Sole'
    <3>1. Pending = {} => Pending' = {Len(txs) + 1}
      BY <1>1, <2>1, LandFacts DEF Pending
    <3> QED
      BY <1>6, <2>1, <3>1 DEF Sole
  <2>3. ASSUME NEW v \in Epochs PROVE Window(v)'
    <3> SUFFICES ASSUME Alone(v)' PROVE Window(v)'
      BY NoPromise
    <3>1. v = w /\ Alone(w)
      BY <1>7
    <3>2. n = w /\ b = hashes[w] /\ b[1] = w /\ b # ZeroHash
      BY <1>1, <1>2, <2>1, <3>1, BuiltOwn, TryFacts, TakenFacts
    <3>3. /\ followed' \in Pending' /\ txs'[followed'].hash = b /\ followed' # 0
          /\ txs'[followed'].state = "pending"
      BY <1>1, <2>1, LandOwn, LandFacts
    <3>4. TakenIn(tip + 1, txs[followed].hash)'
      BY <1>1, <2>1, <3>3 DEF TakenIn, Attested
    <3>5. Coming(w)'
      BY <1>1, <3>2, <3>3, <3>4 DEF Coming, EpochOf
    <3>6. Prepared(w)' /\ Accounts(w)' /\ Succeeded(w)'
      BY <1>4, <2>1, <3>5 DEF Prepared, Accounts, Succeeded
    <3>7. FollowedOwn(w)'
      BY <1>1, <3>2, <3>3 DEF FollowedOwn
    <3>8. Delivered(w)'
      BY <2>1, <3>3, <3>4 DEF Delivered
    <3> QED
      BY <3>1, <3>6, <3>7, <3>8 DEF Window
  <2> QED
    BY <2>1, <2>2, <2>3, LandOwn DEF Mempool
<1>9. CASE reply # "ok"
  <2>1. /\ txs' = txs /\ status' = (IF reply = "done" THEN "Successful" ELSE "Failed")
    BY <1>3, <1>9
  <2>2. TxsOwn' /\ Sole'
    BY <1>1, <1>6, <2>1 DEF Mempool, TxsOwn, Sole, Pending
  <2>3. ASSUME NEW v \in Epochs PROVE Window(v)'
    <3> SUFFICES ASSUME Alone(v)' PROVE Window(v)'
      BY NoPromise
    <3>1. v = w /\ Alone(w) /\ Window(w) /\ (reply = "done" => n = w)
      BY <1>1, <1>7
    <3>2. Coming(w)' = Coming(w)
      BY <2>1, SameChain DEF Coming, Pending, EpochOf
    <3>3. reply = "done" => Coming(w)
      BY <3>1 DEF EstimateFee, Coming
    <3>4. reply # "done" => ~TakenIn(tip + 1, b) /\ ~Attested(n)
      BY <1>3, <1>9 DEF EstimateFee
    <3>5. Prepared(w)' /\ FollowedOwn(w)'
      BY <1>4, <2>1 DEF Prepared, FollowedOwn
    <3>6. Succeeded(w)'
      BY <2>1, <3>2, <3>3 DEF Succeeded
    <3>7. try = 1 /\ reply # "done" => troubles # 0 \/ Misled(w)
      <4> SUFFICES ASSUME TakenIn(tip + 1, h), reply # "done", troubles = 0 PROVE Misled(w)
        OBVIOUS
      <4>1. h = hashes[w] /\ h # b
        BY <3>4, TryFacts
      <4> QED
        BY <1>2, <4>1 DEF Built, Misled
    <3>8. Accounts(w)'
      <4> SUFFICES ASSUME ~Coming(w) PROVE log'.tries <= log'.troubles
        BY <1>1, <1>4, <1>5, <3>2 DEF Accounts, Misled
      <4>1. log.tries + (IF Misled(w) THEN 1 ELSE 0) <= log.troubles
        BY <3>1 DEF Window, Accounts
      <4>2. try = 0 \/ (try = 1 /\ (troubles >= 1 \/ Misled(w)))
        BY <3>3, <3>7
      <4> QED
        BY <1>1, <1>5, <4>1, <4>2
    <3>9. Delivered(w)'
      <4> SUFFICES ASSUME log'.tries > 0, log'.troubles = 0, reply # "done" PROVE FALSE
        BY <2>1 DEF Delivered
      <4>1. /\ troubles = 0 /\ log.troubles = 0 /\ Pending = {} /\ log.tries = 0
        BY <1>6, <3>1
      <4>2. try = 1 /\ TakenIn(tip + 1, h)
        BY <1>5, <4>1
      <4>3. Misled(w)
        BY <3>7, <4>1, <4>2
      <4>4. ~Coming(w)
        BY <4>1, <4>2, TryFacts DEF Coming
      <4> QED
        BY <1>1, <3>1, <4>1, <4>3, <4>4 DEF Window, Accounts
    <3> QED
      BY <3>1, <3>5, <3>6, <3>8, <3>9 DEF Window
  <2> QED
    BY <2>2, <2>3 DEF Mempool
<1> QED
  BY <1>8, <1>9

\* A call fails, with or without the transaction: a trouble.
LEMMA WindowInvokeFails ==
  ASSUME WInv, VInv', UNCHANGED chain, NEW w \in Epochs, NEW h, Own(h, w),
         NEW try \in {0, 1}, InvokeFails(w, try, Built(h))
  PROVE  Mempool' /\ \A v \in Epochs : Window(v)'
<1>1. /\ VInv /\ Mempool /\ log.tries \in Nat /\ log.troubles \in Nat
      /\ \A v \in Epochs : Window(v)
  BY Facts DEF WInv
<1>2. PICK b : b = Built(h)
  OBVIOUS
<1>3. /\ valid' = FALSE /\ status' = "Failed" /\ Logged(w, try, 1, FALSE)
      /\ (TakenIn(tip + 1, b) /\ Land(b)) \/ txs' = txs
  BY <1>2 DEF InvokeFails, Forget
<1>4. 1 \in Nat /\ try \in Nat /\ FALSE \in BOOLEAN
  OBVIOUS
<1>5. log'.troubles = log.troubles + 1 /\ log'.tries <= log.tries + try /\ log'.tries \in Nat
  BY <1>1, <1>3, <1>4, LoggedFields
<1>6. TxsOwn' /\ \A v \in Epochs : Coming(v) => Coming(v)'
  <2>1. CASE TakenIn(tip + 1, b) /\ Land(b)
    BY <2>1, LandOwn
  <2>2. CASE txs' = txs
    <3>1. TxsOwn'
      BY <1>1, <2>2, SameChain DEF Mempool, TxsOwn
    <3>2. \A v \in Epochs : Coming(v)' = Coming(v)
      BY <2>2, SameChain DEF Coming, Pending, EpochOf
    <3> QED
      BY <3>1, <3>2
  <2> QED
    BY <1>3, <2>1, <2>2
<1>7. log'.troubles # 0
  BY <1>1, <1>5
<1>8. ASSUME NEW v \in Epochs PROVE Window(v)'
  <2> SUFFICES ASSUME Alone(v)' PROVE Window(v)'
    BY NoPromise
  <2>1. v = w /\ Alone(v) /\ Window(w)
    BY <1>1, <1>3, <1>4, SameEvent
  <2>2. Accounts(w)'
    <3> SUFFICES ASSUME ~Coming(w) PROVE log'.tries <= log'.troubles
      BY <1>1, <1>3, <1>5, <1>6 DEF Accounts, Misled
    <3>1. log.tries <= log.troubles
      BY <1>1, <2>1 DEF Window, Accounts
    <3> QED
      BY <1>1, <1>5, <3>1
  <2> QED
    BY <1>3, <1>7, <2>1, <2>2 DEF Window, Prepared, FollowedOwn, Succeeded, Delivered
<1> QED
  BY <1>6, <1>7, <1>8 DEF Mempool, Sole

\* The status stays at Ongoing with nothing to follow: this is not made good.
LEMMA WindowBuildFails ==
  ASSUME WInv, VInv', UNCHANGED chain, NEW w \in Epochs, BuildFails(w)
  PROVE  Mempool' /\ \A v \in Epochs : Window(v)'
<1>1. VInv /\ Mempool /\ log.troubles \in Nat
  BY Facts DEF WInv
<1>2. txs' = txs /\ Logged(w, 0, 1, TRUE)
  BY DEF BuildFails
<1>3. 0 \in Nat /\ 1 \in Nat /\ TRUE \in BOOLEAN
  OBVIOUS
<1>4. log'.troubles = log.troubles + 1 /\ log'.hopeless = (log.hopeless \/ TRUE)
  BY <1>1, <1>2, <1>3, LoggedFields
<1>5. TxsOwn'
  BY <1>1, <1>2, SameChain DEF Mempool, TxsOwn
<1>6. Sole'
  BY <1>1, <1>4 DEF Sole
<1>7. ASSUME NEW v \in Epochs PROVE Window(v)'
  BY <1>4, NoPromise DEF Alone
<1> QED
  BY <1>5, <1>6, <1>7 DEF Mempool

\* The tracker has something to follow, or there is nothing left to do.
LEMMA WindowTrack ==
  ASSUME WInv, VInv', UNCHANGED chain, NEW w \in Epochs, NEW h, Own(h, w),
         NEW try \in {0, 1}, try = (IF TakenIn(tip + 1, h) THEN 1 ELSE 0),
         Logged(w, try, 0, FALSE), UNCHANGED <<txs, followed, valid, preparedHash>>,
         \/ status = "Ongoing" /\ TrackAttest # "Failed" /\ status' = TrackAttest
         \/ status = "Successful" /\ status' = status
  PROVE  Mempool' /\ \A v \in Epochs : Window(v)'
<1>1. /\ VInv /\ Mempool /\ log.tries \in Nat /\ log.troubles \in Nat
      /\ \A v \in Epochs : Window(v)
  BY Facts DEF WInv
<1>2. 0 \in Nat /\ try \in Nat /\ FALSE \in BOOLEAN
  OBVIOUS
<1>3. log'.troubles = log.troubles + 0 /\ log'.tries <= log.tries + try /\ log'.tries \in Nat
  BY <1>1, <1>2, LoggedFields
<1>4. log'.troubles = log.troubles
  BY <1>1, <1>3
<1>5. status' = "Successful" /\ status = "Ongoing" =>
        followed # 0 /\ txs[followed].state = "accepted"
  <2>1. followed # 0 => txs[followed].state \in {"pending", "accepted", "reverted", "dropped"}
    BY <1>1, Facts DEF Txs
  <2> QED
    BY <2>1 DEF TrackAttest
<1>6. status' = "Ongoing" => status = "Ongoing" /\ TrackAttest = "Ongoing"
  OBVIOUS
<1>7. TxsOwn'
  BY <1>1, SameChain DEF Mempool, TxsOwn
<1>8. Sole'
  <2>1. ASSUME log.troubles = 0, NEW k \in Pending PROVE status' = "Ongoing" /\ followed = k
    <3>1. status = "Ongoing" /\ followed = k /\ txs[k].state = "pending"
      BY <1>1, <2>1 DEF Mempool, Sole, Pending
    <3> QED
      BY <1>5, <3>1 DEF TrackAttest
  <2> QED
    BY <1>4, <2>1 DEF Sole, Pending
<1>9. ASSUME NEW v \in Epochs PROVE Window(v)'
  <2> SUFFICES ASSUME Alone(v)' PROVE Window(v)'
    BY NoPromise
  <2>1. v = w /\ Alone(w) /\ Window(w)
    <3>1. v = w /\ Alone(v)
      BY <1>1, <1>2, SameEvent
    <3> QED
      BY <1>1, <3>1
  <2>2. Coming(w)' = Coming(w) /\ Misled(w)' = Misled(w)
    BY SameChain DEF Coming, Pending, EpochOf, Misled
  <2>3. Prepared(w)'
    BY <2>1 DEF Window, Prepared, Own
  <2>4. FollowedOwn(w)'
    BY <1>6, <2>1, SameChain DEF Window, FollowedOwn, Target
  <2>5. status' = "Successful" => Coming(w)
    <3>1. CASE status = "Ongoing"
      <4>1. status' = "Successful" =>
              /\ followed \in DOMAIN txs /\ txs[followed].state = "accepted"
              /\ txs[followed].hash[1] = w
        BY <1>1, <1>5, <2>1, <3>1, Facts DEF Window, FollowedOwn
      <4> QED
        BY <1>1, <4>1 DEF Mempool, TxsOwn, Coming, Attested
    <3>2. CASE status = "Successful"
      BY <2>1, <3>2 DEF Window, Succeeded
    <3> QED
      BY <3>1, <3>2
  <2>6. Succeeded(w)'
    BY <2>2, <2>5 DEF Succeeded
  \* An attempt that the contract would take is on its way already.
  <2>7. ASSUME try = 1, status' # "Successful"
        PROVE  /\ followed \in Pending /\ status' = "Ongoing" /\ Coming(w)
               /\ TakenIn(tip + 1, txs[followed].hash)
    <3>1. /\ TakenIn(tip + 1, h) /\ EpochOf(tip + 1) = w /\ h = hashes[w] /\ ~Attested(w)
          /\ Target(w) < tip + 1
      BY <2>7, TryFacts
    <3>2. status = "Ongoing" /\ TrackAttest \notin {"Successful", "Failed"}
      BY <2>7
    <3>3. /\ followed \in DOMAIN txs /\ txs[followed].hash[1] = w /\ txs[followed].state # "dropped"
          /\ txs[followed].hash = hashes[w] \/ Place(txs[followed]) <= Target(w)
          /\ txs[followed] \in Txs
      BY <1>1, <2>1, <3>2, Facts DEF Window, FollowedOwn
    <3>4. txs[followed].state = "pending"
      <4>1. txs[followed].state \notin {"accepted", "reverted"}
        BY <1>1, <2>1, <3>2 DEF TrackAttest, Window, FollowedOwn
      <4> QED
        BY <3>3, <4>1 DEF Txs
    <3>5. txs[followed].hash = hashes[w]
      <4>1. Place(txs[followed]) = tip + 1
        BY <3>4 DEF Place
      <4>2. tip + 1 \in Nat /\ Target(w) \in Nat
        BY <1>1, Facts, TargetType
      <4> QED
        BY <3>1, <3>3, <4>1, <4>2
    <3>6. status' = "Ongoing"
      BY <1>1, <3>2, TrackType DEF VInv
    <3> QED
      BY <3>1, <3>3, <3>4, <3>5, <3>6 DEF Pending, Coming
  <2>8. Accounts(w)'
    <3> SUFFICES ASSUME ~Coming(w)
                 PROVE  log'.tries + (IF Misled(w) THEN 1 ELSE 0) <= log'.troubles
      BY <2>2 DEF Accounts
    <3>1. try = 0
      BY <2>5, <2>7
    <3>2. log.tries + (IF Misled(w) THEN 1 ELSE 0) <= log.troubles
      BY <2>1 DEF Window, Accounts
    <3> QED
      BY <1>1, <1>3, <1>4, <3>1, <3>2
  <2>9. Delivered(w)'
    <3> SUFFICES ASSUME log'.tries > 0, log.troubles = 0, status' # "Successful"
                 PROVE  /\ status' = "Ongoing"
                        /\ \/ txs[followed].state = "accepted"
                           \/ /\ txs[followed].state = "pending"
                              /\ TakenIn(tip + 1, txs[followed].hash)
      BY <1>4, SameChain DEF Delivered
    <3>1. CASE try = 1
      BY <2>7, <3>1 DEF Pending
    <3>2. CASE try = 0
      <4>1. log.tries > 0
        BY <1>1, <1>3, <3>2
      <4>2. status # "Successful" /\ status = "Ongoing"
        OBVIOUS
      <4>3. \/ txs[followed].state = "accepted"
            \/ txs[followed].state = "pending" /\ TakenIn(tip + 1, txs[followed].hash)
        BY <2>1, <4>1, <4>2 DEF Window, Delivered
      <4>4. status' \in {"Ongoing", "Successful", "Failed"} /\ TrackAttest # "Failed"
        BY <1>1, <4>2, TrackType DEF VInv
      <4> QED
        BY <4>2, <4>3, <4>4
    <3> QED
      BY <3>1, <3>2
  <2> QED
    BY <2>1, <2>3, <2>4, <2>6, <2>8, <2>9 DEF Window
<1> QED
  BY <1>7, <1>8, <1>9 DEF Mempool

LEMMA WindowDoStep == ASSUME WInv, VInv', NEW i \in Subs, TakeDo(i) PROVE WInv'
<1>1. Taken(i) /\ UNCHANGED chain
  BY DEF TakeDo
<1>2. HashesOwn'
  BY <1>1, TakenOwn DEF chain
<1>3. PICK w \in Epochs, h \in {processor[i].hash} :
        w = processor[i].epoch /\ h = processor[i].hash /\ Own(h, w)
  BY OfferFacts DEF TakeDo, Offers
<1>4. PICK try \in {0, 1} : try = IF TakenIn(tip + 1, h) THEN 1 ELSE 0
  OBVIOUS
<1>5. \/ StartsOver /\ Attempt(w, h, try, 0)
      \/ Attempt(w, h, try, 1)
      \/ /\ Logged(w, try, 0, FALSE) /\ UNCHANGED <<txs, followed, valid, preparedHash>>
         /\ \/ status = "Ongoing" /\ TrackAttest # "Failed" /\ status' = TrackAttest
            \/ status = "Successful" /\ status' = status
  BY <1>3, <1>4 DEF TakeDo, StartsOver
<1>6. 0 \in Nat /\ 1 \in Nat /\ try \in Nat
  OBVIOUS
<1>7. Mempool' /\ \A v \in Epochs : Window(v)'
  <2>1. CASE StartsOver /\ Invoke(w, try, 0, Built(h))
    BY <1>1, <1>3, <1>4, <1>6, <2>1, WindowInvoke
  <2>2. CASE InvokeFails(w, try, Built(h))
    BY <1>1, <1>3, <2>2, WindowInvokeFails
  <2>3. CASE BuildFails(w)
    BY <1>1, <1>3, <2>3, WindowBuildFails
  <2>4. CASE Invoke(w, try, 1, Built(h))
    BY <1>1, <1>3, <1>4, <1>6, <2>4, WindowInvoke
  <2>5. CASE /\ Logged(w, try, 0, FALSE) /\ UNCHANGED <<txs, followed, valid, preparedHash>>
             /\ \/ status = "Ongoing" /\ TrackAttest # "Failed" /\ status' = TrackAttest
                \/ status = "Successful" /\ status' = status
    BY <1>1, <1>3, <1>4, <2>5, WindowTrack
  <2> QED
    BY <1>5, <2>1, <2>2, <2>3, <2>4, <2>5 DEF Attempt
<1> QED
  BY <1>2, <1>7 DEF WInv

-----------------------------------------------------------------------------
(***************************************************************************)
(* The invariant, and what it says of the end of a window.                 *)
(***************************************************************************)
LEMMA WInvInit == Init => WInv
<1> SUFFICES ASSUME Init PROVE WInv
  OBVIOUS
<1>1. VInv
  BY VInvInit
<1>2. HashesOwn
  <2>1. \A e \in Epochs : Own(hashes[e], e)
    BY ConstantTypes DEF Init, Own
  <2>2. \A i \in Subs : Own(processor[i].hash, processor[i].epoch)
    BY DEF Init, Processor, Own
  <2> QED
    BY <2>1, <2>2 DEF HashesOwn
<1>3. Mempool
  BY DEF Init, Mempool, TxsOwn, Sole, Pending
<1>4. \A w \in Epochs : Window(w)
  BY DEF Init, Window, Prepared, Accounts, Misled, FollowedOwn, Succeeded, Delivered, EmptyLog
<1> QED
  BY <1>1, <1>2, <1>3, <1>4 DEF WInv

LEMMA WInvStep == WInv /\ [Next]_vars => WInv'
<1> SUFFICES ASSUME WInv, [Next]_vars PROVE WInv'
  OBVIOUS
<1>1. VInv'
  BY VInvStep DEF WInv
<1>2. CASE Chain
  BY <1>1, <1>2, NewBlockStep, NewBlockWithoutStep, WindowReorgStep DEF Chain
<1>3. CASE Watcher
  BY <1>1, <1>3, WindowWatcherStep
<1>4. CASE \E i \in Subs : ProcessBlockHeaders(i)
  BY <1>1, <1>4, WindowProcessorStep, WindowPrepareStep, WindowDoStep, WindowEndStep
     DEF ProcessBlockHeaders, Dispatch
<1>5. CASE UNCHANGED vars
  BY <1>1, <1>5, WindowStutter
<1> QED
  BY <1>2, <1>3, <1>4, <1>5 DEF Next

\* At the end of a window the contract takes nothing for it any more: what was to be
\* attested by the next block is attested.
LEMMA Settled ==
  ASSUME WInv, NEW w \in Epochs, Target(w) + AttestWindow <= tip
  PROVE  /\ \A h : TakenIn(tip + 1, h) => EpochOf(tip + 1) # w
         /\ Coming(w) => Attested(w)
<1>1. HashesOwn /\ tip \in Nat /\ Target(w) \in Nat /\ AttestWindow \in Nat
  BY Facts, TargetType, ConstantTypes DEF WInv
<1>2. ASSUME NEW h, TakenIn(tip + 1, h), EpochOf(tip + 1) = w PROVE FALSE
  <2>1. tip + 1 <= Target(w) + AttestWindow
    BY <1>1, <1>2, TakenFacts
  <2> QED
    BY <1>1, <2>1
<1> QED
  BY <1>2 DEF Coming

\* What the end of a window finds.
LEMMA WindowEnd ==
  ASSUME WInv, NEW i \in Subs, WindowEnds(i), MayExpect,
         log.windows \subseteq {processor[i].epoch}
  PROVE  EndsWell(i)
<1>1. PICK w \in Epochs : w = processor[i].epoch
  BY OfferFacts DEF WindowEnds, TakeEndOfWindow, Offers
<1>2. /\ VInv /\ HashesOwn /\ TxsOwn /\ Window(w) /\ Alone(w) /\ Target(w) + AttestWindow <= tip
      /\ log.tries > log.troubles /\ log.tries \in Nat /\ log.troubles \in Nat
  BY <1>1, Facts DEF WInv, Mempool, Alone, WindowEnds, MayExpect
<1>3. Attested(w)
  <2>1. Coming(w)
    BY <1>2 DEF Window, Accounts
  <2> QED
    BY <1>2, <2>1, Settled
<1>4. ASSUME log.troubles = 0 PROVE confirmed' = confirmed + 1 \/ faults' # faults
  <2>1. status = "Successful" \/ (status = "Ongoing" /\ TrackAttest = "Successful")
    <3>1. \/ status = "Successful"
          \/ status = "Ongoing" /\ txs[followed].state = "accepted"
          \/ /\ status = "Ongoing" /\ txs[followed].state = "pending"
             /\ TakenIn(tip + 1, txs[followed].hash)
      BY <1>2, <1>4 DEF Window, Delivered
    <3>2. CASE status = "Ongoing" /\ txs[followed].state = "accepted"
      BY <1>2, <3>2 DEF Window, FollowedOwn, TrackAttest
    <3>3. CASE /\ status = "Ongoing" /\ txs[followed].state = "pending"
               /\ TakenIn(tip + 1, txs[followed].hash)
      <4>1. txs[followed].hash[1] = w
        BY <1>2, <3>3 DEF Window, FollowedOwn
      <4>2. EpochOf(tip + 1) = w
        BY <1>2, <3>3, <4>1, TakenFacts
      <4> QED
        BY <1>2, <3>3, <4>2, Settled
    <3> QED
      BY <3>1, <3>2, <3>3
  <2>2. \/ CloseWindow(IF status = "Successful" THEN status ELSE TrackAttest)
        \/ Fault
    BY DEF WindowEnds, TakeEndOfWindow
  <2>3. CASE CloseWindow(IF status = "Successful" THEN status ELSE TrackAttest)
    BY <2>1, <2>3 DEF CloseWindow
  <2>4. CASE Fault
    <3>1. faults \in Nat
      BY <1>2, ConstantTypes DEF VInv, TypeOK
    <3> QED
      BY <2>4, <3>1 DEF Fault, Faults
  <2> QED
    BY <2>2, <2>3, <2>4
<1> QED
  BY <1>1, <1>3, <1>4 DEF EndsWell

\* "from [window start, window end), make sure the attestation is done" (validator.go:254):
\* a window with more attempts than troubles is attested when it ends, and counted as
\* confirmed if there were no troubles and the status can be had, if every event since the
\* last clean slate was of this window and nothing hopeless happened since: no failed build
\* or nonce lookup, no transaction left out, dropped or lost, no reorganisation of a
\* Successful window, no "done" about another epoch.
THEOREM WindowSurvivesAlways == Spec => WindowSurvives
<1>1. WInv /\ [Next]_vars =>
        [\A i \in Subs : WindowEnds(i) /\ MayExpect /\ log.windows \subseteq {processor[i].epoch}
                         => EndsWell(i)]_vars
  BY WindowEnd
<1> QED
  BY <1>1, WInvInit, WInvStep, PTL DEF Spec, WindowSurvives

-----------------------------------------------------------------------------
(***************************************************************************)
(* The first subscription.  Its processor may be sent back by a            *)
(* reorganisation, but does not leave the window of an event before the    *)
(* clean slate.                                                            *)
(***************************************************************************)

\* The end of its epoch's window is ahead of a processor, or in its outbox.
EndAhead(p) == \/ p.next <= Target(p.epoch) + AttestWindow
               \/ p.pc = "sending" /\ p.outbox = <<"over">>

\* A processor is in step with the windows of the events since the clean slate.
InStep(p, windows) ==
  /\ p.pc \in {"none", "fetching", "looking", "switching"} => windows = {}
  /\ p.pc = "switching" => p.next <= p.block + 1
  /\ p.pc \in {"receiving", "sending"} =>
       windows \subseteq {p.epoch} /\ (windows # {} \/ p.pc = "sending" => EndAhead(p))

FirstInStep == /\ \A i \in Subs : i > subs => processor[i].pc = "none"
               /\ subs = 0 => log.windows = {}
               /\ subs = 1 => InStep(processor[1], log.windows)

\* What a block is in the schedule of epoch e.
LEMMA BlockFacts ==
  ASSUME NEW e \in Epochs, NEW b \in Nat
  PROVE  LET out == EventsFor(b, AttestInfo(Target(e), AttestWindow))
             end == Target(e) + AttestWindow
         IN  /\ end \in Nat
             /\ b = end => out = <<"over">>
             /\ b > end => out = <<>>
             /\ EpochIsOver(b, EpochInfo(e)) => b > end
<1> DEFINE info == AttestInfo(Target(e), AttestWindow)
           end == Target(e) + AttestWindow
<1>1. /\ Target(e) \in Nat /\ AttestWindow \in Nat /\ MinAttestationWindow \in Nat \ {0}
      /\ MinAttestationWindow <= AttestWindow
  BY TargetType, ConstantTypes
<1>2. info = InfoFor(EpochInfo(e), AttestWindow, Poseidon) /\ Poseidon \in Nat
      /\ info.targetBlock = Target(e) /\ Regular(EpochInfo(e), AttestWindow)
  BY EpochIsRegular, ConstantTypes DEF InfoFor, Target, AttestInfo
<1>3. /\ PrepareBlock(b, info) <=> Target(e) <= b /\ b + 1 < Target(e) + MinAttestationWindow
      /\ DoBlock(b, info) <=> Target(e) + MinAttestationWindow <= b + 1 /\ b + 1 <= end
      /\ EndBlock(b, info) <=> b = end
  BY <1>2, Schedule
<1>4. EpochIsOver(b, EpochInfo(e)) => b > end
  <2> DEFINE s == EpochInfo(e).startingBlock
             l == EpochInfo(e).epochLen
  <2>1. s \in Nat /\ l \in Nat /\ s + l < Uint64Size
    BY <1>2, ConstantTypes DEF Regular, EpochInfos, Uint64
  <2>2. end < s + l
    BY <1>2, TargetInEpoch DEF Target
  <2>3. Plus(s, l) = s + l
    BY <2>1, NoWrap
  <2> HIDE DEF s, l
  <2>4. EpochIsOver(b, EpochInfo(e)) => b >= s + l
    BY <2>3 DEF EpochIsOver, s, l
  <2> QED
    BY <1>1, <2>1, <2>2, <2>4
<1>5. b >= end => b # info.targetBlock /\ ~PrepareBlock(b, info) /\ ~DoBlock(b, info)
  BY <1>1, <1>2, <1>3
<1>6. b = end => EventsFor(b, info) = <<"over">>
  <2>1. b = end => /\ b # info.targetBlock /\ ~PrepareBlock(b, info) /\ ~DoBlock(b, info)
                   /\ EndBlock(b, info)
    BY <1>1, <1>3, <1>5
  <2> HIDE DEF info, end
  <2>2. b = end => EventsFor(b, info) = <<>> \o <<"over">>
    BY <2>1 DEF EventsFor
  <2>3. <<>> \o <<"over">> = <<"over">>
    OBVIOUS
  <2> QED
    BY <2>2, <2>3
<1>7. b > end => EventsFor(b, info) = <<>>
  BY <1>1, <1>3, <1>5 DEF EventsFor
<1> QED
  BY <1>1, <1>4, <1>6, <1>7

LEMMA HandledInStep ==
  ASSUME NEW p \in Processors, p.epoch \in Epochs, NEW b \in Nat, p.next <= b + 1,
         NEW windows, windows \subseteq {p.epoch},
         windows # {} => b <= Target(p.epoch) + AttestWindow
  PROVE  InStep(Handled(p, b), windows)
<1> DEFINE info == AttestInfo(Target(p.epoch), AttestWindow)
           out == EventsFor(b, info)
           end == Target(p.epoch) + AttestWindow
           q == Handled(p, b)
<1>1. q = [p EXCEPT !.pc = IF out = <<>> THEN "receiving" ELSE "sending",
                    !.outbox = out, !.block = 0,
                    !.hash = IF b = info.targetBlock THEN hashes[p.epoch] ELSE @]
  BY DEF Handled
<1>2. end \in Nat /\ (b = end => out = <<"over">>) /\ (b > end => out = <<>>)
  BY BlockFacts
<1> HIDE DEF info, out, end, q
<1>3. /\ q.pc = (IF out = <<>> THEN "receiving" ELSE "sending") /\ q.outbox = out
      /\ q.epoch = p.epoch /\ q.next = p.next /\ p.next \in Nat
  BY <1>1, ConstantTypes DEF Processors
<1>4. windows # {} \/ q.pc = "sending" => q.next <= end \/ (q.pc = "sending" /\ q.outbox = <<"over">>)
  <2>1. b < end => q.next <= end
    BY <1>2, <1>3
  <2>2. b = end => q.pc = "sending" /\ q.outbox = <<"over">>
    <3>1. <<"over">> # <<>>
      OBVIOUS
    <3> QED
      BY <1>2, <1>3, <3>1
  <2>3. b > end => windows = {} /\ q.pc = "receiving"
    BY <1>2, <1>3 DEF end
  <2> QED
    BY <1>2, <2>1, <2>2, <2>3
<1> QED
  BY <1>3, <1>4 DEF InStep, EndAhead, end, q

LEMMA KeepsStep ==
  ASSUME FirstInStep, UNCHANGED <<processor, subs>>, log'.windows = log.windows
  PROVE  FirstInStep'
BY DEF FirstInStep

\* A processor that has been started moves.
LEMMA MovesInStep ==
  ASSUME VInv, FirstInStep, UNCHANGED subs, NEW i \in Subs, processor[i].pc # "none",
         NEW q, processor' = [processor EXCEPT ![i] = q],
         InStep(processor[i], log.windows) => InStep(q, log'.windows)
  PROVE  FirstInStep'
<1>1. processor \in [Subs -> Processors] /\ subs \in 0..MaxSubs /\ i \in Nat /\ i >= 1
  BY ConstantTypes DEF VInv, TypeOK, Subs
<1>2. i <= subs /\ subs # 0
  BY <1>1, ConstantTypes DEF FirstInStep
<1>3. \A j \in Subs : j > subs => processor'[j] = processor[j]
  BY <1>1, <1>2, ConstantTypes
<1>4. subs = 1 => i = 1 /\ processor'[1] = q
  BY <1>1, <1>2
<1> QED
  BY <1>2, <1>3, <1>4 DEF FirstInStep

LEMMA InStepProcessor ==
  ASSUME VInv, FirstInStep, NEW i \in Subs,
         Fetch(i) \/ LookUp(i) \/ ReceiveHeader(i) \/ Switch(i) \/ FeedEnds(i)
  PROVE  FirstInStep'
<1> DEFINE p == processor[i]
           windows == log.windows
<1>1. /\ Fine(p) /\ p \in Processors /\ tip \in 0..LastBlock
  BY DEF VInv, Fine, TypeOK
<1>2. UNCHANGED <<subs, log>>
  BY DEF Fetch, LookUp, ReceiveHeader, Switch, FeedEnds, Becomes, watcher
<1>3. log'.windows = windows /\ subs' = subs
  BY <1>2
<1>4. ASSUME NEW q, Becomes(i, q), p.pc # "none", InStep(p, windows) => InStep(q, windows)
      PROVE  FirstInStep'
  <2>1. processor' = [processor EXCEPT ![i] = q]
    BY <1>4 DEF Becomes
  <2> QED
    BY <1>3, <1>4, <2>1, MovesInStep
<1> HIDE DEF p, windows
<1>5. CASE Fetch(i)
  <2> DEFINE q == [p EXCEPT !.pc = "looking", !.epoch = EpochOf(tip)]
  <2>1. p.pc = "fetching" /\ Becomes(i, q)
    BY <1>5 DEF Fetch, p
  <2>2. InStep(p, windows) => InStep(q, windows)
    BY <1>1, <2>1 DEF InStep, Processors
  <2> HIDE DEF q
  <2> QED
    BY <1>4, <2>1, <2>2
<1>6. CASE LookUp(i)
  <2> DEFINE q == [p EXCEPT !.pc = "receiving", !.hash = hashes[p.epoch]]
             r == [p EXCEPT !.pc = "receiving"]
  <2>1. p.pc = "looking" /\ (Becomes(i, q) \/ Becomes(i, r))
    BY <1>6 DEF LookUp, p
  <2>2. q.pc = "receiving" /\ r.pc = "receiving"
    BY <1>1 DEF Processors
  <2> HIDE DEF q, r
  <2>3. InStep(p, windows) => InStep(q, windows) /\ InStep(r, windows)
    BY <2>1, <2>2 DEF InStep
  <2> QED
    BY <1>4, <2>1, <2>3
<1>7. CASE ReceiveHeader(i)
  <2> DEFINE q == [p EXCEPT !.next = @ + 1]
             s == [q EXCEPT !.pc = "switching", !.block = p.next]
             r == Handled(q, p.next)
             end == Target(p.epoch) + AttestWindow
             over == EpochIsOver(p.next, EpochInfo(p.epoch))
  <2>1. /\ p.pc = "receiving" /\ p.next <= tip
        /\ (over /\ Becomes(i, s)) \/ Becomes(i, r)
    BY <1>7 DEF ReceiveHeader, p
  <2>2. p.epoch \in Epochs /\ p.next + 1 \in 0..(LastBlock + 1) /\ p.next \in 0..LastBlock
        /\ p.next \in Nat
    BY <1>1, <2>1, ConstantTypes DEF Fine, Processors
  <2>3. /\ q \in Processors /\ q.epoch = p.epoch /\ q.next = p.next + 1 /\ q.pc = "receiving"
        /\ q.outbox = p.outbox
    BY <1>1, <2>1, <2>2 DEF Processors
  <2> HIDE DEF q
  <2>4. s.pc = "switching" /\ s.next = p.next + 1 /\ s.block = p.next
    BY <2>3 DEF Processors
  <2> HIDE DEF s, over, end
  <2>5. end \in Nat /\ (over => p.next > end)
    BY <2>2, BlockFacts DEF over, end
  <2>6. InStep(p, windows) => windows \subseteq {p.epoch} /\ (windows # {} => p.next <= end)
    BY <2>1 DEF InStep, EndAhead, end
  <2>7. over /\ InStep(p, windows) => InStep(s, windows)
    <3>1. over /\ InStep(p, windows) => windows = {}
      BY <2>2, <2>5, <2>6
    <3> QED
      BY <2>2, <2>4, <3>1 DEF InStep
  <2>8. InStep(p, windows) => InStep(r, windows)
    BY <2>2, <2>3, <2>6, HandledInStep DEF end
  <2> HIDE DEF r
  <2> QED
    BY <1>4, <2>1, <2>7, <2>8
<1>8. CASE Switch(i)
  <2> DEFINE q == [p EXCEPT !.epoch = EpochOf(tip), !.hash = ZeroHash]
             r == Handled(q, p.block)
  <2>1. p.pc = "switching" /\ Becomes(i, r)
    BY <1>8 DEF Switch, p
  <2>2. /\ q \in Processors /\ q.epoch = EpochOf(tip) /\ q.epoch \in Epochs /\ q.next = p.next
        /\ p.block \in Nat
    <3>1. q \in Processors /\ q.epoch = EpochOf(tip) /\ q.epoch \in Epochs
      BY <1>1, EpochOfBlock DEF Processors, Hashes
    <3>2. q.next = p.next
      BY <1>1 DEF Processors
    <3>3. p.block \in Nat
      BY <1>1, ConstantTypes DEF Processors
    <3> QED
      BY <3>1, <3>2, <3>3
  <2> HIDE DEF q
  <2>3. InStep(p, windows) => windows = {} /\ p.next <= p.block + 1
    BY <2>1 DEF InStep
  <2>4. InStep(p, windows) => InStep(r, windows)
    BY <2>2, <2>3, HandledInStep
  <2> HIDE DEF r
  <2> QED
    BY <1>4, <2>1, <2>4
<1>9. CASE FeedEnds(i)
  <2>1. p.pc = "receiving" /\ Becomes(i, Processor("returned", 0))
    BY <1>9 DEF FeedEnds, p
  <2>2. InStep(Processor("returned", 0), windows)
    BY DEF InStep, Processor
  <2> QED
    BY <1>4, <2>1, <2>2
<1> QED
  BY <1>5, <1>6, <1>7, <1>8, <1>9

\* An event is taken: of the window that is being worked on, or of its end.
LEMMA LoggedWindows ==
  ASSUME VInv, NEW w \in Epochs, NEW try \in {0, 1}, NEW troubles \in {0, 1},
         NEW hopeless \in BOOLEAN, Logged(w, try, troubles, hopeless)
  PROVE  log'.windows = log.windows \cup {w}
<1> DEFINE ws == log.windows \cup {w}
           ts == try + (IF w \in log.windows THEN log.tries ELSE 0)
           h == log.hopeless \/ hopeless
<1>1. log \in Logs
  BY DEF VInv, TypeOK
<1>2. log' = [log EXCEPT !.windows = ws, !.tries = ts, !.troubles = @ + troubles, !.hopeless = h]
  BY DEF Logged
<1> HIDE DEF ws, ts, h
<1>3. log'.windows = ws
  BY <1>1, <1>2 DEF Logs
<1> QED
  BY <1>3 DEF ws

LEMMA InStepDispatch == ASSUME VInv, FirstInStep, NEW i \in Subs, Dispatch(i) PROVE FirstInStep'
<1> DEFINE p == processor[i]
           rest == Tail(p.outbox)
           q == [p EXCEPT !.outbox = rest, !.pc = IF rest = <<>> THEN "receiving" ELSE "sending"]
<1>1. /\ p.pc = "sending" /\ Taken(i) /\ UNCHANGED watcher
  BY DEF Dispatch, TakePrepare, TakeDo, TakeEndOfWindow, Offers
<1>2. /\ p \in Processors /\ p.epoch \in Epochs /\ p.outbox # <<>> /\ p.outbox \in Seq(Kinds)
      /\ processor \in [Subs -> Processors]
  BY <1>1 DEF VInv, Fine, TypeOK, Processors, Kinds
<1>3. processor' = [processor EXCEPT ![i] = q]
  BY <1>1, <1>2 DEF Taken, Processors
<1>4. /\ q.pc \in {"receiving", "sending"} /\ q.epoch = p.epoch /\ q.next = p.next
  BY <1>2 DEF Processors
<1>5. \/ log'.windows = {}
      \/ log'.windows = log.windows \cup {p.epoch} /\ Head(p.outbox) # "over"
  <2>1. CASE TakeEndOfWindow(i)
    BY <2>1 DEF TakeEndOfWindow, CloseWindow, EmptyLog
  <2>2. CASE TakePrepare(i)
    <3>1. PICK troubles \in {0, 1} : Logged(p.epoch, 0, troubles, FALSE)
      <4>1. Logged(p.epoch, 0, 0, FALSE) \/
            Logged(p.epoch, 0, IF p.hash = hashes[p.epoch] /\ p.hash # ZeroHash THEN 0 ELSE 1, FALSE)
        BY <2>2 DEF TakePrepare
      <4> QED
        BY <4>1
    <3>2. Head(p.outbox) = "prepare"
      BY <2>2 DEF TakePrepare, Offers
    <3>3. log'.windows = log.windows \cup {p.epoch}
      BY <1>2, <3>1, LoggedWindows
    <3> QED
      BY <3>2, <3>3
  <2>3. CASE TakeDo(i)
    <3>1. Head(p.outbox) = "do"
      BY <2>3 DEF TakeDo, Offers
    <3>2. PICK try \in {0, 1}, troubles \in {0, 1}, hopeless \in BOOLEAN :
            Logged(p.epoch, try, troubles, hopeless)
      BY <2>3 DEF TakeDo, Attempt, Invoke, InvokeFails, BuildFails, OfAnother
    <3>3. log'.windows = log.windows \cup {p.epoch}
      BY <1>2, <3>2, LoggedWindows
    <3> QED
      BY <3>1, <3>3
  <2> QED
    BY <2>1, <2>2, <2>3 DEF Dispatch
<1> HIDE DEF p
<1>6. InStep(p, log.windows) => InStep(q, log'.windows)
  <2> SUFFICES ASSUME InStep(p, log.windows) PROVE InStep(q, log'.windows)
    OBVIOUS
  <2> HIDE DEF q
  <2>1. CASE log'.windows = {} /\ q.pc = "receiving"
    BY <2>1 DEF InStep
  <2>2. CASE p.outbox # <<"over">>
    <3>1. log'.windows \subseteq {p.epoch} /\ p.next <= Target(p.epoch) + AttestWindow
      BY <1>1, <1>5, <2>2 DEF InStep, EndAhead
    <3> QED
      BY <1>4, <3>1 DEF InStep, EndAhead
  <2>3. CASE p.outbox = <<"over">>
    <3>1. Head(p.outbox) = "over" /\ rest = <<>>
      BY <2>3
    <3> QED
      BY <1>2, <1>5, <2>1, <3>1 DEF q, Processors
  <2> QED
    BY <2>2, <2>3
<1> HIDE DEF q
<1> QED
  BY <1>1, <1>3, <1>6, MovesInStep DEF watcher, p

LEMMA InStepChain == ASSUME VInv, FirstInStep, Chain PROVE FirstInStep'
<1>1. log \in Logs /\ processor \in [Subs -> Processors] /\ tip \in Nat
  BY Facts DEF VInv, TypeOK
<1>2. CASE NewBlock
  BY <1>2, KeepsStep DEF NewBlock, Grow, watcher
<1>3. CASE NewBlockWithout
  <2>1. log' = [log EXCEPT !.hopeless = TRUE] /\ UNCHANGED <<processor, subs>>
    BY <1>3 DEF NewBlockWithout, Grow, watcher
  <2>2. log'.windows = log.windows
    BY <1>1, <2>1 DEF Logs
  <2> QED
    BY <2>1, <2>2, KeepsStep
<1>4. ASSUME NEW to \in 0..(tip - 1), Reorg(to) PROVE FirstInStep'
  <2> DEFINE back(i) == i = subs /\ live /\ processor[i].next > to + 1
  <2>1. /\ subs' = subs /\ to \in Nat
        /\ processor' = [i \in Subs |-> IF back(i) THEN [processor[i] EXCEPT !.next = to + 1]
                                                  ELSE processor[i]]
    <3>1. subs' = subs
      BY <1>4 DEF Reorg, watcher
    <3>2. to \in Nat
      BY <1>1, <1>4
    <3>3. processor' = [i \in Subs |-> IF back(i) THEN [processor[i] EXCEPT !.next = to + 1]
                                                   ELSE processor[i]]
      BY <1>4 DEF Reorg
    <3> QED
      BY <3>1, <3>2, <3>3
  <2>2. log'.windows = log.windows
    <3> DEFINE h == log.hopeless \/ status = "Successful"
                      \/ \E k \in DOMAIN txs : txs'[k].state = "dropped"
    <3>1. log' = [log EXCEPT !.tries = 0, !.troubles = @ + 1, !.hopeless = h]
      BY <1>4 DEF Reorg
    <3> HIDE DEF h
    <3> QED
      BY <1>1, <3>1 DEF Logs
  <2>3. ASSUME NEW i \in Subs
        PROVE  /\ processor'[i].pc = processor[i].pc /\ processor'[i].epoch = processor[i].epoch
               /\ processor'[i].outbox = processor[i].outbox
               /\ processor'[i].block = processor[i].block
               /\ processor[i].next \in Nat /\ processor[i].block \in Nat
               /\ processor'[i].next \in Nat /\ processor'[i].next <= processor[i].next
    <3>1. processor[i] \in Processors /\ processor[i].next \in Nat /\ processor[i].block \in Nat
      BY <1>1, ConstantTypes DEF Processors
    <3>2. CASE back(i)
      <4>1. processor'[i] = [processor[i] EXCEPT !.next = to + 1]
        BY <2>1, <3>2
      <4>2. processor[i].next > to + 1
        BY <3>2
      <4> HIDE DEF back
      <4>3. processor'[i].next = to + 1
        BY <3>1, <4>1 DEF Processors
      <4>4. /\ processor'[i].pc = processor[i].pc /\ processor'[i].epoch = processor[i].epoch
            /\ processor'[i].outbox = processor[i].outbox
            /\ processor'[i].block = processor[i].block
        BY <3>1, <4>1 DEF Processors
      <4> QED
        BY <2>1, <3>1, <4>2, <4>3, <4>4
    <3>3. CASE ~back(i)
      <4>1. processor'[i] = processor[i]
        BY <2>1, <3>3
      <4> QED
        BY <3>1, <4>1
    <3> QED
      BY <3>2, <3>3
  <2>4. ASSUME 1 \in Subs, InStep(processor[1], log.windows)
        PROVE  InStep(processor'[1], log.windows)
    <3> DEFINE p == processor[1]
               q == processor'[1]
    <3>1. /\ q.pc = p.pc /\ q.epoch = p.epoch /\ q.outbox = p.outbox /\ q.block = p.block
          /\ p.next \in Nat /\ q.next \in Nat /\ p.block \in Nat /\ q.next <= p.next
      BY <2>3, <2>4
    <3>2. p.pc \in {"receiving", "sending"} => p.epoch \in Epochs
      BY <2>4 DEF VInv, Fine
    <3> HIDE DEF p, q
    <3>3. p.pc \in {"receiving", "sending"} => Target(p.epoch) + AttestWindow \in Nat
      BY <3>2, TargetType, ConstantTypes
    <3>4. p.pc \in {"receiving", "sending"} /\ EndAhead(p) => EndAhead(q)
      BY <3>1, <3>3 DEF EndAhead
    <3>5. InStep(p, log.windows)
      BY <2>4 DEF p
    <3> QED
      BY <3>1, <3>4, <3>5 DEF InStep, q
  <2>5. subs = 1 => 1 \in Subs
    BY ConstantTypes DEF VInv, TypeOK, Subs
  <2> QED
    BY <2>1, <2>2, <2>3, <2>4, <2>5 DEF FirstInStep
<1> QED
  BY <1>2, <1>3, <1>4 DEF Chain

LEMMA InStepWatcher == ASSUME VInv, FirstInStep, Watcher PROVE FirstInStep'
<1>1. CASE Subscribe
  <2>1. PICK n \in {tip, tip + 1} :
          processor' = [processor EXCEPT ![subs + 1] = Processor("fetching", n)]
    BY <1>1 DEF Subscribe
  <2>2. subs' = subs + 1 /\ log' = log /\ subs < MaxSubs
    BY <1>1 DEF Subscribe
  <2>3. processor \in [Subs -> Processors] /\ subs \in Nat /\ MaxSubs \in Nat
    BY ConstantTypes DEF VInv, TypeOK
  <2>4. ASSUME NEW j \in Subs, j > subs + 1 PROVE processor'[j].pc = "none"
    <3>1. j \in Nat /\ j # subs + 1 /\ j > subs
      BY <2>3, <2>4 DEF Subs
    <3>2. processor'[j] = processor[j]
      BY <2>1, <2>3, <3>1
    <3> QED
      BY <3>1, <3>2 DEF FirstInStep
  <2>5. subs + 1 = 1 => subs = 0 /\ 1 \in Subs
    BY <2>2, <2>3 DEF Subs
  <2>6. subs + 1 = 1 => processor'[1] = Processor("fetching", n) /\ log.windows = {}
    BY <2>1, <2>3, <2>5 DEF FirstInStep
  <2>7. InStep(Processor("fetching", n), {})
    BY DEF InStep, Processor
  <2> QED
    BY <2>2, <2>3, <2>4, <2>6, <2>7 DEF FirstInStep
<1>2. CASE CleanUp
  BY <1>2, KeepsStep DEF CleanUp
<1> QED
  BY <1>1, <1>2 DEF Watcher, SubscriptionError, TakeReorg

LEMMA FirstInStepInit == Init => FirstInStep
BY DEF Init, FirstInStep, Processor, EmptyLog

LEMMA FirstInStepStep == VInv /\ FirstInStep /\ [Next]_vars => FirstInStep'
<1> SUFFICES ASSUME VInv, FirstInStep, [Next]_vars PROVE FirstInStep'
  OBVIOUS
<1>1. CASE \E i \in Subs : ProcessBlockHeaders(i)
  BY <1>1, InStepProcessor, InStepDispatch DEF ProcessBlockHeaders
<1>2. CASE UNCHANGED vars
  BY <1>2, KeepsStep DEF vars, watcher
<1> QED
  BY <1>1, <1>2, InStepChain, InStepWatcher DEF Next

\* As long as the first subscription lasts, a window with more attempts than troubles, and
\* nothing hopeless since the clean slate, is attested when it ends, and counted as confirmed
\* if there were no troubles, whatever happened in the windows before: the processor ends a
\* window (validator.go:258) before it begins the next, so that the proviso on the events is
\* not needed.
THEOREM FirstSubscriptionSurvivesAlways == Spec => FirstSubscriptionSurvives
<1>1. ASSUME WInv, FirstInStep, NEW i \in Subs, subs = 1, WindowEnds(i), MayExpect
      PROVE  EndsWell(i)
  <2>1. processor[i].pc = "sending" /\ i \in Nat /\ i >= 1
    BY <1>1 DEF WindowEnds, TakeEndOfWindow, Offers, Subs
  <2>2. i = 1
    BY <1>1, <2>1 DEF FirstInStep
  <2>3. log.windows \subseteq {processor[i].epoch}
    BY <1>1, <2>1, <2>2 DEF FirstInStep, InStep
  <2> QED
    BY <1>1, <2>3, WindowEnd
<1>2. WInv /\ FirstInStep /\ [Next]_vars =>
        [\A i \in Subs : subs = 1 /\ WindowEnds(i) /\ MayExpect => EndsWell(i)]_vars
  BY <1>1
<1>3. WInv => VInv
  BY DEF WInv
<1> QED
  BY <1>2, <1>3, WInvInit, WInvStep, FirstInStepInit, FirstInStepStep, PTL
     DEF Spec, FirstSubscriptionSurvives
=============================================================================
