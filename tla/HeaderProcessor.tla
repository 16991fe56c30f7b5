--------------------------- MODULE HeaderProcessor ---------------------------
(***************************************************************************)
(* ProcessBlockHeaders (validator/validator.go): the goroutine that turns  *)
(* the block headers of one subscription into events for the dispatcher.   *)
(*                                                                         *)
(* Two views of the chain meet here.  The headers come over a websocket,   *)
(* one after the other without gaps; the epoch, the attestation window and *)
(* the target's hash are asked for over HTTP, from a node with a latest    *)
(* block of its own.  Either may be ahead; HttpAhead and HttpBehind bound  *)
(* by how much.  Any call may fail.                                        *)
(*                                                                         *)
(* Epoch e of the chain consists of EpochLen blocks; the hash of its       *)
(* target block is abstracted to e, and ZeroHash is Go's zero value.       *)
(***************************************************************************)
EXTENDS Retries, EpochSchedule

CONSTANTS LastEpoch,      \* bound: the chain ends with this epoch
          EpochLen,       \* blocks in an epoch
          AttestWindow,   \* the attestation contract's window
          PoseidonHashes, \* the values the hash of stake, epoch, staker takes
          RetryOptions,   \* what --max-retries may be set to
          HttpAhead,      \* bound: the HTTP node is so many blocks ahead
          HttpBehind      \* bound: or so many behind

ASSUME ScheduleAssumption ==
  /\ LastEpoch \in Nat \ {0} /\ EpochLen \in Nat /\ AttestWindow \in Nat
  /\ MinAttestationWindow <= AttestWindow /\ AttestWindow < EpochLen
  /\ (LastEpoch + 1) * EpochLen < Uint64Size
ASSUME HashesAssumption == PoseidonHashes \subseteq Nat
ASSUME RetriesAssumption == /\ RetryOptions \subseteq Retries
                           /\ \A r \in RetryOptions : ~IsZero(r)

VARIABLES maxRetries, \* --max-retries, which the run started with
          http,       \* latest block of the HTTP node
          next,       \* number of the next header in the feed
          first,      \* history: number of the first header
          poseidon,   \* the hash for each epoch
          feedClosed, \* cleanUp has closed the feed
          pc,         \* what the goroutine waits for
          switching,  \* fetching for an epoch switch, not at startup
          retries,    \* FetchEpochAndAttestInfoWithRetry's own maxRetries
          epochInfo, attestInfo, targetHash,
          block,      \* number of the header being processed
          outbox,     \* events for it that are still to be offered
          event,      \* history: the last event
          window, stage

node == <<http, poseidon, maxRetries>>
feed == <<next, first, feedClosed>>
fetch == <<switching, retries>>
infos == <<epochInfo, attestInfo, targetHash>>
offered == <<event, window, stage>>
vars == <<node, feed, pc, fetch, infos, block, outbox, offered>>

Epochs == 1..LastEpoch
LastBlock == LastEpoch * EpochLen - 1
Blocks == 0..LastBlock
ZeroHash == 0
Kinds == {"prepare", "do", "over"}

\* What the staking contract says at block b.
EpochAt(b) == LET e == b \div EpochLen
              IN  [epochID |-> e + 1, startingBlock |-> e * EpochLen,
                   epochLen |-> EpochLen]

Target(e) == ComputeBlockNumberToAttestTo(EpochAt((e - 1) * EpochLen),
                                          AttestWindow, poseidon[e])

NoEpoch == [epochID |-> 0, startingBlock |-> 0, epochLen |-> 0]
NoAttest == [targetBlock |-> 0, windowStart |-> 0, windowEnd |-> 0]

\* --max-retries is never zero (RetriesFromString), so a value below it is what Sub
\* has left.
TypeOK == /\ http \in Blocks /\ next \in 0..(LastBlock + 1) /\ first \in Blocks
          /\ poseidon \in [Epochs -> PoseidonHashes]
          /\ feedClosed \in BOOLEAN
          /\ pc \in {"fetch", "refetch", "setTarget", "receive", "handle", "offer",
                     "failed", "returned"}
          /\ switching \in BOOLEAN
          /\ maxRetries \in RetryOptions
          /\ retries \in Retries /\ retries.value <= maxRetries.value
          /\ epochInfo \in EpochInfos
          /\ attestInfo \in [targetBlock : Uint64, windowStart : Uint64,
                             windowEnd : Uint64]
          /\ targetHash \in Epochs \cup {ZeroHash}
          /\ block \in Blocks
          /\ outbox \in Seq(Kinds)
          /\ event \in [kind : Kinds \cup {"none"}, block : Blocks,
                        blockHash : Epochs \cup {ZeroHash}]
          /\ window \in Epochs \cup {0} /\ stage \in Kinds

Init == /\ http \in Blocks
        /\ next \in (http - HttpAhead)..(http + HttpBehind) /\ next \in Blocks
        /\ first = next
        /\ poseidon \in [Epochs -> PoseidonHashes]
        /\ feedClosed = FALSE
        /\ pc = "fetch"
        /\ switching = FALSE
        /\ maxRetries \in RetryOptions /\ retries = maxRetries
        /\ epochInfo = NoEpoch /\ attestInfo = NoAttest /\ targetHash = ZeroHash
        /\ block = next
        /\ outbox = <<>>
        /\ event = [kind |-> "none", block |-> next, blockHash |-> ZeroHash]
        /\ window = 0 /\ stage = "over"
-----------------------------------------------------------------------------
\* The HTTP node learns of another block.
NewHttpBlock == /\ http < LastBlock
                /\ http + 1 <= next + HttpAhead
                /\ http' = http + 1
                /\ UNCHANGED <<poseidon, maxRetries, feed, pc, fetch, infos, block, outbox, offered>>

\* RunBlockHeaderWatcher gives this subscription up (cleanUp).
CloseFeed == /\ ~feedClosed
             /\ feedClosed' = TRUE
             /\ UNCHANGED <<node, next, first, pc, fetch, infos, block, outbox, offered>>
-----------------------------------------------------------------------------
(***************************************************************************)
(* FetchEpochAndAttestInfoWithRetry: one call, and further ones while it   *)
(* failed or did not show the epoch that must come next.                   *)
(***************************************************************************)
Fetched == EpochAt(http)
Expected == switching => CorrectEpochSwitch(epochInfo, Fetched)

\* Mutant: the new epoch inherits the hash of the last one's target block.
AdoptKeepsHash == /\ epochInfo' = Fetched
                  /\ attestInfo' = AttestInfo(Target(Fetched.epochID), AttestWindow)
                  /\ UNCHANGED targetHash
                  /\ pc' = IF switching THEN "handle" ELSE "setTarget"

Adopt == /\ epochInfo' = Fetched
         /\ attestInfo' = AttestInfo(Target(Fetched.epochID), AttestWindow)
         /\ targetHash' = ZeroHash
         /\ pc' = IF switching THEN "handle" ELSE "setTarget"

\* Mutant: retried without looking at how many retries are left.
GiveUpOrRetryBlindly(left) == pc' = "refetch" /\ UNCHANGED infos

GiveUpOrRetry(left) == /\ pc' = IF IsZero(left) THEN "failed" ELSE "refetch"
                       /\ UNCHANGED infos

\* The call succeeds and shows the right epoch, succeeds and shows another one,
\* or fails.
FetchRight == Expected /\ Adopt
FetchWrong(left) == ~Expected /\ GiveUpOrRetry(left)
FetchFails(left) == GiveUpOrRetry(left)

Fetch == /\ pc = "fetch"
         /\ FetchRight \/ FetchWrong(retries) \/ FetchFails(retries)
         /\ UNCHANGED <<node, feed, fetch, block, outbox, offered>>

Refetch(Outcome) == /\ pc = "refetch"
                    /\ Outcome
                    /\ retries' = Sub(retries)
                    /\ UNCHANGED <<node, feed, switching, block, outbox, offered>>

RefetchRight == Refetch(FetchRight)
RefetchWrong == Refetch(FetchWrong(Sub(retries)))
RefetchFails == Refetch(FetchFails(Sub(retries)))
-----------------------------------------------------------------------------
\* SetTargetBlockHashIfExists: asked once, at startup; a failure is taken for a
\* block that does not exist yet.
SetTargetBlockHashIfExists ==
  /\ pc = "setTarget"
  /\ pc' = "receive"
  /\ \/ attestInfo.targetBlock <= http /\ targetHash' = epochInfo.epochID
     \/ UNCHANGED targetHash
  /\ UNCHANGED <<node, feed, fetch, epochInfo, attestInfo, block, outbox, offered>>

\* for block := range headersFeed
ReceiveHeader ==
  /\ pc = "receive" /\ ~feedClosed
  /\ next <= LastBlock /\ next <= http + HttpBehind
  /\ block' = next
  /\ next' = next + 1
  /\ IF EpochIsOver(next, epochInfo)
     THEN pc' = "fetch" /\ switching' = TRUE /\ retries' = maxRetries
     ELSE pc' = "handle" /\ UNCHANGED fetch
  /\ UNCHANGED <<node, first, feedClosed, infos, outbox, offered>>

FeedEnds == /\ pc = "receive" /\ feedClosed
            /\ pc' = "returned"
            /\ UNCHANGED <<node, feed, fetch, infos, block, outbox, offered>>

Handle == /\ pc = "handle"
          /\ targetHash' = IF block = attestInfo.targetBlock THEN epochInfo.epochID
                                                            ELSE targetHash
          /\ outbox' = EventsFor(block, attestInfo)
          /\ pc' = IF outbox' = <<>> THEN "receive" ELSE "offer"
          /\ UNCHANGED <<node, feed, fetch, epochInfo, attestInfo, block, offered>>

\* The dispatcher takes the next event.
OfferEvent == /\ pc = "offer"
              /\ event' = [kind |-> Head(outbox), block |-> block,
                           blockHash |-> targetHash]
              /\ window' = epochInfo.epochID
              /\ stage' = Head(outbox)
              /\ outbox' = Tail(outbox)
              /\ pc' = IF outbox' = <<>> THEN "receive" ELSE "offer"
              /\ UNCHANGED <<node, feed, fetch, infos, block>>

Goroutine == \/ Fetch \/ RefetchRight \/ RefetchWrong \/ RefetchFails
             \/ SetTargetBlockHashIfExists \/ ReceiveHeader \/ FeedEnds
             \/ Handle \/ OfferEvent

Next == NewHttpBlock \/ CloseFeed \/ Goroutine

\* The HTTP node follows the chain, the goroutine is scheduled and its events
\* are taken, and a call that is repeated for ever is answered in the end.
Fairness == WF_vars(NewHttpBlock) /\ WF_vars(Goroutine) /\ SF_vars(RefetchRight)

Spec == Init /\ [][Next]_vars /\ Fairness
-----------------------------------------------------------------------------
\* Headers without gaps make events in the order the dispatcher relies on, and
\* none of a window is left out once the window has begun.
Order == INSTANCE Sender WITH Feed <- "complete", Windows <- Epochs
EventsInOrder == Order!SenderSpec

\* DoAttest is offered for a block only if the contract takes attestations in
\* the block after it, the one being built: the "- 1" of validator.go:253.
DoInsideWindow ==
  event.kind = "do" =>
    LET b == event.block + 1
        e == EpochAt(event.block).epochID
    IN  Target(e) + MinAttestationWindow <= b /\ b <= Target(e) + AttestWindow

\* An event carries no hash but that of its epoch's target block, and it does
\* carry it if this subscription delivered the target block.
HashIsOfTarget ==
  event.kind # "none" =>
    LET e == EpochAt(event.block).epochID
    IN  /\ event.blockHash \in {e, ZeroHash}
        /\ first <= Target(e) => event.blockHash = e

\* "make sure to prepare the transaction" (validator.go:248): what is prepared
\* or done is an attestation of a block, so its hash is known.
HashIsKnown == event.kind \in {"prepare", "do"} => event.blockHash # ZeroHash

\* The HTTP node is past the epoch the switch needs, for good: CorrectEpochSwitch
\* takes the immediate successor only.
Overtaken == switching /\ Fetched.epochID > epochInfo.epochID + 1

\* A fetch that is being repeated (validator.go:300) comes to an end, with any number
\* of retries: the next epoch is adopted, or the processor gives up, unless the HTTP
\* node gets more than an epoch ahead of the feed.
FetchEnds == pc = "refetch" ~> (pc # "refetch" \/ Overtaken)
=============================================================================
