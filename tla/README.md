# starknet-staking-v2 in TLA+

The validator of this repository attests, once per epoch, to a block the staking contract
assigns to it: it follows the block headers of a Starknet node, recognises the block to attest
to, and sends an attest transaction while the attestation window of the epoch is open. This
directory holds TLA+ models of that program, the configurations TLC checks them with, and
theorems about them that TLAPS has checked.

Paths below are relative to the repository root (`validator/...` is `src/validator/...` in
`PROJECT.json`).

## The system

| component | code | state | operations | interacts through |
|---|---|---|---|---|
| event dispatcher | `validator/dispatcher.go` | the tracker of the current window: transaction, hash, status | PrepareAttest, DoAttest, EndOfWindow; Build, UpdateNonce, Invoke, UpdateStatus | three unbuffered channels; signer; metrics |
| block header processor | `validator/validator.go:190-347` | epoch info, attest info, target hash, retries | startup fetch, epoch switch, target lookup, events per block | header feed; signer; the dispatcher's channels |
| epoch schedule | `validator/signer/signer.go:111-199`, `validator.go:217-261`, `344-347` | none | target block, window bounds, cases of a block, correct switch | called by the processor |
| block header watcher | `validator/validator.go:117-188`, `validator/provider_interaction.go` | the current subscription, its feed and stop channel, retries | subscribe, reconnect after an error or a reorganisation, stop | starts processors in the WaitGroup; ends the feed |
| validator | `validator/validator.go:31-115` | provider, signer | New, Attest | starts dispatcher and watcher; closes PrepareAttest |
| signers | `validator/signer/internal.go`, `external.go` | keys or a URL, chain id | BuildAttestTransaction, EstimateFee, SignTransaction, InvokeTransaction, TransactionStatus, Nonce, Call | RPC; HTTP to the remote signer |
| remote signer | `signer/signer.go`, `cmd/signer` | key store | sign | HTTP |
| retries | `validator/types/retries.go` | a number or "infinite" | Sub, IsZero | |
| balance check | `validator/balance.go` | none | read, report | a goroutine per window; metrics |
| metrics | `validator/metrics` | counters and gauges | record | HTTP |
| startup | `cmd/validator/main.go`, `helper.go` | flags, the two channels of `run` | preRun, tryNewValidator, run | signals, errCh |
| upgrade tracker | `cmd/validator/upgrade.go` | a timer | look for a release | log only |
| configuration | `validator/config` | | merge, check | |
| *external* | Starknet node, staking and attestation contracts | epoch, attestations, nonce, mempool | | |

How they work together: `Attest` starts the dispatcher in a WaitGroup and runs the watcher.
The watcher subscribes to block headers over a websocket and starts a processor for the
subscription, in the same WaitGroup. For each header the processor sends the dispatcher at most
two events. The dispatcher answers an event with a run of calls over HTTP, during which the
chain moves on and the processor, whose next send blocks, falls behind. When the subscription
fails or the chain is reorganised the watcher closes the feed and starts over with a new
subscription and a new processor, without waiting for the old one. When the watcher returns,
PrepareAttest is closed, the dispatcher returns, and `Attest` waits for the WaitGroup.

What makes it hard:

* the dispatcher's view of a window (its status, hash, prepared transaction, counters) is kept
  over many events while the chain, the account's nonce and the mempool change between any two
  calls, and every call may fail or succeed with its answer lost;
* a window is closed by one event for one exact block;
* headers and epoch information come from two nodes (websocket, HTTP) that are not in step;
* retries, finite or infinite, at three levels;
* goroutines that outlive the subscription they were started for, unbuffered channels, and a
  WaitGroup that everybody waits for.

What makes each part correct:

* dispatcher: one transaction in flight, unless it gave the one before up; what is sent is signed
  as it is, with a nonce that was looked up for it, in the window it was built in; Successful and
  the confirmed counter only for attestations the chain has, but for a "done" about another epoch;
  a failed attempt is tried again; it returns when told to;
* processor: events in the order prepare, do, end of window, one window after the other; do
  events inside the contract's window; the hash of this epoch's target block; an epoch switch
  ends;
* schedule: the window lies within the epoch and windows do not overlap, in `uint64`;
* watcher and validator: nothing is sent on a closed channel, every goroutine ends, an error
  reaches `main`;
* the validator on a chain that is reorganised: the hash it works with is the chain's, and a window
  with enough attempts is attested;
* program: a provider that cannot be reached is tried again, an error of the watcher ends the
  process, a release is reported.

`PROJECT.json` lists every hazard at its line, with the properties that cover it, what they except,
or the reason why none does.

## Modules

```
Starknet     Sender                      Retries      EpochSchedule
     \       /    \                     /     \       /     |     \
     Dispatcher    (INSTANCE)          /    HeaderProcessor  |    Validator
      |     \         \_______________/_______/   |          |      |    \
      |   MCDispatcher               Watcher  MCHeaderProcessor     |  MCValidator
      |                             /   |   \                |      |
 Attestation (INSTANCE)     MCWatcher   |   Program -- MCProgram    |
                                        |      |             |      |
proofs: DispatcherProofs        WatcherProofs  |   EpochScheduleProofs
                                         \     |      |            \
                                       ProgramProofs  HeaderProcessorProofs  ValidatorProofs
                                                                                  |
                                                                             WindowProofs

BalanceCheck -- MCBalanceCheck, BalanceCheckProofs
```

* **Starknet** is external: epoch, epochs with a recorded attestation, nonce of the operational
  account and attest transactions in the mempool, and what the RPC calls may answer. The
  contract takes one attestation per epoch, for the hash of that epoch's target block; a
  transaction is executed when its nonce is the account's. Any call may answer with an error.
  A block hash is the number of the epoch whose target block it belongs to; 0 is Go's zero
  value. Reorganisations are in `Validator`.
* **Sender** is the order of the processor's events, `validator.go:234-261` without the blocks.
  It is the interface between the two larger modules: `HeaderProcessor` is shown to implement
  it with a `"complete"` feed (property `EventsInOrder`), and `Dispatcher` receives exactly these
  events. In a feed with `"gaps"` windows may be cut short or skipped, which is what a reconnection
  that misses headers does; in an `"overlapping"` one the events of two processors come in any
  order, which is what a processor left behind by a reconnection does.
* **Dispatcher** is `EventDispatcher.Dispatch`. `pc` is the call the goroutine waits for;
  `"select"` is the select statement. Every call is an action, because the chain moves while it
  is under way; the code between two calls belongs to the first of them.

  | code | action |
  |---|---|
  | `case PrepareAttest` 174-193 | `ReceivePrepare`, `PrepareBuild` |
  | `case DoAttest` 195-211 | `ReceiveDo`, `Track` |
  | Build / UpdateNonce 215-238 | `DoBuild`, `UpdateNonce` |
  | Invoke 240-264 (57-87) | `Estimate`, `Invoke` |
  | `case EndOfWindow` 266-288 | `ReceiveEndOfWindow`, `EndTrack`, `CloseWindow` |
  | channel closed 175-177 | `Close`, `ReceiveClosed` |

  A transaction is reduced to what its signature covers and what changes between building and
  sending: block hash, nonce, version, resource bounds. `AttestElsewhere` is another signer of the
  same account, a second instance or the operator by hand, which attests in whatever epoch the
  chain is in, perhaps one this instance's feed has not come to.

  `sent`, `nonceAtDo`, `misled` and the field `builtIn` are history: no action reads them. `misled`
  has the windows in which the contract said "done" of a later epoch. `sent[i]` has what became
  `txs[i]`, and its fate as the dispatcher sees it: `"open"` while it is followed;
  `"unacknowledged"` if the gateway's answer was lost; `"reverted"` if the node said so;
  `"unanswered"` if the call for its status failed; `"closed"` if its window ended. The properties
  compare this with the state of `txs[i]` on the chain.
* **Attestation** is the abstract promise: one attempt at a time, another one only after a
  failure, one entry in the counters per window. `Dispatcher` implements it (property
  `ImplementsAttestation`) under the mapping that a transaction is followed when its hash is
  known.
* **EpochSchedule** has the pure functions, in arithmetic modulo `Uint64Size`, with the Poseidon
  hash as an arbitrary number.
* **HeaderProcessor** is `ProcessBlockHeaders` for one subscription: `Fetch` and `Refetch*` are
  the calls of `FetchEpochAndAttestInfoWithRetry`, then `SetTargetBlockHashIfExists`,
  `ReceiveHeader`, `Handle` (the code between the header and its first event) and `OfferEvent`.
* **Retries** is the counter. `Sub` at zero, a panic in the code, leaves the type.
* **Watcher** is `Attest` and `RunBlockHeaderWatcher` with the goroutines they start. `pc` is
  where the goroutine of `Attest` is; `processor[i]` is what the processor of the `i`-th
  subscription waits for (a fetch, a header, the dispatcher, its stop channel). The processors
  and the dispatcher are those of the two modules above without their data: any event may be due
  for a header, any fetch may fail.

  | code | action |
  |---|---|
  | subscribe, or fail and retry 133-164 | `Subscribe`, `SubscribeFails` |
  | the four cases of the select 166-185 | `ContextDone`, `SubscriptionError`, `Reorg`, `StopProcessing` |
  | Attest's deferred calls 109-110 | `Close`, `Wait` |
  | the goroutine of a subscription 151-164 | `Processor(i)`: `Fetched`, `FetchFails`, `ReceiveHeader`, `FeedEnds`, `Send`, `SendOnClosed` |
  | the goroutine of the dispatcher 104-107 | `Dispatched`, `DispatchReturns` |

  `failures` and `err` are history. `Cancel` is the caller's: the program never cancels the
  context it passes; the run `program` allows it (`Cancellable`), the others do not.
* **Program** is `run` of `cmd/validator` around `Watcher`: the watcher's steps happen while
  `main` waits (`Watching`).

  | code | action |
  |---|---|
  | `tryNewValidator`, `New` | `NewSucceeds`, `NewFails` with the cause, provider or signer |
  | `run`'s select, `main.go:143-149` | `TakeSignal`, `TakeError`, then `Return` |
  | goroutine of `Attest`, `main.go:131-138` | `SendError` into the buffered `errCh`; `Crash` after a panic |
  | `trackLatestRelease` | `TimerFires`, `RequestSucceeds`, `RequestFails`, `TrackerReturns` |

  An error is the text `helper.go` looks for in it. `outcome`, `warned` and `requestFailed` are
  history.
* **Validator** puts the processors of successive subscriptions, the dispatcher and the watcher
  together on a chain of numbered blocks whose last `MaxDepth` blocks may be replaced. It is where
  a hash can be the right epoch's and still the wrong one. To stay within TLC's reach it is coarser
  than the modules it joins: an event is handled in one step and the account's nonce is right; the
  two nodes show the same chain and a fetch is repeated until it succeeds; reconnecting succeeds
  and no processor fails. What these leave out is in `Dispatcher`, `HeaderProcessor` and `Watcher`.

  | code | action |
  |---|---|
  | *external* | `NewBlock`, `NewBlockWithout`, `Reorg(to)` |
  | `RunBlockHeaderWatcher` 134-180 | `Subscribe`, `SubscriptionError`, `TakeReorg` |
  | `ProcessBlockHeaders` 190-265 | `Fetch`, `LookUp`, `ReceiveHeader`, `Switch`, `FeedEnds` |
  | `Dispatch` 167-291 | `TakePrepare`, `TakeDo`, `TakeEndOfWindow` |

  `faults` and `log` are history. `faults` bounds the calls that fail and the blocks that leave
  transactions out. `log` says what happened since the last clean slate: how many do events the
  contract would have taken (`tries`), what cost one of them (`troubles`), the windows of the
  events, and whether something happened that the code does not make good (`hopeless`): a build
  that failed (see `OngoingIsTracked`), a transaction the sequencer left out or dropped, a
  reorganisation while the status was `Successful`, which is never looked at again, and an answer
  "done" that is about another epoch than the event's (`OfAnother`). A trouble is, among others,
  a transaction prepared for a hash that is not, or not yet, the chain's. Several calls of one do
  event may fail, the status and then the build, the nonce, the estimate or the gateway (`Attempt`,
  after `missed` failures); `faults` counts each of them, and `troubles` the event at least once.
* **BalanceCheck** is `CheckBalance`, in as many goroutines as `Checks` has members, each used
  again when it is done: `Start`, the call (`FetchValidatorBalance`, `FetchFails`), and the two
  gauges (`UpdateSignerBalance`, `RecordThreshold`). `lowest` is history. The balance is in FRI,
  the gauge and the threshold in STRK, as `float64`s, of which only the order counts: `Strk` is an
  arbitrary function `Rounding` into the natural numbers, and `RoundingAssumption` says that it
  keeps the order, as `types/balance.go:30-40` does: the division is rounded to the nearest number
  of as many bits as the balance has (64 at least), then to the nearest `float64`. That keeps the
  order among balances of the same length; that it does between a power of two and the number below
  it was computed for every length. The early return of `UpdateSignerBalance` for infinity and NaN is
  left out: two field elements make a number below `2^381`, and neither can come of it.
* **MCDispatcher**, **MCHeaderProcessor**, **MCWatcher**, **MCProgram**, **MCValidator**,
  **MCBalanceCheck** are the modules TLC runs.
* Definitions marked "Mutant" in the modules are deliberately wrong variants of the definition
  after them, each a plausible bug. No specification uses them; they document that a property
  can fail.

## Runs

| run | bounds | shows |
|---|---|---|
| `dispatcher_orderly` | 2 epochs, nonces to 2, 2 transactions, complete feed | `TypeOK`, `BuiltInItsWindow`, `SuccessIsAttested`, `ConfirmedIsAttested`, `ClosedReturns` |
| `dispatcher_overlap` | 2 epochs, 2 transactions, overlapping feed, Braavos account, nonces moved by the validator only | `OneInFlight`, `SignedAsSent`, `NonceIsFresh`, `ImplementsAttestation` |
| `header_order` | 3 epochs of 6 blocks, window 3 (minimum 2), hashes 0 and 8, HTTP node up to 7 blocks ahead and 5 behind, 2 retries or infinitely many | `TypeOK`, `DoInsideWindow`, `HashIsOfTarget`, `EventsInOrder`, `FetchEnds` |
| `program` | 2 subscriptions, 2 failures in a row, 1 retry, context cancellable | `ProgramTypeOK`, `OneFeed`, `GivesUpInTime`, `AbandonedStops`, `FailureEndsFeed`, `ErrorEndsProgram`, `ReleaseReported`, `DrainingForEver` |
| `validator_survives` | 2 epochs of 5 blocks, window 3, 1 reorganisation of at most 2 blocks, 2 subscriptions, 2 transactions, 1 fault | `TypeOK`, `HashFollowsChain`, `WindowSurvives`, `FirstSubscriptionSurvives` |
| `balance_overlap` | 2 checks at a time, balances to 3 FRI, two of them to a `float64`, threshold 0 | `TypeOK`, `NoFalseAlarm`, `LowIsReported` |
| `dispatcher_stuck` | 1 epoch | violated: `OngoingIsTracked` |
| `header_nohash` | 1 epoch | violated: `HashIsKnown` |
| `watcher_hang` | 2 subscriptions, 2 failures, 1 retry | violated: `ErrorReachesMain` |
| `validator_missed` | 2 epochs, 2 subscriptions, nothing fails, no reorganisation | violated: `MakesSureItIsDone` |
| `startup` | 2 retries | violated: `UnreachableIsRetried` |
| `upgrade` | | violated: `CheckGoesOn` |

Two epochs are enough for the dispatcher: the tracker is cleared between windows, so what can go
wrong is that something of one window meets the next. Two transactions are enough to have one in
flight while another is sent, and nonces to 2 let the nonce move both before and after a
transaction is built. Three epochs let a processor switch twice, and an HTTP node that is 7
blocks ahead of a 6-block epoch can be past the epoch that must come next. The hash values 0
and 8 put the target (modulo 3) on the first and on the last block it can be. `Uint64Size` is 64
in the runs: no sum in these runs wraps around, and the theorems of `EpochScheduleProofs` state
for every size when none does.

Two subscriptions are enough to leave a processor behind; one failure more than there are retries
makes the watcher give up. One reorganisation of two blocks can replace the target block and the
block the attestation was recorded in (a depth of 3 was checked too, outside the listed runs), and
one fault is enough for every call to fail once in some behaviour; two, of one event or of two, were
checked outside the listed runs, since they take longer. Two checks are enough to overlap,
and of four balances two are rounded to the threshold and two are above it.

All bounds are named: `MaxEpoch`, `MaxNonce`, `MaxTxs`, `LastEpoch`, `HttpAhead`, `HttpBehind`,
`RetryOptions`, `MaxSubs`, `MaxFailures`, `MaxReorgs`, `MaxDepth`, `MaxFaults`, `Checks`,
`MaxBalance`. `MaxNonce` limits transactions of others, and `MaxTxs` what the mempool takes; at that
bound the gateway of `Dispatcher` refuses, which it may do anyway, and that of `Validator` does not
answer: such a behaviour goes no further. The
runs of the dispatcher, the processor, the watcher, the program and the validator switch deadlock
checking off because the system stops at its bounds and after a shutdown.

### What the violated properties show

* `OngoingIsTracked`: `Dispatch` sets `Ongoing` before it builds (line 211). One failed build,
  or one failed nonce lookup, leaves `Ongoing` with transaction hash zero; each later DoAttest of
  the window asks for the status of that hash, is told it was not found, and waits.
* `HashIsKnown`: the target block is looked up once. If that call fails after the target block,
  the whole window is spent on the block hash zero.
* `ErrorReachesMain`: a processor left behind by a reconnection that fails afterwards sends its
  error on an unbuffered channel nobody receives from any more. `Attest` waits for it in its
  deferred `wg.Wait`, so that the watcher's own error never reaches `main`, and the program stays
  up without a subscription. (A left-behind processor may also send on the closed
  `PrepareAttest`, which panics, or wait for the dispatcher that has returned.)
  `ErrorEndsProgram` is what remains: with no such processor the error does end the program.
* `MakesSureItIsDone`: a subscription lost over the block `WindowEnd` leaves the tracker with the
  status of its window. `Successful` or `Ongoing` is carried into the next window, whose DoAttest
  events then send nothing; it is not attested, and may be counted as confirmed. A second
  subscription is needed for this: `FirstSubscriptionSurvives` says that the first one, while it
  lasts, leaves nothing over for the next window.
* `UnreachableIsRetried`: `tryNewValidator` looks for an error text that no error of the program has,
  so an unreachable provider ends the program at the first attempt.
* `CheckGoesOn`: the timer of the release check is set again after a success only.

Not among the runs: overlapping balance checks can leave the balance of one beside the flag of the
other, since `BalanceCheck` sets the two gauges one after the other. `LowIsReported` holds all the
same, because windows go on ending. And a gateway that takes a transaction and whose answer is lost
leaves a window that is attested and counted as failed; `WindowSurvives` asks for the counter only
when there was no trouble.

Two more are the exceptions three properties of the dispatcher name. An RPC error on the status of a
transaction counts as its failure (`dispatcher.go:307`), so that the next one competes with it while
it is still in the mempool: `OneInFlight` says that this, or the end of the window, is the only way
to have two. And "Attestation is done for this epoch" (`dispatcher.go:243`) is said of the epoch the
chain is in. When another signer has attested in that epoch and this instance is still working on an
event of an earlier one, the status becomes `Successful` and the window is counted as confirmed
although it was never attested, whereas `docs/docs/metrics.md:38` speaks of "attestations that have
been confirmed on the network". `SuccessIsAttested` and `ConfirmedIsAttested` say that these windows
(`misled`) are the only ones, and that the window of a `Successful` one is over on the chain, so that
nothing was left to try.

## Fairness

* Dispatcher: `WF(Dispatch)`, because the Go scheduler runs a runnable goroutine and every RPC
  call returns (with an error at the latest); `SF(ReceiveClosed)`, because `select` chooses among
  ready cases at random and so takes each in the end. Nothing is assumed of the chain or of the
  senders.
* Header processor: `WF(Goroutine)` likewise, and because the dispatcher takes each event in the
  end; `WF(NewHttpBlock)`, since the HTTP node follows the chain; `SF(RefetchRight)`, since a call
  repeated for ever does not fail for ever. `FetchEnds` excepts a processor that has been
  `Overtaken`: once the HTTP node is two epochs on, the epoch looked for is over before it was seen,
  and with infinite retries the loop at `validator.go:300` never ends, since `CorrectEpochSwitch`
  takes the immediate successor only.
* Watcher: `WF(Attest)`, `WF(Dispatched)` and `WF` of each processor: every goroutine is
  scheduled, every call returns, and failed subscriptions are retried; `SF(Send(i))` and
  `SF(DispatchReturns)`: `select` serves every sender that waits, and notices the closed channel.
  Subscriptions need not fail, and a header may always be followed by another one.
* Program: the watcher's while the process runs; `WF(Main)` and `WF(Tracker)`, since `main` and the
  tracker's goroutine are scheduled and a request for the latest release is answered, if only with
  an error. No signal need come and no release need be made.
* Validator: `WF(ProcessBlockHeaders(i))`, by which every goroutine is scheduled and served. Its
  properties are safety properties and do not use it.
* Balance check: `WF(CheckBalance)`, `WF(Start)`, since windows go on ending, and
  `SF(FetchValidatorBalance)`, since the call does not fail for ever.

`http.Post` to the remote signer has no timeout of its own (`validator/signer/external.go:214`): a
signer that never answers is outside what the first of these assumes.

## Theorems

Every theorem holds for all values of the constants, under the named assumptions of the modules.

`DispatcherProofs` proves

* `TypeCorrect`, `OneInFlightAlways`, `SignedAlways`, `NonceFreshAlways`, for every feed and for both
  kinds of account;
* `BuiltInItsWindowAlways`, `SuccessIsAttestedAlways`, `ConfirmedIsAttestedAlways`, under
  `Feed = "complete"`; the run `validator_missed` shows why that assumption is needed.

Nothing is assumed of other signers of the account. What the code does not exclude is part of the
statements: `OneInFlightAlways` excepts transactions the dispatcher gave up, because the call for
their status failed or their window ended, and `SuccessIsAttestedAlways` and
`ConfirmedIsAttestedAlways` except windows in which the contract said "done" of a later epoch.

None of these invariants is inductive. The strengthening is a conjunction of named parts, each
kept by every step once the ones before it are known:

| part | says | needed for |
|---|---|---|
| `TypeOK` | types; `sent` and `txs` have the same length | everything |
| `Control` | between `setStatus(Ongoing)` and the gateway there is no hash; `Iddle` and `Failed` mean no hash | a new transaction is only sent when none is followed |
| `Followed` | the only open transaction is the one whose hash the tracker has, the last that was acknowledged; one that was reverted stays so on the chain | `OneInFlight` |
| `Signing` | at the gateway's door the signature covers the contents | `SignedAsSent` |
| `Nonces` | from the estimate on the nonce is not older than the Do event | `NonceIsFresh` |
| `Windowed` | what the tracker holds belongs to the window of the last event; nothing is left once it is closed | `BuiltInItsWindow`, and the next two |
| `Attested` | an attestation for each accepted transaction; a misled window is behind the chain's epoch | `SuccessIsAttested` |
| `Counted` | a window is counted when it is closed and not before | `ConfirmedIsAttested` |

The assumptions are the bounds' types, `Windows = Epochs`, and what `Starknet` says of the chain;
the proofs depend in particular on its acceptance rule (one attestation per epoch, for that
epoch's target block) and on the absence of reorganisations.

It also proves `ImplementsAttestationAlways`: the initial states of `Dispatcher` are
abstract initial states, and each action, in `StepImplements`, is an abstract action or a stutter.
It adds one part to the invariant, `ClosedOnce`: a window that is counted is over, so that closing
it counts it once (unless processors overlap, when it may be counted more than once, in the abstract
specification too).

`EpochScheduleProofs` proves that the target block (`TargetInEpoch`) and its window
(`WindowInEpoch`) lie within the epoch, which event each block is given (`Schedule`), and that
the windows of successive epochs do not overlap (`WindowsAreApart`), provided that the
attestation window is at least the minimum and shorter than the epoch and that the epoch ends
below `2^64`. The contract is trusted with that precondition: the code does not check it.

`HeaderProcessorProofs` proves `TypeCorrect`, `DoInsideWindowAlways`, `EventsInOrderAlways` (the
refinement of `Sender`) and, with `NearAssumption`, `HashIsOfTargetAlways`.

| part | says | needed for |
|---|---|---|
| `Infos` | epoch info and attest info are those of one epoch, from the first fetch on | every step that looks at the schedule |
| `Budget` | a fetch that is repeated has a retry left | `TypeOK`: `Sub` is never called at zero |
| `Offering` | a processor that offers has an event to offer | `TypeOK` |
| `Ordered` | the last event offered is the one due at the place the feed has come to: nothing of a window is missed once it has begun (`InStep`, `Halfway`, `Due`) | `DoInsideWindow`, by `Schedule`; `EventsInOrder` |
| `Position` | which epochs the next header, the HTTP node and the epoch info may be in | `HashIsOfTarget` |
| `Known` | from the target block on the hash is known, and it is this epoch's or none | `HashIsOfTarget` |

`NearAssumption` says that the websocket node is at most an epoch ahead of the HTTP node. It is
needed: TLC finds `HashIsOfTarget` violated when the first header may be further ahead, since a
processor that works with an earlier epoch then lets the target block pass while it waits for the
switch. Nodes that are a whole epoch apart are not what the code is written for, so this is an
assumption of the theorem and not a finding.

`WatcherProofs` proves `TypeCorrect`, `OneFeedAlways`, `GivesUpInTimeAlways` and
`DrainingForEverAlways` for any number of subscriptions and failures, finite or infinite retries,
and a context that may be cancelled. The
strengthening has two parts. `LoopState`: while the watcher runs it has no result and PrepareAttest
is open, so that Dispatch has not returned. `Budget`: while it may still subscribe, failures and
retries left add up to `--max-retries`. `OneFeed` needs the first, because a watcher that returned
after `ctx.Done()` would leave its feed open; lemma `DrainingNeverEnds` says that it never gets
there: it waits for the dispatcher, which waits for it. `DrainingForEverAlways` states this deadlock
as a property of the behaviour: a watcher whose context is done is never anywhere else again.

`ProgramProofs` carries these over to the process (`ProgramTypeCorrect`, `OneFeedInProgram`,
`GivesUpInTimeInProgram`, `DrainingForEverInProgram`): by `StepsOfWatcher` a step of the program is
one of the watcher or leaves its state alone. `NothingIsRetriable` is the reason why the retries of the startup stay within their
type, and also what `UnreachableIsRetried` complains of.

`ValidatorProofs` proves `TypeCorrect` and `HashFollowsChainAlways` for any number of
reorganisations, of any depth, and of subscriptions, transactions and faults. The invariant `VInv`
says in addition that each processor has the epoch and the events it needs for where it is (`Fine`),
that the target hash of an epoch is zero as long as the target block does not exist, and that the
current processor follows the chain unless the watcher has been told that it does not (`Follows`).

`WindowProofs` adds `WindowSurvivesAlways` and `FirstSubscriptionSurvivesAlways`, in the same
generality: any schedule, any number of reorganisations of any depth, subscriptions, transactions
and faults, of which several may strike one event. The first says that a window whose do events in
the contract's window outnumber its troubles is attested by the time its end is handled, and counted
as confirmed if there was no trouble and the last question about the status was answered; provided
that all events since the clean slate were of this window, and that nothing hopeless happened since
(the list under `Validator` above). The invariant has to say why an attempt
that came to nothing has been paid for.
`WInv` adds to `VInv`, for every epoch `w` such that all events since the last clean slate were of
`w` and nothing hopeless has happened (`Alone(w)`):

| part | says | needed for |
|---|---|---|
| `HashesOwn` | the hash of a processor, and the chain's, is one of its epoch's target blocks or none | `Prepared`; an answer is about the right epoch |
| `TxsOwn` | an accepted transaction is recorded by the contract in the block the node names | `Succeeded` |
| `Sole` | without troubles the only transaction in the mempool is the followed one | `Delivered` |
| `Prepared` | what is prepared is for `w` | `Accounts` |
| `Accounts` | the window is attested or will be by the next block (`Coming`), or attempts do not outnumber troubles, the attempt a prepared hash is going to cost included (`Misled`) | attested at the end |
| `FollowedOwn` | `Ongoing` follows a transaction of `w`; one with a hash that is gone is executed before the window begins | `Accounts`: an attempt spent on a transaction that cannot succeed any more is paid for |
| `Succeeded` | `Successful` means `Coming(w)` | `Accounts` |
| `Delivered` | without troubles the first attempt succeeded or is executed in the next block | confirmed at the end |

`FirstSubscriptionSurvives` drops the proviso on the events, and only that one: what is hopeless is
excepted there too. Its invariant `FirstInStep` says that the
first subscription's processor, which a reorganisation may send back, has the end of its window ahead
of it or in its outbox as long as the dispatcher remembers an event (`EndAhead`), so that all the
events it remembers are of one window.

The proof found two places where `WindowSurvives` claimed too much, in schedules no run has; each is
now part of what it excepts or counts as a trouble. An event that waits until the chain is in the
next epoch may be answered "done" although its own window is not attested (`OfAnother`). And a
transaction prepared while the target block is still missing carries the hash zero, and costs an
attempt just as one prepared for a hash that is gone.

`BalanceCheckProofs` proves `TypeCorrect` and `NoFalseAlarmAlways`, for every `Rounding` that keeps
the order: what a check has read is never
below the lowest balance so far (`ReadIsReal`), so the flag it sets has a cause.

Model-checked only: liveness (`ClosedReturns`, `FetchEnds`, `AbandonedStops`,
`FailureEndsFeed`, `ErrorEndsProgram`, `ReleaseReported`, `LowIsReported`), which the provers do not
reach. No proof uses induction over data, and no module has a recursive operator.

## Not modelled

* Configuration and flags: a merge of four sources before there is any state, with nothing
  concurrent in it and no failure to recover from.
* The remote signer: a stateless handler whose result is `Sign`, and whose failure is a failed
  `Estimate` or `Invoke`. A call that never returns (no timeout on the request to it, or on the
  websocket connection) is no state of the models.
* The metrics server, but for its shutdown; the gauges that are only written.
* The Poseidon hash, fee and tip arithmetic, calldata and JSON, logging, the documentation site.

`PROJECT.json` has a note for each hazard that no property covers.

## Plan

Done: the dispatcher and its refinement, the header processor and its refinement, the schedule, the
watcher, the program around it, the validator on a chain with reorganisations, the balance check, and
the proofs of every safety property the passing runs check. Next, in this order:

1. **Signing**: the internal and the external signer, with the failures of the HTTP exchange, as an
   implementation of `Sign`.
2. A `Validator` in which reconnecting may fail, to join `Watcher`'s shutdown with a chain that goes
   on.
