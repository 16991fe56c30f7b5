------------------------------- MODULE Watcher -------------------------------
(***************************************************************************)
(* Validator.Attest and RunBlockHeaderWatcher (validator/validator.go) with *)
(* the goroutines they start: one dispatcher, and a header processor for   *)
(* each subscription.  A subscription that fails, or that reports a        *)
(* reorganisation, is replaced by a new one with a processor of its own;   *)
(* nobody waits for the processor of the old one, or stops it: it finds    *)
(* its feed closed when it comes back for the next header.                 *)
(*                                                                         *)
(* The processors are those of HeaderProcessor without the blocks: any     *)
(* event may be due for a header, any fetch may fail.  The dispatcher is   *)
(* that of Dispatcher, taking events or busy with one.  All channels are   *)
(* unbuffered.  The context is the program's, which is never cancelled     *)
(* unless Cancellable.                                                     *)
(***************************************************************************)
EXTENDS Retries

CONSTANTS MaxSubs,       \* bound: subscriptions that succeed
          MaxFailures,   \* bound: subscriptions that fail in a row
          MaxRetries,    \* --max-retries
          Cancellable    \* TRUE: the context may be cancelled

ASSUME SubsAssumption == MaxSubs \in Nat /\ MaxFailures \in Nat
ASSUME MaxRetriesAssumption == MaxRetries \in Retries /\ ~IsZero(MaxRetries)
ASSUME CancellableAssumption == Cancellable \in BOOLEAN

VARIABLES pc,          \* of the goroutine that runs Attest
          retries,     \* RunBlockHeaderWatcher's retries
          failures,    \* history: failed subscriptions in a row
          err,         \* history: what RunBlockHeaderWatcher returns
          subs,        \* number of subscriptions; the last one is current
          feedClosed,  \* close(headersFeed), for each subscription
          processor,   \* what the processor of each subscription waits for
          dispatcher,  \* the goroutine that runs Dispatch
          closed,      \* close(dispatcher.PrepareAttest)
          cancelled    \* the context is done

attestVars == <<pc, retries, failures, err, subs, closed>>
vars == <<attestVars, feedClosed, processor, dispatcher, cancelled>>

Subs == 1..MaxSubs

\* The sends a processor may be blocked in.  "announce" is the PrepareAttest of the
\* target block, which a second one follows.
Preparing == {"announce", "prepare"}
Sending == Preparing \cup {"do", "over"}
Over == {"returned", "panicked"}
ProcessorStates == {"none", "starting", "receiving", "switching", "failing"}
                   \cup Sending \cup Over

TypeOK == /\ pc \in {"subscribe", "select", "draining", "close", "wait", "returned",
                     "panicked"}
          /\ retries \in Retries
          /\ failures \in 0..MaxFailures
          /\ err \in {"none", "nil", "subscribing", "processing"}
          /\ subs \in 0..MaxSubs
          /\ feedClosed \in [Subs -> BOOLEAN]
          /\ processor \in [Subs -> ProcessorStates]
          /\ dispatcher \in {"select", "busy", "returned"}
          /\ closed \in BOOLEAN
          /\ cancelled \in BOOLEAN

Init == /\ pc = "subscribe"
        /\ retries = MaxRetries
        /\ failures = 0
        /\ err = "none"
        /\ subs = 0
        /\ feedClosed = [i \in Subs |-> FALSE]
        /\ processor = [i \in Subs |-> "none"]
        /\ dispatcher = "select"
        /\ closed = FALSE
        /\ cancelled = FALSE
-----------------------------------------------------------------------------
(***************************************************************************)
(* RunBlockHeaderWatcher.                                                  *)
(***************************************************************************)

\* Mutant: the retries spent are not given back by a success.
SubscribeKeepsRetries ==
  /\ pc = "subscribe" /\ subs < MaxSubs
  /\ failures' = 0
  /\ subs' = subs + 1
  /\ processor' = [processor EXCEPT ![subs + 1] = "starting"]
  /\ pc' = "select"
  /\ UNCHANGED <<retries, err, closed, feedClosed, dispatcher, cancelled>>

Subscribe == /\ pc = "subscribe" /\ subs < MaxSubs
             /\ retries' = MaxRetries
             /\ failures' = 0
             /\ subs' = subs + 1
             /\ processor' = [processor EXCEPT ![subs + 1] = "starting"]
             /\ pc' = "select"
             /\ UNCHANGED <<err, closed, feedClosed, dispatcher, cancelled>>

\* Mutant: one more attempt when there is none left.
SubscribeFailsUnchecked ==
  /\ pc = "subscribe" /\ failures < MaxFailures
  /\ failures' = failures + 1
  /\ retries' = Sub(retries)
  /\ UNCHANGED <<pc, err, subs, closed, feedClosed, processor, dispatcher, cancelled>>

SubscribeFails ==
  /\ pc = "subscribe" /\ failures < MaxFailures
  /\ failures' = failures + 1
  /\ IF IsZero(retries)
     THEN pc' = "close" /\ err' = "subscribing" /\ UNCHANGED retries
     ELSE retries' = Sub(retries) /\ UNCHANGED <<pc, err>>
  /\ UNCHANGED <<subs, closed, feedClosed, processor, dispatcher, cancelled>>

\* cleanUp: the provider, then the feed.
CleanUp == feedClosed' = [feedClosed EXCEPT ![subs] = TRUE]

\* case err := <-clientSubscription.Err()
SubscriptionError == /\ pc = "select"
                     /\ CleanUp
                     /\ pc' = "subscribe"
                     /\ UNCHANGED <<retries, failures, err, subs, closed, processor,
                                    dispatcher, cancelled>>

\* Mutant: the old subscription is kept.
ReorgKeepsFeed == /\ pc = "select"
                  /\ pc' = "subscribe"
                  /\ UNCHANGED <<retries, failures, err, subs, closed, feedClosed,
                                 processor, dispatcher, cancelled>>

\* case reorgEvent := <-clientSubscription.Reorg()
Reorg == /\ pc = "select"
         /\ CleanUp
         /\ pc' = "subscribe"
         /\ UNCHANGED <<retries, failures, err, subs, closed, processor, dispatcher,
                        cancelled>>

\* Mutant: logged like an error of the subscription, and waited on.
StopProcessingGoesOn == /\ pc = "select"
                        /\ processor[subs] = "failing"
                        /\ processor' = [processor EXCEPT ![subs] = "returned"]
                        /\ UNCHANGED <<attestVars, feedClosed, dispatcher, cancelled>>

\* case err := <-stopProcessingHeaders: the channel of the current processor only.
StopProcessing == /\ pc = "select"
                  /\ processor[subs] = "failing"
                  /\ processor' = [processor EXCEPT ![subs] = "returned"]
                  /\ CleanUp
                  /\ pc' = "close"
                  /\ err' = "processing"
                  /\ UNCHANGED <<retries, failures, subs, closed, dispatcher, cancelled>>

\* case <-ctx.Done()
ContextDone == /\ pc = "select" /\ cancelled
               /\ pc' = "draining"
               /\ UNCHANGED <<retries, failures, err, subs, closed, feedClosed, processor,
                              dispatcher, cancelled>>
-----------------------------------------------------------------------------
(***************************************************************************)
(* Attest: its deferred calls, in order.  The WaitGroup recovers a panic   *)
(* of a goroutine and raises it again in the one that waits.               *)
(***************************************************************************)
Started == 1..subs
\* Mutant: the goroutines are started with go, not with wg.Go.
AllDonePlain == TRUE
AllDone == dispatcher = "returned" /\ \A i \in Started : processor[i] \in Over
Panicked == \E i \in Started : processor[i] = "panicked"

\* Mutant: the deferred calls are run in the order they are written.
CloseAfterWait == /\ pc = "close" /\ AllDone
                  /\ closed' = TRUE
                  /\ pc' = "wait"
                  /\ UNCHANGED <<retries, failures, err, subs, feedClosed, processor,
                                 dispatcher, cancelled>>

Close == /\ pc = "close"
         /\ closed' = TRUE
         /\ pc' = "wait"
         /\ UNCHANGED <<retries, failures, err, subs, feedClosed, processor, dispatcher,
                        cancelled>>

\* wg.Wait of the watcher when the context is done, and of Attest at its end.
Wait == /\ pc \in {"draining", "wait"}
        /\ AllDone
        /\ pc' = CASE Panicked -> "panicked"
                  [] ~Panicked /\ pc = "draining" -> "close"
                  [] ~Panicked /\ pc = "wait" -> "returned"
        /\ err' = IF ~Panicked /\ pc = "draining" THEN "nil" ELSE err
        /\ UNCHANGED <<retries, failures, subs, closed, feedClosed, processor, dispatcher,
                       cancelled>>
-----------------------------------------------------------------------------
(***************************************************************************)
(* ProcessBlockHeaders, for subscription i.                                *)
(***************************************************************************)
Goes(i, state) == processor' = [processor EXCEPT ![i] = state]

\* FetchEpochAndAttestInfoWithRetry, at startup or after a header of a new epoch.
FetchFails(i) == /\ processor[i] \in {"starting", "switching"}
                 /\ ~MaxRetries.infinite
                 /\ Goes(i, "failing")
                 /\ UNCHANGED <<attestVars, feedClosed, dispatcher, cancelled>>

\* What a header of the epoch leads to: nothing, or an event.
Fetched(i) == /\ \/ processor[i] = "starting" /\ Goes(i, "receiving")
                 \/ /\ processor[i] = "switching"
                    /\ \E s \in Sending \cup {"receiving"} : Goes(i, s)
              /\ UNCHANGED <<attestVars, feedClosed, dispatcher, cancelled>>

\* Mutant: the feed is read without noticing that it is closed.
ReceiveHeaderUnnoticed(i) ==
  /\ processor[i] = "receiving"
  /\ \E s \in Sending \cup {"receiving", "switching"} : Goes(i, s)
  /\ UNCHANGED <<attestVars, feedClosed, dispatcher, cancelled>>

ReceiveHeader(i) ==
  /\ processor[i] = "receiving" /\ ~feedClosed[i]
  /\ \E s \in Sending \cup {"receiving", "switching"} : Goes(i, s)
  /\ UNCHANGED <<attestVars, feedClosed, dispatcher, cancelled>>

FeedEnds(i) == /\ processor[i] = "receiving" /\ feedClosed[i]
               /\ Goes(i, "returned")
               /\ UNCHANGED <<attestVars, feedClosed, dispatcher, cancelled>>

\* A send on one of the dispatcher's channels, and its select.
Send(i) == /\ processor[i] \in Sending
           /\ dispatcher = "select"
           /\ ~(closed /\ processor[i] \in Preparing)
           /\ dispatcher' = "busy"
           /\ Goes(i, IF processor[i] = "announce" THEN "prepare" ELSE "receiving")
           /\ UNCHANGED <<attestVars, feedClosed, cancelled>>

\* A send on a closed channel panics, and so does one that waits when it is closed.
SendOnClosed(i) == /\ processor[i] \in Preparing /\ closed
                   /\ Goes(i, "panicked")
                   /\ UNCHANGED <<attestVars, feedClosed, dispatcher, cancelled>>
-----------------------------------------------------------------------------
\* Dispatch: the event is dealt with.
Dispatched == /\ dispatcher = "busy"
              /\ dispatcher' = "select"
              /\ UNCHANGED <<attestVars, feedClosed, processor, cancelled>>

\* Dispatch: PrepareAttest is closed.
DispatchReturns == /\ dispatcher = "select" /\ closed
                   /\ dispatcher' = "returned"
                   /\ UNCHANGED <<attestVars, feedClosed, processor, cancelled>>

Cancel == /\ Cancellable /\ ~cancelled
          /\ cancelled' = TRUE
          /\ UNCHANGED <<attestVars, feedClosed, processor, dispatcher>>

Attest == \/ Subscribe \/ SubscribeFails \/ StopProcessing \/ ContextDone
          \/ Close \/ Wait

Subscription == SubscriptionError \/ Reorg

Processor(i) == \/ Fetched(i) \/ FetchFails(i) \/ ReceiveHeader(i)
                \/ FeedEnds(i) \/ Send(i) \/ SendOnClosed(i)

Next == \/ Attest \/ Subscription \/ \E i \in Started : Processor(i)
        \/ Dispatched \/ DispatchReturns \/ Cancel

\* Every goroutine is scheduled and every call returns.  A select takes each of its
\* ready cases at some time, so every sender is served while Dispatch runs, and a
\* closed channel is noticed.  Subscriptions need not fail.
Fairness == /\ WF_vars(Attest) /\ WF_vars(Dispatched) /\ SF_vars(DispatchReturns)
            /\ \A i \in Subs : /\ WF_vars(i \in Started /\ Processor(i))
                               /\ SF_vars(i \in Started /\ Send(i))

Spec == Init /\ [][Next]_vars /\ Fairness
-----------------------------------------------------------------------------
\* No two subscriptions feed the validator at a time, and none is left when the
\* watcher returns with an error.
OneFeed == \A i \in Started :
             ~feedClosed[i] => i = subs /\ pc \in {"select", "draining"}

\* The watcher gives up subscribing only after one failure more than it has retries,
\* all in a row, however often it has reconnected before; and never, if they are
\* infinite.
GivesUpInTime == err = "subscribing" =>
                   ~MaxRetries.infinite /\ failures = MaxRetries.value + 1

\* "case <-ctx.Done(): wg.Wait()" (validator.go:168) is the end of it: the watcher waits
\* for Dispatch, Dispatch for the channel that is closed when the watcher has returned, and
\* the last processor for a header or the end of its feed.
DrainingForEver == [][pc = "draining" => pc' = "draining"]_vars

\* An error that ends the watcher reaches main, which waits "for signal or error":
\* Attest returns it.
ErrorReachesMain == err \in {"subscribing", "processing"} ~> pc = "returned"
=============================================================================
