---------------------------- MODULE WatcherProofs ----------------------------
(***************************************************************************)
(* Theorems about Watcher for every number of subscriptions and failures,  *)
(* finite and infinite retries, and a context that may be cancelled.       *)
(***************************************************************************)
EXTENDS Watcher, TLAPS

InLoop == {"subscribe", "select", "draining"}

\* While the watcher runs it has no result, and PrepareAttest is open, so that
\* Dispatch does not return.
LoopState == /\ pc \in InLoop => err = "none"
             /\ closed => pc \in {"wait", "returned", "panicked"}
             /\ dispatcher = "returned" => closed

\* The retries left and the failures since the last subscription make up what the
\* watcher was given.
Budget == pc \in {"subscribe", "select"} =>
            /\ retries.infinite = MaxRetries.infinite
            /\ ~MaxRetries.infinite => failures + retries.value = MaxRetries.value

IInv == TypeOK /\ LoopState /\ Budget /\ OneFeed /\ GivesUpInTime

LEMMA ConstantTypes == /\ MaxSubs \in Nat /\ MaxFailures \in Nat
                       /\ MaxRetries \in Retries
                       /\ MaxRetries.value \in Nat /\ MaxRetries.infinite \in BOOLEAN
BY SubsAssumption, MaxRetriesAssumption DEF Retries

LEMMA SubType == ASSUME NEW r \in Retries, ~IsZero(r)
                 PROVE  /\ Sub(r) \in Retries
                        /\ Sub(r).infinite = r.infinite
                        /\ ~r.infinite => Sub(r).value = r.value - 1
BY DEF Retries, Sub, IsZero

LEMMA Initially == Init => IInv
<1> SUFFICES ASSUME Init PROVE IInv
  OBVIOUS
<1> USE DEF Init
<1>1. TypeOK
  <2>1. feedClosed \in [Subs -> BOOLEAN]
    OBVIOUS
  <2>2. processor \in [Subs -> ProcessorStates]
    BY DEF ProcessorStates
  <2>3. failures \in 0..MaxFailures /\ subs \in 0..MaxSubs /\ retries \in Retries
    BY ConstantTypes
  <2>4. closed \in BOOLEAN /\ cancelled \in BOOLEAN
    OBVIOUS
  <2> QED
    BY <2>1, <2>2, <2>3, <2>4 DEF TypeOK
<1>2. LoopState
  BY DEF LoopState
<1>3. Budget
  BY ConstantTypes DEF Budget
<1>4. OneFeed
  BY DEF OneFeed, Started
<1>5. GivesUpInTime
  BY DEF GivesUpInTime
<1> QED
  BY <1>1, <1>2, <1>3, <1>4, <1>5 DEF IInv
-----------------------------------------------------------------------------
(***************************************************************************)
(* The steps of the goroutine that runs Attest.                            *)
(***************************************************************************)
LEMMA SubscribeStep == IInv /\ Subscribe => IInv'
<1> SUFFICES ASSUME IInv, Subscribe PROVE IInv'
  OBVIOUS
<1> USE DEF IInv, Subscribe
<1>1. TypeOK'
  BY ConstantTypes DEF TypeOK, ProcessorStates, Subs
<1>2. LoopState'
  BY DEF LoopState, InLoop
<1>3. Budget'
  BY ConstantTypes DEF Budget
<1>4. OneFeed'
  <2> SUFFICES ASSUME NEW i \in Started', ~feedClosed[i] PROVE i = subs'
    BY DEF OneFeed
  <2>1. i \in Started \/ i = subs + 1
    BY DEF TypeOK, Started
  <2>2. i \notin Started
    BY DEF OneFeed
  <2> QED
    BY <2>1, <2>2
<1>5. GivesUpInTime'
  BY DEF GivesUpInTime, LoopState, InLoop
<1> QED
  BY <1>1, <1>2, <1>3, <1>4, <1>5

LEMMA SubscribeFailsStep == IInv /\ SubscribeFails => IInv'
<1> SUFFICES ASSUME IInv, SubscribeFails PROVE IInv'
  OBVIOUS
<1> USE DEF IInv, SubscribeFails
<1>0. retries \in Retries /\ retries.value \in Nat /\ failures \in Nat
      /\ retries.infinite \in BOOLEAN
  BY ConstantTypes DEF TypeOK, Retries
<1>1. TypeOK'
  BY <1>0, ConstantTypes, SubType DEF TypeOK
<1>2. LoopState'
  BY DEF LoopState, InLoop
<1>3. Budget'
  <2>1. CASE IsZero(retries)
    BY <2>1 DEF Budget
  <2>2. CASE ~IsZero(retries)
    BY <2>2, <1>0, ConstantTypes, SubType DEF Budget
  <2> QED
    BY <2>1, <2>2
<1>4. OneFeed'
  BY DEF OneFeed, Started
<1>5. GivesUpInTime'
  BY <1>0, ConstantTypes DEF GivesUpInTime, LoopState, InLoop, Budget, IsZero
<1> QED
  BY <1>1, <1>2, <1>3, <1>4, <1>5

\* Cleaning up closes the only feed that is open.
LEMMA CleanUpCloses == ASSUME IInv, CleanUp, pc = "select", subs' = subs
                       PROVE  feedClosed' \in [Subs -> BOOLEAN] /\ OneFeed'
<1>1. feedClosed' \in [Subs -> BOOLEAN]
  BY DEF IInv, TypeOK, CleanUp
<1>2. Started \subseteq Subs
  BY ConstantTypes DEF IInv, TypeOK, Started, Subs
<1>3. ASSUME NEW i \in Started' PROVE feedClosed'[i]
  <2>1. i \in Started
    BY <1>3 DEF Started
  <2>2. i \in Subs
    BY <2>1, <1>2
  <2>3. CASE i = subs
    BY <2>2, <2>3 DEF IInv, TypeOK, CleanUp
  <2>4. CASE i # subs
    <3>1. feedClosed[i]
      BY <2>1, <2>4 DEF IInv, OneFeed
    <3> QED
      BY <2>2, <2>4, <3>1 DEF IInv, TypeOK, CleanUp
  <2> QED
    BY <2>3, <2>4
<1> QED
  BY <1>1, <1>3 DEF OneFeed

LEMMA GivenUpStep == IInv /\ Subscription => IInv'
<1> SUFFICES ASSUME IInv, Subscription PROVE IInv'
  OBVIOUS
<1>0. /\ pc = "select" /\ CleanUp /\ pc' = "subscribe"
      /\ UNCHANGED <<retries, failures, err, subs, closed, processor, dispatcher, cancelled>>
  BY DEF Subscription, SubscriptionError, Reorg
<1>1. feedClosed' \in [Subs -> BOOLEAN] /\ OneFeed'
  BY <1>0, CleanUpCloses
<1> QED
  BY <1>0, <1>1 DEF IInv, TypeOK, LoopState, InLoop, Budget, GivesUpInTime

LEMMA StopProcessingStep == IInv /\ StopProcessing => IInv'
<1> SUFFICES ASSUME IInv, StopProcessing PROVE IInv'
  OBVIOUS
<1>1. feedClosed' \in [Subs -> BOOLEAN] /\ OneFeed'
  BY CleanUpCloses DEF StopProcessing
<1>2. processor' \in [Subs -> ProcessorStates]
  BY DEF StopProcessing, IInv, TypeOK, ProcessorStates, Over
<1> QED
  BY <1>1, <1>2 DEF StopProcessing, IInv, TypeOK, LoopState, InLoop, Budget, GivesUpInTime

\* The wait for the WaitGroup in the watcher itself never ends: Dispatch is in it.
LEMMA DrainingNeverEnds == IInv /\ pc = "draining" => ~AllDone
BY DEF IInv, LoopState, AllDone

LEMMA EndStep == IInv /\ (ContextDone \/ Close \/ Wait) => IInv'
<1> SUFFICES ASSUME IInv, ContextDone \/ Close \/ Wait PROVE IInv'
  OBVIOUS
<1> USE DEF IInv, TypeOK, LoopState, InLoop, Budget, OneFeed, GivesUpInTime, Started
<1>1. CASE ContextDone
  BY <1>1 DEF ContextDone
<1>2. CASE Close
  BY <1>2 DEF Close
<1>3. CASE Wait
  <2>1. pc = "wait"
    BY <1>3, DrainingNeverEnds DEF Wait
  <2>2. pc' \in {"panicked", "returned"} /\ err' = err
    BY <1>3, <2>1 DEF Wait
  <2> QED
    BY <1>3, <2>1, <2>2 DEF Wait
<1> QED
  BY <1>1, <1>2, <1>3
-----------------------------------------------------------------------------
(***************************************************************************)
(* The steps of the other goroutines.                                      *)
(***************************************************************************)
LEMMA ProcessorStep == ASSUME IInv, NEW i \in Started, Processor(i) PROVE IInv'
<1>1. i \in Subs
  BY ConstantTypes DEF IInv, TypeOK, Started, Subs
<1>2. processor' \in [Subs -> ProcessorStates]
  BY <1>1 DEF IInv, TypeOK, Processor, Fetched, FetchFails, ReceiveHeader, FeedEnds, Send,
              SendOnClosed, Goes, ProcessorStates, Sending, Preparing, Over
<1>3. /\ UNCHANGED <<pc, retries, failures, err, subs, closed, feedClosed, cancelled>>
      /\ \/ UNCHANGED dispatcher
         \/ dispatcher' = "busy"
  BY DEF Processor, Fetched, FetchFails, ReceiveHeader, FeedEnds, Send, SendOnClosed,
         attestVars
<1> QED
  BY <1>2, <1>3 DEF IInv, TypeOK, LoopState, InLoop, Budget, OneFeed, GivesUpInTime, Started

LEMMA OtherStep == IInv /\ (Dispatched \/ DispatchReturns \/ Cancel) => IInv'
<1> SUFFICES ASSUME IInv, Dispatched \/ DispatchReturns \/ Cancel PROVE IInv'
  OBVIOUS
<1> USE DEF IInv, TypeOK, LoopState, InLoop, Budget, OneFeed, GivesUpInTime, Started,
            attestVars
<1>1. CASE Dispatched
  BY <1>1 DEF Dispatched
<1>2. CASE DispatchReturns
  BY <1>2 DEF DispatchReturns
<1>3. CASE Cancel
  BY <1>3 DEF Cancel
<1> QED
  BY <1>1, <1>2, <1>3

LEMMA StutterStep == IInv /\ UNCHANGED vars => IInv'
BY DEF IInv, TypeOK, LoopState, InLoop, Budget, OneFeed, GivesUpInTime, Started, vars,
       attestVars

LEMMA NextStep == IInv /\ [Next]_vars => IInv'
<1> SUFFICES ASSUME IInv, [Next]_vars PROVE IInv'
  OBVIOUS
<1>1. CASE Attest
  BY <1>1, SubscribeStep, SubscribeFailsStep, StopProcessingStep, EndStep DEF Attest
<1>2. CASE Subscription
  BY <1>2, GivenUpStep
<1>3. CASE \E i \in Started : Processor(i)
  BY <1>3, ProcessorStep
<1>4. CASE Dispatched \/ DispatchReturns \/ Cancel
  BY <1>4, OtherStep
<1>5. CASE UNCHANGED vars
  BY <1>5, StutterStep
<1> QED
  BY <1>1, <1>2, <1>3, <1>4, <1>5 DEF Next

LEMMA DrainingStays == IInv /\ [Next]_vars /\ pc = "draining" => pc' = "draining"
<1> SUFFICES ASSUME IInv, [Next]_vars, pc = "draining" PROVE pc' = "draining"
  OBVIOUS
<1>1. ~Wait
  BY DrainingNeverEnds DEF Wait
<1>2. CASE Attest
  BY <1>1, <1>2 DEF Attest, Subscribe, SubscribeFails, StopProcessing, ContextDone, Close
<1>3. CASE Subscription
  BY <1>3 DEF Subscription, SubscriptionError, Reorg
<1>4. CASE \E i \in Started : Processor(i)
  BY <1>4 DEF Processor, Fetched, FetchFails, ReceiveHeader, FeedEnds, Send, SendOnClosed,
              attestVars
<1>5. CASE Dispatched \/ DispatchReturns \/ Cancel \/ UNCHANGED vars
  BY <1>5 DEF Dispatched, DispatchReturns, Cancel, vars, attestVars
<1> QED
  BY <1>2, <1>3, <1>4, <1>5 DEF Next

LEMMA Invariant == Spec => []IInv
BY Initially, NextStep, PTL DEF Spec
-----------------------------------------------------------------------------
\* The types hold in every reachable state: in particular Sub is never called for
\* retries that are used up, where it panics.
THEOREM TypeCorrect == Spec => []TypeOK
<1>1. IInv => TypeOK
  BY DEF IInv
<1> QED
  BY <1>1, Invariant, PTL

\* Whatever fails and however often, one feed at most is open, that of the last
\* subscription, and none once the watcher is on its way out.
THEOREM OneFeedAlways == Spec => []OneFeed
<1>1. IInv => OneFeed
  BY DEF IInv
<1> QED
  BY <1>1, Invariant, PTL

\* RunBlockHeaderWatcher returns a subscription error after exactly one failure more
\* than --max-retries, all since the last success; with infinite retries never.
THEOREM GivesUpInTimeAlways == Spec => []GivesUpInTime
<1>1. IInv => GivesUpInTime
  BY DEF IInv
<1> QED
  BY <1>1, Invariant, PTL

\* A watcher whose context is done waits for ever (validator.go:168), whatever its
\* goroutines do: Attest does not return.
THEOREM DrainingForEverAlways == Spec => DrainingForEver
<1>1. IInv /\ [Next]_vars => [pc = "draining" => pc' = "draining"]_vars
  BY DrainingStays
<1> QED
  BY <1>1, Invariant, PTL DEF Spec, DrainingForEver
=============================================================================
