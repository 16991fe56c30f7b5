---------------------------- MODULE ProgramProofs ----------------------------
(***************************************************************************)
(* The watcher inside the program: what WatcherProofs proves of Attest     *)
(* holds of it as main runs it, for every value of the constants.          *)
(***************************************************************************)
EXTENDS Program, WatcherProofs

\* Every step of the program is one of the watcher's or leaves the watcher alone.
LEMMA StepsOfWatcher == [ProgramNext]_programVars => [Next]_vars
<1> SUFFICES ASSUME [ProgramNext]_programVars PROVE [Next]_vars
  OBVIOUS
<1>1. CASE Main
  <2>1. ASSUME NEW cause \in Causes, NewFails(cause) PROVE UNCHANGED vars
    BY <2>1 DEF NewFails
  <2> QED
    BY <1>1, <2>1 DEF Main, TakeSignal, TakeError, Stop, Return, SendError, Crash,
                      NewSucceeds
<1>2. CASE Signal \/ Tracker \/ Release
  BY <1>2 DEF Signal, Tracker, TimerFires, RequestSucceeds, RequestFails, TrackerReturns,
              Release
<1>3. CASE Watching(Next)
  BY <1>3 DEF Watching
<1>4. CASE UNCHANGED programVars
  BY <1>4 DEF programVars
<1> QED
  BY <1>1, <1>2, <1>3, <1>4 DEF ProgramNext

\* No error of New has the text that is retried.
LEMMA NothingIsRetriable == \A cause \in Causes : ~Retriable(cause)
BY DEF Causes, Retriable, ErrorText

LEMMA WatcherInvariant == ProgramSpec => []IInv
<1>1. ProgramInit => IInv
  BY Initially DEF ProgramInit
<1>2. IInv /\ [ProgramNext]_programVars => IInv'
  BY NextStep, StepsOfWatcher
<1> QED
  BY <1>1, <1>2, PTL DEF ProgramSpec
-----------------------------------------------------------------------------
(***************************************************************************)
(* The program's types.                                                    *)
(***************************************************************************)
LEMMA TypesInitially == ProgramInit => ProgramTypeOK
<1> SUFFICES ASSUME ProgramInit PROVE ProgramTypeOK
  OBVIOUS
<1>1. TypeOK
  BY Initially DEF ProgramInit, IInv
<1>2. startRetries \in Retries
  BY ConstantTypes DEF ProgramInit
<1> QED
  BY <1>1, <1>2 DEF ProgramInit, ProgramTypeOK

LEMMA MainTypes ==
  ASSUME ProgramTypeOK, TypeOK', Main
  PROVE  ProgramTypeOK'
<1> USE DEF ProgramTypeOK
<1>1. CASE NewSucceeds
  BY <1>1 DEF NewSucceeds
<1>2. ASSUME NEW cause \in Causes, NewFails(cause) PROVE ProgramTypeOK'
  <2>1. main' = "exited" /\ outcome' = cause /\ UNCHANGED startRetries
    BY <1>2, NothingIsRetriable DEF NewFails
  <2>2. UNCHANGED <<errCh, signalCh, tracker, released, warned, requestFailed>>
    BY <1>2 DEF NewFails, trackerVars
  <2> QED
    BY <2>1, <2>2
<1>3. CASE TakeSignal \/ TakeError
  BY <1>3 DEF TakeSignal, TakeError, Stop, trackerVars
<1>4. CASE Return \/ Crash
  BY <1>4 DEF Return, Crash, trackerVars
<1>5. CASE SendError
  BY <1>5 DEF SendError, mainVars, trackerVars
<1> QED
  BY <1>1, <1>2, <1>3, <1>4, <1>5 DEF Main

LEMMA OtherTypes ==
  ASSUME ProgramTypeOK, TypeOK',
         Signal \/ Tracker \/ Release \/ Watching(Next) \/ UNCHANGED programVars
  PROVE  ProgramTypeOK'
<1> USE DEF ProgramTypeOK, mainVars, trackerVars
<1>1. CASE Signal
  BY <1>1 DEF Signal
<1>2. CASE Tracker
  BY <1>2 DEF Tracker, TimerFires, RequestSucceeds, RequestFails, TrackerReturns
<1>3. CASE Release
  BY <1>3 DEF Release
<1>4. CASE Watching(Next)
  BY <1>4 DEF Watching
<1>5. CASE UNCHANGED programVars
  BY <1>5 DEF programVars
<1> QED
  BY <1>1, <1>2, <1>3, <1>4, <1>5

\* The types of the whole program hold in every reachable state: neither the retries of
\* the startup nor those of the watcher are ever decremented below zero, where Sub panics
\* (retries.go:53).
THEOREM ProgramTypeCorrect == ProgramSpec => []ProgramTypeOK
<1>1. IInv /\ ProgramTypeOK /\ [ProgramNext]_programVars => ProgramTypeOK'
  <2> SUFFICES ASSUME IInv, ProgramTypeOK, [ProgramNext]_programVars
               PROVE  ProgramTypeOK'
    OBVIOUS
  <2>1. TypeOK'
    BY NextStep, StepsOfWatcher DEF IInv
  <2> QED
    BY <2>1, MainTypes, OtherTypes DEF ProgramNext
<1> QED
  BY <1>1, TypesInitially, WatcherInvariant, PTL DEF ProgramSpec

\* The process has one open feed at most, whatever ends a subscription and whatever main
\* does meanwhile.
THEOREM OneFeedInProgram == ProgramSpec => []OneFeed
<1>1. IInv => OneFeed
  BY DEF IInv
<1> QED
  BY <1>1, WatcherInvariant, PTL

\* The watcher main started gives up after exactly one failure more than --max-retries.
THEOREM GivesUpInTimeInProgram == ProgramSpec => []GivesUpInTime
<1>1. IInv => GivesUpInTime
  BY DEF IInv
<1> QED
  BY <1>1, WatcherInvariant, PTL

\* The process does not end by a context that is done, as far as Attest is concerned: its
\* watcher waits for ever (validator.go:168).
THEOREM DrainingForEverInProgram == ProgramSpec => DrainingForEver
<1>1. IInv /\ [ProgramNext]_programVars => [pc = "draining" => pc' = "draining"]_vars
  BY DrainingStays, StepsOfWatcher
<1> QED
  BY <1>1, WatcherInvariant, PTL DEF ProgramSpec, DrainingForEver
=============================================================================
