------------------------------- MODULE Program -------------------------------
(***************************************************************************)
(* The validator's process (cmd/validator): main connects to the provider, *)
(* starts the goroutine that runs Attest, which is module Watcher, and the *)
(* one that looks for a new release, and waits for a signal or an error.   *)
(* When main returns the process ends, and every goroutine with it.        *)
(*                                                                         *)
(* An error is reduced to the text helper.go looks for in it.  The metrics *)
(* server is left out but for its graceful shutdown, the state "stopping". *)
(***************************************************************************)
EXTENDS Watcher

VARIABLES main,          \* where the command's run function is
          startRetries,  \* tryNewValidator's retries
          outcome,       \* history: why main gave up or stopped waiting
          errCh,         \* the buffer of errCh
          signalCh,      \* the buffer of signalCh
          tracker,       \* the goroutine that runs trackLatestRelease
          released,      \* a newer release is out
          warned,        \* history: the user has been told of it
          requestFailed  \* history: a request for the latest release has failed

mainVars == <<main, startRetries, outcome>>
trackerVars == <<tracker, released, warned, requestFailed>>
programVars == <<vars, mainVars, errCh, signalCh, trackerVars>>

\* What keeps New from succeeding: the provider, or the signer.
Causes == {"provider", "signer"}

\* Both goroutines run.
Running == main \in {"waiting", "stopping"}

ProgramTypeOK ==
  /\ TypeOK
  /\ main \in {"connecting", "waiting", "stopping", "exited", "crashed"}
  /\ startRetries \in Retries
  /\ outcome \in {"none", "unreachable", "signal", "error"} \cup Causes
  /\ errCh \in {"empty", "subscribing", "processing"}
  /\ signalCh \in BOOLEAN
  /\ tracker \in {"none", "timer", "requesting", "idle", "returned"}
  /\ released \in BOOLEAN /\ warned \in BOOLEAN /\ requestFailed \in BOOLEAN

ProgramInit == /\ Init
               /\ main = "connecting"
               /\ startRetries = MaxRetries
               /\ outcome = "none"
               /\ errCh = "empty"
               /\ signalCh = FALSE
               /\ tracker = "none"
               /\ released = FALSE /\ warned = FALSE /\ requestFailed = FALSE
-----------------------------------------------------------------------------
(***************************************************************************)
(* tryNewValidator and New.                                                *)
(***************************************************************************)

ErrorText(cause) ==
  IF cause = "provider" THEN "cannot create RPC provider" ELSE "failed to initialise signer"
Retriable(cause) == ErrorText(cause) = "cannot connect to RPC provider"

NewSucceeds == /\ main = "connecting"
               /\ main' = "waiting"
               /\ tracker' = "timer"
               /\ UNCHANGED <<vars, startRetries, outcome, errCh, signalCh, released,
                              warned, requestFailed>>

\* main logs the error and returns.
NewFails(cause) ==
  /\ main = "connecting"
  /\ IF ~Retriable(cause)
     THEN main' = "exited" /\ outcome' = cause /\ UNCHANGED startRetries
     ELSE /\ startRetries' = Sub(startRetries)
          /\ IF IsZero(Sub(startRetries)) THEN main' = "exited" /\ outcome' = "unreachable"
                                          ELSE UNCHANGED <<main, outcome>>
  /\ UNCHANGED <<vars, errCh, signalCh, trackerVars>>
-----------------------------------------------------------------------------
(***************************************************************************)
(* main, once it has started the goroutines.                               *)
(***************************************************************************)

\* The operating system delivers SIGINT or SIGTERM.
Signal == /\ main = "waiting" /\ ~signalCh
          /\ signalCh' = TRUE
          /\ UNCHANGED <<vars, mainVars, errCh, trackerVars>>

Stop(why) == /\ main = "waiting"
             /\ main' = "stopping"
             /\ outcome' = why
             /\ UNCHANGED <<vars, startRetries, errCh, signalCh, trackerVars>>

TakeSignal == signalCh /\ Stop("signal")
TakeError == errCh # "empty" /\ Stop("error")

\* The deferred shutdown of the metrics server, which takes 5 seconds at most.
Return == /\ main = "stopping"
          /\ main' = "exited"
          /\ UNCHANGED <<vars, startRetries, outcome, errCh, signalCh, trackerVars>>

\* The goroutine of Attest: its error goes into the buffer and it is done.
SendError == /\ Running /\ pc = "returned" /\ err \in {"subscribing", "processing"}
             /\ errCh = "empty"
             /\ errCh' = err
             /\ UNCHANGED <<vars, mainVars, signalCh, trackerVars>>

\* A panic nobody recovers ends the process.
Crash == /\ Running /\ pc = "panicked"
         /\ main' = "crashed"
         /\ UNCHANGED <<vars, startRetries, outcome, errCh, signalCh, trackerVars>>
-----------------------------------------------------------------------------
(***************************************************************************)
(* trackLatestRelease.                                                     *)
(***************************************************************************)
Release == /\ ~released
           /\ released' = TRUE
           /\ UNCHANGED <<vars, mainVars, errCh, signalCh, tracker, warned, requestFailed>>

TimerFires == /\ Running /\ tracker = "timer"
              /\ tracker' = "requesting"
              /\ UNCHANGED <<vars, mainVars, errCh, signalCh, released, warned,
                             requestFailed>>

\* Mutant: the timer is only set again after a warning.
RequestSucceedsOnce == /\ Running /\ tracker = "requesting"
                       /\ warned' = (warned \/ released)
                       /\ tracker' = IF released THEN "timer" ELSE "idle"
                       /\ UNCHANGED <<vars, mainVars, errCh, signalCh, released,
                                      requestFailed>>

\* getLatestRelease and needsUpdate; the timer is set again.
RequestSucceeds == /\ Running /\ tracker = "requesting"
                   /\ warned' = (warned \/ released)
                   /\ tracker' = "timer"
                   /\ UNCHANGED <<vars, mainVars, errCh, signalCh, released, requestFailed>>

\* Either of them fails: "continue", and the timer is not set again.
RequestFails == /\ Running /\ tracker = "requesting"
                /\ tracker' = "idle"
                /\ requestFailed' = TRUE
                /\ UNCHANGED <<vars, mainVars, errCh, signalCh, released, warned>>

\* case <-ctx.Done()
TrackerReturns == /\ Running /\ tracker \in {"timer", "idle"} /\ cancelled
                  /\ tracker' = "returned"
                  /\ UNCHANGED <<vars, mainVars, errCh, signalCh, released, warned,
                                 requestFailed>>
-----------------------------------------------------------------------------
Main == \/ TakeSignal \/ TakeError \/ Return \/ SendError \/ Crash
        \/ NewSucceeds \/ \E cause \in Causes : NewFails(cause)

Tracker == TimerFires \/ RequestSucceeds \/ RequestFails \/ TrackerReturns

Watching(A) == Running /\ A /\ UNCHANGED <<mainVars, errCh, signalCh, trackerVars>>

ProgramNext == Main \/ Signal \/ Tracker \/ Release \/ Watching(Next)

\* Watcher's fairness while the process runs; main and the tracker are scheduled, and a
\* request for the latest release is answered.
ProgramFairness ==
  /\ WF_programVars(Watching(Attest)) /\ WF_programVars(Watching(Dispatched))
  /\ SF_programVars(Watching(DispatchReturns))
  /\ \A i \in Subs : /\ WF_programVars(Watching(i \in Started /\ Processor(i)))
                     /\ SF_programVars(Watching(i \in Started /\ Send(i)))
  /\ WF_programVars(Main) /\ WF_programVars(Tracker)

ProgramSpec == ProgramInit /\ [][ProgramNext]_programVars /\ ProgramFairness
-----------------------------------------------------------------------------
\* A processor whose subscription was given up soon sends no more events, as long as
\* the dispatcher is there to take the ones it is blocked in (validator.go:151).
AbandonedStops == \A i \in Subs :
  (i \in Started /\ feedClosed[i])
     ~> (closed \/ ~Running \/ processor[i] \in Over \cup {"failing"})

\* A processor that fails ends its subscription (validator.go:181): its error is
\* taken, unless the subscription is given up at the same time or the watcher waits
\* for the goroutines of a cancelled context.
FailureEndsFeed == \A i \in Subs :
  (i = subs /\ processor[i] = "failing") ~> (feedClosed[i] \/ pc = "draining" \/ ~Running)

\* When the watcher returns an error and no processor is left that is fetching, sending
\* or failing, the deferred calls of Attest (validator.go:109) end every goroutine and
\* main exits with that error: closing PrepareAttest must come before the wait.
ErrorEndsProgram ==
  (pc = "close" /\ err # "nil" /\ \A i \in Started : processor[i] \in {"receiving", "returned"})
     ~> main \in {"exited", "crashed"}

\* As long as no request fails a release that comes out is reported in the end
\* (upgrade.go:71-104): the timer is set again and again.
ReleaseReported == released ~> warned \/ requestFailed \/ ~Running \/ tracker = "returned"

\* "Retrying in 3s..." (helper.go:32): main gives up an unreachable provider only when
\* the retries are used up.
UnreachableIsRetried == outcome \in {"provider", "unreachable"} => IsZero(startRetries)

\* The release check goes on after the first time (upgrade.go:72), whatever a single
\* request came to.
CheckGoesOn == tracker = "idle" ~> tracker # "idle" \/ ~Running
=============================================================================
