----------------------------- MODULE Attestation -----------------------------
(***************************************************************************)
(* What the dispatcher promises about the attestation of a window, without *)
(* the calls it makes: one attempt at a time, another one only after a     *)
(* failure, Successful as a verdict that lasts until the window is closed, *)
(* and one entry in the counters for each window closed, unless it is      *)
(* closed again.  Dispatcher implements it under the mapping given there.  *)
(***************************************************************************)
EXTENDS Integers

CONSTANTS Windows,  \* the epochs whose attestation windows are closed
          Repeats   \* TRUE: a window may be closed again

VARIABLES status,     \* Iddle, Ongoing, Successful or Failed
          followed,   \* there is a transaction to ask the node about
          submitted,  \* number of transactions acknowledged so far
          confirmed,  \* windows closed as attested
          failed      \* windows closed as missed

vars == <<status, followed, submitted, confirmed, failed>>

Init == /\ status = "Iddle"
        /\ followed = FALSE
        /\ submitted = 0
        /\ confirmed = {}
        /\ failed = {}

\* An attempt starts when there is none, or when the one before has failed.
Begin == /\ status \in {"Iddle", "Failed"}
         /\ status' = "Ongoing"
         /\ UNCHANGED <<followed, submitted, confirmed, failed>>

\* The attempt gets as far as the mempool, at most once.
Submit == /\ status = "Ongoing" /\ ~followed
          /\ followed' = TRUE
          /\ submitted' = submitted + 1
          /\ UNCHANGED <<status, confirmed, failed>>

\* An attempt that never got to the mempool fails.
Fail == /\ status = "Ongoing" /\ ~followed
        /\ status' = "Failed"
        /\ UNCHANGED <<followed, submitted, confirmed, failed>>

\* The node reports the transaction as failed, and a new attempt starts.
Retry == /\ status = "Ongoing" /\ followed
         /\ followed' = FALSE
         /\ UNCHANGED <<status, submitted, confirmed, failed>>

\* The transaction succeeded, or the epoch turns out to be attested already.
Succeed == /\ status = "Ongoing"
           /\ status' = "Successful"
           /\ UNCHANGED <<followed, submitted, confirmed, failed>>

\* The window ends: attested only if that was known, or the transaction that is
\* followed just turned out to have succeeded.
Close(w) == /\ Repeats \/ w \notin confirmed \cup failed
            /\ status' = "Iddle"
            /\ followed' = FALSE
            /\ \/ /\ status = "Successful" \/ (status = "Ongoing" /\ followed)
                  /\ confirmed' = confirmed \cup {w}
                  /\ UNCHANGED failed
               \/ /\ status # "Successful"
                  /\ failed' = failed \cup {w}
                  /\ UNCHANGED confirmed
            /\ UNCHANGED submitted

Next == Begin \/ Submit \/ Fail \/ Retry \/ Succeed \/ \E w \in Windows : Close(w)

Spec == Init /\ [][Next]_vars
=============================================================================
