------------------------------- MODULE Retries -------------------------------
(***************************************************************************)
(* types.Retries (validator/types/retries.go): how often a call may still  *)
(* be repeated, a number or "infinite".                                    *)
(***************************************************************************)
EXTENDS Integers

Retries == [infinite : BOOLEAN, value : Nat]

\* NewRetries and Set.
Infinite == [infinite |-> TRUE, value |-> 0]
Finite(n) == [infinite |-> FALSE, value |-> n]

IsZero(r) == ~r.infinite /\ r.value = 0

\* Sub panics at zero: the result is then no member of Retries.
Sub(r) == IF r.infinite THEN r ELSE [r EXCEPT !.value = @ - 1]
=============================================================================
