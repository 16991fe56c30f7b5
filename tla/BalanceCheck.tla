----------------------------- MODULE BalanceCheck -----------------------------
(***************************************************************************)
(* CheckBalance (validator/balance.go): a goroutine that Attest starts     *)
(* once and Dispatch after each window, and nobody waits for.  It reads    *)
(* the balance of the operational account over HTTP and sets two gauges,   *)
(* one after the other.  As the call may take any time, checks may run at  *)
(* the same time: each one is a member of Checks, used again when done.    *)
(*                                                                         *)
(* The chain counts in FRI, the gauges and the threshold in STRK, as       *)
(* float64s: several balances become one.  Of float64s only the order      *)
(* counts; they are natural numbers here.  No balance becomes infinite or  *)
(* NaN, as two field elements make less than 2^381, so that CheckBalance   *)
(* never returns for that reason.                                          *)
(***************************************************************************)
EXTENDS Integers

CONSTANTS Checks,       \* bound: the checks that may run at a time
          MaxBalance,   \* bound: the largest balance, in FRI
          Rounding,     \* the float64 a balance becomes
          Threshold     \* --balance-threshold

ASSUME BalanceAssumption == MaxBalance \in Nat /\ Threshold \in Nat

Balances == 0..MaxBalance

\* Rounding keeps the order.
ASSUME RoundingAssumption == /\ Rounding \in [Balances -> Nat]
                             /\ \A a, b \in Balances : a <= b => Rounding[a] <= Rounding[b]

\* Balance.Strk
Strk(b) == Rounding[b]

Unset == -1   \* a gauge that was never set

VARIABLES balance,   \* of the account, on the chain
          lowest,    \* history: the least it has been
          pc,        \* of each check
          read,      \* the balance each check has read
          signerBalance,                \* gauge
          signerBalanceBelowThreshold   \* gauge

gauges == <<signerBalance, signerBalanceBelowThreshold>>
vars == <<balance, lowest, pc, read, gauges>>

TypeOK == /\ balance \in Balances
          /\ lowest \in Balances
          /\ pc \in [Checks -> {"done", "fetch", "update", "record"}]
          /\ read \in [Checks -> Balances]
          /\ signerBalance \in Nat \cup {Unset}
          /\ signerBalanceBelowThreshold \in {0, 1, Unset}

Init == /\ balance \in Balances
        /\ lowest = balance
        /\ pc = [c \in Checks |-> "done"]
        /\ read = [c \in Checks |-> 0]
        /\ signerBalance = Unset
        /\ signerBalanceBelowThreshold = Unset

\* Fees and transfers.
BalanceChanges == \E b \in Balances \ {balance} :
                    /\ balance' = b
                    /\ lowest' = IF b < lowest THEN b ELSE lowest
                    /\ UNCHANGED <<pc, read, gauges>>

Goes(c, next) == pc' = [pc EXCEPT ![c] = next]

\* go CheckBalance
Start(c) == /\ pc[c] = "done"
            /\ Goes(c, "fetch")
            /\ UNCHANGED <<balance, lowest, read, gauges>>

FetchValidatorBalance(c) == /\ pc[c] = "fetch"
                            /\ read' = [read EXCEPT ![c] = balance]
                            /\ Goes(c, "update")
                            /\ UNCHANGED <<balance, lowest, gauges>>

\* Mutant: the error is logged and the zero value used.
FetchFailsUnnoticed(c) == /\ pc[c] = "fetch"
                          /\ read' = [read EXCEPT ![c] = 0]
                          /\ Goes(c, "update")
                          /\ UNCHANGED <<balance, lowest, gauges>>

FetchFails(c) == /\ pc[c] = "fetch"
                 /\ Goes(c, "done")
                 /\ UNCHANGED <<balance, lowest, read, gauges>>

UpdateSignerBalance(c) == /\ pc[c] = "update"
                          /\ signerBalance' = Strk(read[c])
                          /\ Goes(c, "record")
                          /\ UNCHANGED <<balance, lowest, read, signerBalanceBelowThreshold>>

\* Mutant: the balance must be below the threshold.
IsLowStrictly(b) == Strk(b) < Threshold

IsLow(b) == Strk(b) <= Threshold

\* Mutant: the gauge is counted up.
FlagCounted(b) == IF IsLow(b) THEN signerBalanceBelowThreshold + 1 ELSE 0

Flag(b) == IF IsLow(b) THEN 1 ELSE 0

\* RecordSignerBalanceBelowThreshold or RecordSignerBalanceAboveThreshold.
RecordThreshold(c) == /\ pc[c] = "record"
                      /\ signerBalanceBelowThreshold' = Flag(read[c])
                      /\ Goes(c, "done")
                      /\ UNCHANGED <<balance, lowest, read, signerBalance>>

CheckBalance(c) == \/ FetchValidatorBalance(c) \/ FetchFails(c)
                   \/ UpdateSignerBalance(c) \/ RecordThreshold(c)

Next == BalanceChanges \/ \E c \in Checks : Start(c) \/ CheckBalance(c)

\* Every check gets on, windows go on ending, and a call that is repeated for ever
\* does not fail for ever.
Fairness == \A c \in Checks : /\ WF_vars(Start(c)) /\ WF_vars(CheckBalance(c))
                              /\ SF_vars(FetchValidatorBalance(c))

Spec == Init /\ [][Next]_vars /\ Fairness
-----------------------------------------------------------------------------
\* Nobody is told that the balance is low if it never was, in STRK: not by checks that
\* overlap, and not by calls that fail.
NoFalseAlarm == signerBalanceBelowThreshold = 1 => Strk(lowest) <= Threshold

\* A balance that is low for good is reported, and the report stays, although checks
\* that began before may report later.
LowIsReported == <>[](Strk(balance) <= Threshold) => <>[](signerBalanceBelowThreshold = 1)
=============================================================================
