-------------------------- MODULE BalanceCheckProofs --------------------------
(***************************************************************************)
(* Theorems about BalanceCheck for any number of checks at a time, any     *)
(* balances, any threshold and any rounding that keeps the order.          *)
(***************************************************************************)
EXTENDS BalanceCheck, TLAPS

\* What a check has read the account had since the start, as the account was never
\* lower than the lowest.
ReadIsReal == /\ lowest <= balance
              /\ \A c \in Checks : pc[c] \in {"update", "record"} => lowest <= read[c]

IInv == TypeOK /\ ReadIsReal /\ NoFalseAlarm

LEMMA BalancesAreNumbers == Balances \subseteq Nat /\ Threshold \in Nat
BY BalanceAssumption DEF Balances

LEMMA StrkKeepsOrder ==
  ASSUME NEW a \in Balances, NEW b \in Balances, a <= b
  PROVE  Strk(a) \in Nat /\ Strk(b) \in Nat /\ Strk(a) <= Strk(b)
BY RoundingAssumption DEF Strk

LEMMA Initially == Init => IInv
<1> SUFFICES ASSUME Init PROVE IInv
  OBVIOUS
<1> USE DEF Init
<1>1. 0 \in Balances /\ lowest <= balance
  BY BalanceAssumption, BalancesAreNumbers DEF Balances
<1>2. TypeOK
  BY <1>1 DEF TypeOK
<1>3. ReadIsReal
  BY <1>1 DEF ReadIsReal
<1>4. NoFalseAlarm
  BY DEF NoFalseAlarm, Unset
<1> QED
  BY <1>2, <1>3, <1>4 DEF IInv

LEMMA ChangeStep == IInv /\ BalanceChanges => IInv'
<1> SUFFICES ASSUME IInv, NEW b \in Balances, balance' = b,
                    lowest' = IF b < lowest THEN b ELSE lowest,
                    UNCHANGED <<pc, read, gauges>>
             PROVE  IInv'
  BY DEF BalanceChanges
<1>1. lowest' \in Balances /\ lowest' <= lowest /\ lowest' <= balance'
  BY BalancesAreNumbers DEF IInv, TypeOK
<1>2. TypeOK'
  BY <1>1 DEF IInv, TypeOK, gauges
<1>3. ReadIsReal'
  <2>1. ASSUME NEW c \in Checks, pc[c] \in {"update", "record"} PROVE lowest' <= read[c]
    <3>1. lowest \in Nat /\ lowest' \in Nat /\ read[c] \in Nat
      BY <1>1, BalancesAreNumbers DEF IInv, TypeOK
    <3>2. lowest <= read[c]
      BY <2>1 DEF IInv, ReadIsReal
    <3> QED
      BY <1>1, <3>1, <3>2
  <2> QED
    BY <1>1, <2>1 DEF ReadIsReal
<1>4. NoFalseAlarm'
  <2>1. /\ Strk(lowest) \in Nat /\ Strk(lowest') \in Nat /\ Threshold \in Nat
        /\ Strk(lowest') <= Strk(lowest)
    BY <1>1, BalancesAreNumbers, StrkKeepsOrder DEF IInv, TypeOK
  <2>2. signerBalanceBelowThreshold' = signerBalanceBelowThreshold
    BY DEF gauges
  <2> QED
    BY <1>1, <2>1, <2>2 DEF IInv, NoFalseAlarm
<1> QED
  BY <1>2, <1>3, <1>4 DEF IInv

LEMMA CheckStep == ASSUME IInv, NEW c \in Checks, Start(c) \/ CheckBalance(c)
                   PROVE  IInv'
<1> USE DEF IInv, TypeOK, ReadIsReal, NoFalseAlarm, Goes, gauges
<1>1. CASE Start(c)
  BY <1>1 DEF Start
<1>2. CASE FetchValidatorBalance(c)
  BY <1>2, BalancesAreNumbers DEF FetchValidatorBalance
<1>3. CASE FetchFails(c)
  BY <1>3 DEF FetchFails
<1>4. CASE UpdateSignerBalance(c)
  BY <1>4, RoundingAssumption DEF UpdateSignerBalance, Strk
<1>5. CASE RecordThreshold(c)
  <2>1. Flag(read[c]) = 1 => Strk(lowest) <= Threshold
    <3>1. lowest <= read[c] /\ lowest \in Balances /\ read[c] \in Balances
      BY <1>5 DEF RecordThreshold
    <3>2. Strk(lowest) \in Nat /\ Strk(read[c]) \in Nat /\ Strk(lowest) <= Strk(read[c])
      BY <3>1, StrkKeepsOrder
    <3> QED
      BY <3>2, BalancesAreNumbers DEF Flag, IsLow
  <2> QED
    BY <1>5, <2>1 DEF RecordThreshold, Flag
<1> QED
  BY <1>1, <1>2, <1>3, <1>4, <1>5 DEF CheckBalance

LEMMA NextStep == IInv /\ [Next]_vars => IInv'
<1> SUFFICES ASSUME IInv, [Next]_vars PROVE IInv'
  OBVIOUS
<1>1. CASE Next
  BY <1>1, ChangeStep, CheckStep DEF Next
<1>2. CASE UNCHANGED vars
  BY <1>2 DEF vars, gauges, IInv, TypeOK, ReadIsReal, NoFalseAlarm
<1> QED
  BY <1>1, <1>2

\* The types of the account, the checks and the gauges.
THEOREM TypeCorrect == Spec => []TypeOK
<1>1. IInv => TypeOK
  BY DEF IInv
<1> QED
  BY <1>1, Initially, NextStep, PTL DEF Spec

\* Nobody is told that the balance is low if it never was, in STRK, however many checks
\* run at a time and whichever of their calls fail.
THEOREM NoFalseAlarmAlways == Spec => []NoFalseAlarm
<1>1. IInv => NoFalseAlarm
  BY DEF IInv
<1> QED
  BY <1>1, Initially, NextStep, PTL DEF Spec
=============================================================================
