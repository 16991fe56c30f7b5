---------------------------- MODULE MCBalanceCheck ----------------------------
(* The instance of BalanceCheck that TLC checks: two balances make one float64. *)
EXTENDS BalanceCheck

MCRounding == [b \in 0..3 |-> b \div 2]
=============================================================================
