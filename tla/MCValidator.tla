----------------------------- MODULE MCValidator -----------------------------
(* The instances of Validator that TLC checks. *)
EXTENDS Validator
=============================================================================
