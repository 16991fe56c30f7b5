------------------------------ MODULE MCProgram ------------------------------
(* Values for the constants of Program that a .cfg cannot write. *)
EXTENDS Program

RetryTwice == Finite(2)
RetryOnce == Finite(1)
=============================================================================
