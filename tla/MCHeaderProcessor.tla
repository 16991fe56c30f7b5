-------------------------- MODULE MCHeaderProcessor --------------------------
(* Values for the constants of HeaderProcessor that a .cfg cannot write. *)
EXTENDS HeaderProcessor

TwiceOrForEver == {Finite(2), Infinite}
Twice == {Finite(2)}
=============================================================================
