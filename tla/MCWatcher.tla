------------------------------ MODULE MCWatcher ------------------------------
(* A value for the constant of Watcher that a .cfg cannot write. *)
EXTENDS Watcher

RetryOnce == Finite(1)
=============================================================================
