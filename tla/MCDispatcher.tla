---------------------------- MODULE MCDispatcher ----------------------------
(* Bounds and small instances of Dispatcher for TLC. *)
EXTENDS Dispatcher
=============================================================================
