------------------------------ MODULE MCMessenger ------------------------------
(* An instance of Messenger for TLC: two messages show it. *)
EXTENDS Messenger
=============================================================================
