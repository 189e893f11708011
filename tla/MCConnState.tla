---------------------------- MODULE MCConnState ----------------------------
(* A small instance of ConnState for TLC: a channel of two events. *)
EXTENDS ConnState
=============================================================================
