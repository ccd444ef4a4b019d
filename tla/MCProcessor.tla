----------------------------- MODULE MCProcessor -----------------------------
(* Processor for TLC: a login is always a technique, a connection none. *)
EXTENDS Processor

MCDetections == [connect |-> {<<>>}, login |-> {<<"T1078">>}]
=============================================================================
