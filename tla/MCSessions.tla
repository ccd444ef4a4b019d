----------------------------- MODULE MCSessions -----------------------------
(* Sessions for TLC; connections are alike until a service accepts them. *)
EXTENDS Sessions
=============================================================================
