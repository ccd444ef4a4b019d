---------------------------- MODULE MCRateLimiter ----------------------------
(* RateLimiter on a small instance; no address is special to it. *)
EXTENDS RateLimiter, TLC

IPSymmetry == Permutations(IPs)
=============================================================================
