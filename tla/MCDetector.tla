----------------------------- MODULE MCDetector -----------------------------
(* Detector for TLC. *)
EXTENDS Detector, TLC

Symmetry == Permutations(Workers) \cup Permutations(IPs)
=============================================================================
