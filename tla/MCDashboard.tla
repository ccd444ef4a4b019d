----------------------------- MODULE MCDashboard -----------------------------
(***************************************************************************)
(* Three rows, two of which match, in any order and with any ties at the   *)
(* outset, a write and a tick while pages of one or two rows are turned;   *)
(* limits that are zero, allowed and over the maximum and a negative       *)
(* offset.  Stamps may be older than the window of the attackers is long,  *)
(* so that one may be written behind it.                                   *)
(***************************************************************************)
EXTENDS Dashboard

CONSTANTS r1, r2, r3

MCRows == {r1, r2, r3}
MCMatching == {r1, r2}
MCLimits == {<<0>>, <<1>>, <<3>>}
MCOffsets == {<<-1>>}
MCDurations == {<<>>}
=============================================================================
