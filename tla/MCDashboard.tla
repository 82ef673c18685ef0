---------------------------- MODULE MCDashboard ----------------------------
(* The page, and the rules of the settings it shows. *)
EXTENDS Dashboard

\* At, just under and just over every bound of a rule.
MCAmounts == {-10, -1, 0, 1, 9, 10, 11, 15, 19, 20, 21, 1000}
MCLengths == {0, 1, 2, 8, 20, 21, 128, 129}
=============================================================================
