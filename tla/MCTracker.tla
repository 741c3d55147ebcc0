----------------------------- MODULE MCTracker -----------------------------
(****************************************************************************)
(* Budgets below, at and above the defaults of internal/config, the largest *)
(* whose last point still shows, one beyond it, and one New has to raise.   *)
(* A round costs what one probe can report, or what several add up to.      *)
(****************************************************************************)
EXTENDS Tracker

MCThresholds == {0, 1, 2, 8, 20, 101, 200, 201}
MCWeights == {0, 1, 2, 3, 7}
=============================================================================
