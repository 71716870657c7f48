---------------------------- MODULE MCMissionRuns ----------------------------
(* The runs of an automation: a small instance for TLC. *)
EXTENDS MissionRuns

CONSTANTS c1, c2, m1, m2, d1, d2
==============================================================================
