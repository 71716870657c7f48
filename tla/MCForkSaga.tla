------------------------------ MODULE MCForkSaga -------------------------------
(* Small instances of ForkSaga for TLC. *)
EXTENDS ForkSaga

CONSTANTS k1, k2, d1, d2, a1, a2
=============================================================================
