------------------------- MODULE MCChannelObservation -------------------------
(* Small instances of ChannelObservation for TLC. *)
EXTENDS ChannelObservation, TLC

CONSTANTS c1, c2

OneFork == {[child |-> c2, parent |-> c1]}
=============================================================================
