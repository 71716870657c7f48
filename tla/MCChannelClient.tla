-------------------------- MODULE MCChannelClient --------------------------
(* Instances of ChannelClient for TLC *)
EXTENDS ChannelClient
BothKinds == BOOLEAN
Panel == {FALSE}
=============================================================================
