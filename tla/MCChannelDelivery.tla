-------------------------- MODULE MCChannelDelivery ---------------------------
(* Small instances of ChannelDelivery for TLC. *)
EXTENDS ChannelDelivery

BothRoutes == {"direct", "mailbox"}
FirstIsCall == {1}
=============================================================================
