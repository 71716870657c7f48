------------------------- MODULE MCChannelMembership -------------------------
(* Small instances of ChannelMembership.                                    *)
EXTENDS ChannelMembership, TLC

CONSTANTS t1, t2, a1, u1, o1, o2

MCRouteOf == [o \in Op |-> IF o = o1 THEN "direct" ELSE "mailbox"]
MCSymmetry == Permutations({t1, t2})
MCNothing == <<>>
(* the parent's ledger at the fork point: its person's session was opened   *)
MCOpened == <<[Fact({}) EXCEPT !.kind = "opened", !.p = u1, !.rev = 1]>>
=============================================================================
