-------------------------- MODULE MCPublicationQueue --------------------------
(* Small instances of PublicationQueue for TLC. *)
EXTENDS PublicationQueue, TLC

CONSTANTS p1, p2, p3, p4, e1, e2, e3

\* p4 is published by a recipient of p1; p3 retries the envelope of p2
Nested == [p \in Pub |-> IF p = p4 THEN p1 ELSE NoPub]
Retried == [p \in Pub |-> CASE p = p1 -> e1 [] p \in {p2, p3} -> e2 [] OTHER -> e3]
=============================================================================
