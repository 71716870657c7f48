-------------------------- MODULE MCCallTransport --------------------------
(* Instances of CallTransport for TLC. *)
EXTENDS CallTransport, TLC

CONSTANTS c1, t1, t2, x1, x2

OneCall == {c1}
NoCalls == {}
TwoTasks == {t1, t2}
Executors == {x1, x2}
NoExecutors == {}
AllRoutes == {"entity", "mailbox", "external"}
External == {"external"}

\* the handler slots are interchangeable
Slots == Permutations(Task)
=============================================================================
