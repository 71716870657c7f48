---------------------------- MODULE CallOutcome ----------------------------
(***************************************************************************)
(* What a channel promises about method calls: a call is open once it is   *)
(* admitted, it is settled at most once and keeps its outcome, and only a  *)
(* recovered or a not-admitted call is settled without having been open.   *)
(* A fork knows a prefix of its parent's history.                          *)
(***************************************************************************)
CONSTANTS Call, Outcome

\* outcomes of calls that were never open
Unadmitted == {"lost", "notAdmitted"}

VARIABLES phase, forked

Init == phase = [c \in Call |-> "unseen"] /\ forked = FALSE

Admit(c) ==
  /\ phase[c] = "unseen"
  /\ phase' = [phase EXCEPT ![c] = "open"]
  /\ UNCHANGED forked

Settle(c, k) ==
  /\ phase[c] = "open" \/ (phase[c] = "unseen" /\ k \in Unadmitted)
  /\ phase' = [phase EXCEPT ![c] = k]
  /\ UNCHANGED forked

Fork ==
  /\ ~forked /\ forked' = TRUE
  /\ phase' \in [Call -> {"unseen", "open"} \cup Outcome]
  /\ \A c \in Call :
       \/ phase'[c] \in {phase[c], "unseen"}
       \/ phase'[c] = "open" /\ phase[c] # "unseen"

Next == \/ \E c \in Call : Admit(c) \/ \E k \in Outcome : Settle(c, k)
        \/ Fork

Spec == Init /\ [][Next]_<<phase, forked>>
=============================================================================
