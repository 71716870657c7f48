------------------------- MODULE DeliveryProjection -------------------------
(***************************************************************************)
(* The delivery projection of a channel                                    *)
(* (workers/pubsub-channel/delivery-projection.ts): a record pr with the   *)
(* fold's cursor, the participants' relationships, the retained join       *)
(* operations and the mailbox of deliveries.  Each operator is one method, *)
(* a transaction from one such record to the next.  An event's audience    *)
(* and the participants' interest are one set, the addressees (to).        *)
(***************************************************************************)
EXTENDS Naturals, Sequences, FiniteSets, FiniteSetsExt, SequencesExt

CONSTANTS
  Participant,
  NoOne,        \* the participant of a fact
  NoOp          \* an event that retains no join operation

ASSUME NoneAssumption == NoOne \notin Participant

Subscription == {"opened", "revised"}
(* a delivery is open (ready, leased or retrying) or terminal               *)
Terminal == {"completed", "departed", "retired"}

Fact(to) == [kind |-> "fact", p |-> NoOne, rev |-> 0, op |-> NoOp,
             route |-> "session", after |-> 0, to |-> to]

(* gap is <<>> or the range <<after, through>> a reattachment still owes    *)
NoRel == [rev |-> 0, active |-> FALSE, attached |-> FALSE,
          route |-> "session", at |-> 0, gap |-> <<>>]
Empty(boundary) == [cursor |-> 0, boundary |-> boundary, ops |-> {}, box |-> {},
                    rel |-> [p \in Participant |-> NoRel]]

-----------------------------------------------------------------------------
(* Deliveries *)

Owes(pr, e, p) ==
  /\ e.kind = "fact" /\ p \in e.to
  /\ pr.rel[p].active /\ pr.rel[p].attached /\ pr.rel[p].route # "session"

Row(s, p, rev) == [seq |-> s, p |-> p, rev |-> rev, st |-> "open"]

\* the delivery's identity is its event, participant and revision; events S
Derive(pr, log, S, P, rearm) ==
  LET Id(s, p) == <<s, p, pr.rel[p].rev>>
      due == {Id(x[1], x[2]) : x \in {y \in S \X P : Owes(pr, log[y[1]], y[2])}}
      held == {r \in pr.box : <<r.seq, r.p, r.rev>> \in due}
      again == IF rearm THEN {r \in held : r.st \in Terminal} ELSE {}
      fresh == due \ {<<r.seq, r.p, r.rev>> : r \in held}
  IN [pr EXCEPT !.box = (@ \ again) \cup {[r EXCEPT !.st = "open"] : r \in again}
                          \cup {Row(i[1], i[2], i[3]) : i \in fresh}]

\* open deliveries of p with a revision below rev end as st
Retire(box, p, st, rev) ==
  {IF r.p = p /\ r.st = "open" /\ r.rev < rev THEN [r EXCEPT !.st = st] ELSE r :
     r \in box}
Complete(pr, r) == [pr EXCEPT !.box = (@ \ {r}) \cup {[r EXCEPT !.st = "completed"]}]

-----------------------------------------------------------------------------
(* Relationships *)

Detached(pr, e) ==
  [pr EXCEPT !.rel[e.p] = [@ EXCEPT !.rev = e.rev, !.attached = FALSE,
                                    !.at = e.after, !.gap = <<>>],
             !.box = Retire(@, e.p, "retired", e.rev)]
Ended(pr, e) ==
  [pr EXCEPT !.rel[e.p] = [@ EXCEPT !.rev = e.rev, !.active = FALSE,
                                    !.attached = FALSE, !.gap = <<>>],
             !.box = Retire(@, e.p, "departed", e.rev)]
Opened(pr, s, e) ==
  LET old == pr.rel[e.p]
      reattaching == old.active /\ ~old.attached
      moved == old.rev > 0 /\ old.route # e.route
  IN [pr EXCEPT
       !.rel[e.p] = [rev |-> e.rev, active |-> TRUE, attached |-> TRUE,
                     route |-> e.route, at |-> 0,
                     gap |-> IF reattaching THEN <<old.at, s - 1>> ELSE <<>>],
       !.ops = IF e.op = NoOp THEN @
               ELSE @ \cup {[p |-> e.p, op |-> e.op, rev |-> e.rev, seq |-> s]},
       !.box = IF moved THEN Retire(@, e.p, "retired", e.rev) ELSE @]

(* an event that does not follow the folded revision is skipped            *)
Follows(rel, e) ==
  /\ e.rev = rel.rev + 1
  /\ e.kind \in {"detached", "ended"} => rel.active
  /\ e.kind = "detached" => rel.attached
FoldRelationship(pr, s, e) ==
  IF ~Follows(pr.rel[e.p], e) THEN pr
  ELSE IF e.kind = "detached" THEN Detached(pr, e)
  ELSE IF e.kind = "ended" THEN Ended(pr, e)
  ELSE Opened(pr, s, e)

Pending(pr) ==
  {[p |-> p, after |-> pr.rel[p].gap[1], through |-> pr.rel[p].gap[2]] :
     p \in {q \in Participant : pr.rel[q].active /\ pr.rel[q].attached
                                /\ pr.rel[q].gap # <<>>}}

(* fold accepts the next event only, and none while a reattachment owes    *)
CanFold(pr, s) == Pending(pr) = {} /\ s = pr.cursor + 1
Fold(pr, log, s) ==
  LET e == log[s]
      folded == IF s <= pr.boundary THEN pr
                ELSE IF e.kind = "fact" THEN Derive(pr, log, {s}, Participant, FALSE)
                ELSE FoldRelationship(pr, s, e)
  IN [folded EXCEPT !.cursor = s]

-----------------------------------------------------------------------------
(* Reattachment *)

(* one page of events x.after+1 .. x.through, read for the range recorded   *)
(* then, against the range recorded now                                     *)
Overtaken(pr, x) ==
  LET gap == pr.rel[x.p].gap
      first == Max({x.after, gap[1]}) + 1
  IN gap # <<>> /\ first <= x.through /\ first > gap[2]
AdvanceReattachBackfill(pr, log, x) ==
  LET gap == pr.rel[x.p].gap
      S == {s \in x.after + 1 .. x.through : s > gap[1] /\ s <= gap[2]}
      derived == Derive(pr, log, S, {x.p}, FALSE)
  IN IF gap = <<>> \/ S = {} THEN pr
     ELSE [derived EXCEPT !.rel[x.p].gap =
             IF gap[2] \in S THEN <<>> ELSE <<x.through, gap[2]>>]
CompleteEmptyReattachBackfill(pr, p) ==
  LET gap == pr.rel[p].gap
  IN IF gap # <<>> /\ gap[1] >= gap[2] THEN [pr EXCEPT !.rel[p].gap = <<>>] ELSE pr

\* mutant: deliveries outstanding do not count
DetachAtUpper(pr, p, upper) == upper
(* what a detachment may declare delivered: nothing outstanding            *)
DetachRecoveryBoundary(pr, p, upper) ==
  LET open == {r.seq : r \in {x \in pr.box : x.p = p /\ x.st = "open"}}
  IN IF open = {} \/ upper < Min(open) THEN upper ELSE Min(open) - 1

\* mutant: the relationships survive the reset
ResetKeepsRelationships(pr) == [pr EXCEPT !.cursor = 0, !.box = {}, !.ops = {}]
EnsureProjectionVersion(pr) == Empty(pr.boundary)
=============================================================================
