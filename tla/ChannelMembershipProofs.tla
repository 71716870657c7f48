---------------------- MODULE ChannelMembershipProofs ----------------------
(***************************************************************************)
(* What holds of relationships for any participants, handlers and faults.  *)
(*                                                                         *)
(* The projection stays within the ledger, and only a leave that named the *)
(* revision a relationship has ends it: the invariant IInv follows each    *)
(* leave from the request through its handler and the ledger to the fold.  *)
(* The projection is the fold of the ledger (FoldsLedger): what the        *)
(* recursion of Recorded says of the events is shown by a least            *)
(* counterexample.                                                         *)
(*                                                                         *)
(* No delivery owed is lost (NothingIsLost).  GInv says of every           *)
(* relationship that its debts are settled, open, owed by a range or       *)
(* marked, of every delivery that its relationship supplies it, and of     *)
(* every event of the ledger, and of those handlers are about to append,   *)
(* that what a detachment declares delivered is settled or marked.  The    *)
(* lemmas go through the methods of the projection one by one, then        *)
(* through what handlers may say, then through the actions.                *)
(***************************************************************************)
EXTENDS ChannelMembership, Integers, TLAPS, WellFoundedInduction

\* who ended an agent's relationship asked for it, with the revision it had
Owned(e) ==
  /\ e.kind # "fact" => e.p \in Participant
  /\ e.kind = "ended" /\ e.p \in Agent => \E x \in asked : x.p = e.p /\ e.rev = x.rev + 1

\* what a running handler is about
Sound(h) ==
  /\ h.kind \in {"join", "leave", "detach", "update"} => h.p \in Participant
  /\ h.kind \in {"open", "close"} => h.p \in Session
  /\ h.kind = "join" => h.op \in Op
  /\ h.pc = "lock" => h.kind \in {"join", "leave", "detach"}
  /\ h.pc = "rejoined" => h.kind = "join"
  /\ h.pc = "opening" => h.kind = "open"
  /\ h.app <= Len(log) /\ h.batch <= Len(log)
  /\ h.kind = "leave" => [p |-> h.p, rev |-> h.rev] \in asked
  /\ Owned(h.ev)

\* the projection after n events of the ledger
Fits(pr, n) ==
  /\ pr \in Projection /\ pr.boundary = Len(Inherited)
  /\ pr.cursor <= n /\ \A r \in pr.box : r.seq <= pr.cursor
  /\ \A p \in Participant : pr.rel[p].gap # <<>> => pr.rel[p].gap[2] <= pr.cursor

IInv ==
  /\ TypeOK /\ Fits(proj, Len(log))
  /\ \A t \in Task : Sound(task[t])
  /\ \A i \in DOMAIN log : i > Len(Inherited) => Owned(log[i])

-----------------------------------------------------------------------------
(* The projection's operators *)

LEMMA MinFact ==
  ASSUME NEW S \in SUBSET Nat, S # {}
  PROVE  Min(S) \in S /\ \A x \in S : Min(S) <= x
<1>1. PICK m \in S : \A x \in S : ~(<<x, m>> \in OpToRel(<, Nat))
  BY WFMin, NatLessThanWellFounded
<1>2. \A x \in S : ~(x < m)
  BY <1>1 DEF OpToRel
<1>3. \A x \in S : m <= x
  BY <1>2
<1> QED
  BY <1>3 DEF Min

\* a delivery as the mailbox keeps it
Delivery == [seq : 1 .. MaxLog, p : Agent, rev : Nat, st : {"open"} \cup Terminal]

LEMMA DeliveryOK ==
  ASSUME NEW r \in Delivery, NEW st \in {"open"} \cup Terminal
  PROVE  LET n == [r EXCEPT !.st = st] IN n \in Delivery /\ n.seq = r.seq /\ n.p = r.p /\ n.rev = r.rev
BY DEF Delivery

LEMMA WithBox ==
  ASSUME NEW pr \in Projection, NEW b \in SUBSET Delivery
  PROVE  LET n == [pr EXCEPT !.box = b] IN
         /\ n \in Projection /\ n.box = b /\ n.rel = pr.rel /\ n.cursor = pr.cursor
         /\ n.boundary = pr.boundary /\ n.ops = pr.ops
BY DEF Projection, Delivery

\* deliveries are derived for the events asked for, relationships stay
DerivedFrom(pr, S, n) ==
  /\ n \in Projection /\ n.rel = pr.rel /\ n.cursor = pr.cursor
  /\ n.boundary = pr.boundary /\ n.ops = pr.ops
  /\ \A r \in n.box : r.seq \in S \/ \E q \in pr.box : q.seq = r.seq

LEMMA DeriveOK ==
  ASSUME NEW pr \in Projection, NEW lg, NEW S, NEW P \in SUBSET Participant, NEW rearm \in BOOLEAN,
         S \subseteq 1 .. MaxLog, \A s \in S : lg[s] \in LedgerEvent
  PROVE  DerivedFrom(pr, S, Derive(pr, lg, S, P, rearm))
<1> DEFINE Id(s, p) == <<s, p, pr.rel[p].rev>>
           due == {Id(x[1], x[2]) : x \in {y \in S \X P : Owes(pr, lg[y[1]], y[2])}}
           found == {r \in pr.box : <<r.seq, r.p, r.rev>> \in due}
           again == IF rearm THEN {r \in found : r.st \in Terminal} ELSE {}
           fresh == due \ {<<r.seq, r.p, r.rev>> : r \in found}
           box == (pr.box \ again) \cup {[r EXCEPT !.st = "open"] : r \in again}
                    \cup {Row(i[1], i[2], i[3]) : i \in fresh}
<1>1. Derive(pr, lg, S, P, rearm) = [pr EXCEPT !.box = box]
  BY Zenon DEF Derive
<1>2. \A i \in due : /\ i[1] \in S /\ i[1] \in 1 .. MaxLog /\ i[2] \in Agent /\ i[3] \in Nat
  <2>1. TAKE i \in due
  <2>2. PICK y \in S \X P : i = Id(y[1], y[2]) /\ Owes(pr, lg[y[1]], y[2])
    OBVIOUS
  <2>3. y[1] \in S /\ y[2] \in P /\ i[1] = y[1] /\ i[2] = y[2] /\ i[3] = pr.rel[y[2]].rev
    BY <2>2
  <2>4. lg[y[1]].to \subseteq Agent
    BY <2>3 DEF LedgerEvent
  <2>5. y[2] \in Agent
    BY <2>2, <2>4 DEF Owes
  <2>6. pr.rel[y[2]].rev \in Nat
    BY <2>3 DEF Projection, Relationship
  <2> QED
    BY <2>3, <2>5, <2>6
<1>3. pr.box \subseteq Delivery
  BY DEF Projection, Delivery
<1>4. again \subseteq pr.box
  OBVIOUS
<1>5. fresh \subseteq due
  OBVIOUS
<1> HIDE DEF due, again, fresh
<1>6. ASSUME NEW r \in box
      PROVE  r \in Delivery /\ (r.seq \in S \/ \E q \in pr.box : q.seq = r.seq)
  <2>1. CASE r \in pr.box
    BY <1>3, <2>1
  <2>2. CASE r \in {[q EXCEPT !.st = "open"] : q \in again}
    <3>1. PICK q \in again : r = [q EXCEPT !.st = "open"]
      BY <2>2
    <3>2. q \in Delivery /\ q \in pr.box
      BY <1>3, <1>4
    <3> QED
      BY <3>1, <3>2, DeliveryOK
  <2>3. CASE r \in {Row(i[1], i[2], i[3]) : i \in fresh}
    <3>1. PICK i \in fresh : r = Row(i[1], i[2], i[3])
      BY <2>3
    <3> QED
      BY <1>2, <1>5, <3>1 DEF Row, Delivery
  <2> QED
    BY <2>1, <2>2, <2>3
<1> HIDE DEF box
<1> QED
  BY <1>1, <1>6, WithBox DEF DerivedFrom

LEMMA RetireOK ==
  ASSUME NEW box \in SUBSET Delivery, NEW p, NEW st \in Terminal, NEW rev
  PROVE  /\ Retire(box, p, st, rev) \in SUBSET Delivery
         /\ \A r \in Retire(box, p, st, rev) : \E q \in box : q.seq = r.seq
<1>1. SUFFICES ASSUME NEW q \in box
               PROVE  LET r == IF q.p = p /\ q.st = "open" /\ q.rev < rev THEN [q EXCEPT !.st = st] ELSE q
                      IN  r \in Delivery /\ q.seq = r.seq
  BY DEF Retire
<1> QED
  BY DeliveryOK

LEMMA PendingOK ==
  ASSUME NEW pr \in Projection
  PROVE  Pending(pr) \in SUBSET [p : Participant, after : 0 .. MaxLog, through : 0 .. MaxLog]
<1>1. SUFFICES ASSUME NEW q \in Participant, pr.rel[q].gap # <<>>
               PROVE  pr.rel[q].gap[1] \in 0 .. MaxLog /\ pr.rel[q].gap[2] \in 0 .. MaxLog
  BY DEF Pending
<1> QED
  BY <1>1 DEF Projection, Relationship, Gap

\* a step of the projection that changes no relationship, only what is owed
Lasts(pr, n) ==
  /\ n.cursor = pr.cursor /\ n.boundary = pr.boundary
  /\ \A p \in Participant :
       /\ n.rel[p].active = pr.rel[p].active /\ n.rel[p].rev = pr.rel[p].rev
       /\ n.rel[p].attached = pr.rel[p].attached /\ n.rel[p].route = pr.rel[p].route

LEMMA WithRel ==
  ASSUME NEW pr \in Projection, NEW p \in Participant, NEW rel \in Relationship
  PROVE  LET n == [pr EXCEPT !.rel[p] = rel] IN
         /\ n \in Projection /\ n.rel = [pr.rel EXCEPT ![p] = rel] /\ n.cursor = pr.cursor
         /\ n.boundary = pr.boundary /\ n.ops = pr.ops /\ n.box = pr.box
BY DEF Projection

LEMMA GapOK ==
  ASSUME NEW r \in Relationship, NEW gap \in Gap
  PROVE  LET n == [r EXCEPT !.gap = gap] IN
         n \in Relationship /\ n.gap = gap /\ n.active = r.active /\ n.rev = r.rev
         /\ n.attached = r.attached /\ n.route = r.route /\ n.at = r.at
BY DEF Relationship

LEMMA CompleteEmptyOK ==
  ASSUME NEW n \in Nat, NEW pr, Fits(pr, n), NEW p \in Participant
  PROVE  Fits(CompleteEmptyReattachBackfill(pr, p), n) /\ Lasts(pr, CompleteEmptyReattachBackfill(pr, p))
<1>1. CASE CompleteEmptyReattachBackfill(pr, p) = pr
  BY <1>1 DEF Lasts
<1>2. CASE CompleteEmptyReattachBackfill(pr, p) = [pr EXCEPT !.rel[p].gap = <<>>]
  <2>1. PICK r : r = [pr.rel[p] EXCEPT !.gap = <<>>]
    OBVIOUS
  <2>2. /\ r \in Relationship /\ r.gap = <<>> /\ r.active = pr.rel[p].active /\ r.rev = pr.rel[p].rev
        /\ r.attached = pr.rel[p].attached /\ r.route = pr.rel[p].route
    BY <2>1, GapOK DEF Fits, Projection, Gap
  <2>3. PICK m : m = [pr EXCEPT !.rel[p] = r]
    OBVIOUS
  <2>4. CompleteEmptyReattachBackfill(pr, p) = m
    BY <1>2, <2>1, <2>3
  <2>5. m \in Projection /\ m.rel = [pr.rel EXCEPT ![p] = r] /\ m.cursor = pr.cursor
         /\ m.boundary = pr.boundary /\ m.box = pr.box
    BY <2>2, <2>3, WithRel DEF Fits
  <2>6. \A q \in Participant : m.rel[q] = IF q = p THEN r ELSE pr.rel[q]
    BY <2>5 DEF Fits, Projection
  <2> QED
    BY <2>2, <2>4, <2>5, <2>6 DEF Fits, Lasts
<1> QED
  BY <1>1, <1>2 DEF CompleteEmptyReattachBackfill

LEMMA AdvanceOK ==
  ASSUME IInv, NEW x \in [p : Participant, after : 0 .. MaxLog, through : 0 .. MaxLog]
  PROVE  LET n == AdvanceReattachBackfill(proj, log, x) IN Fits(n, Len(log)) /\ Lasts(proj, n)
<1>1. PICK p \in Participant, after \in 0 .. MaxLog, through \in 0 .. MaxLog :
        x.p = p /\ x.after = after /\ x.through = through
  OBVIOUS
<1>2. PICK gap \in Gap : gap = proj.rel[p].gap
  BY DEF IInv, TypeOK, Projection, Relationship
<1>3. PICK S : S = {s \in after + 1 .. through : s > gap[1] /\ s <= gap[2]}
  OBVIOUS
<1>4. PICK d : d = Derive(proj, log, S, {p}, FALSE)
  OBVIOUS
<1>5. CASE gap = <<>> \/ S = {}
  <2>1. AdvanceReattachBackfill(proj, log, x) = proj
    BY <1>1, <1>2, <1>3, <1>5 DEF AdvanceReattachBackfill
  <2> QED
    BY <2>1 DEF IInv, Lasts
<1>6. CASE gap # <<>> /\ S # {}
  <2>1. gap[1] \in 0 .. MaxLog /\ gap[2] \in 0 .. MaxLog /\ gap[2] <= proj.cursor
        /\ proj.cursor \in 0 .. MaxLog /\ proj.cursor <= Len(log) /\ MaxLog \in Nat
    BY <1>2, <1>6, LimitAssumption DEF Gap, IInv, Fits, TypeOK, Projection
  <2>2. log \in Seq(LedgerEvent) /\ Len(log) \in Nat
    BY DEF IInv, TypeOK
  <2>3. \A s \in S : s \in 1 .. MaxLog /\ s <= proj.cursor /\ log[s] \in LedgerEvent
    BY <1>3, <2>1, <2>2
  <2>4. /\ d \in Projection /\ d.rel = proj.rel /\ d.cursor = proj.cursor /\ d.boundary = proj.boundary
        /\ \A r \in d.box : r.seq \in S \/ \E q \in proj.box : q.seq = r.seq
    <3>1. PICK P \in SUBSET Participant : P = {p}
      OBVIOUS
    <3>2. S \subseteq 1 .. MaxLog
      BY <2>3
    <3>3. \A s \in S : log[s] \in LedgerEvent
      BY <2>3
    <3>4. proj \in Projection
      BY DEF IInv, TypeOK
    <3>5. DerivedFrom(proj, S, Derive(proj, log, S, P, FALSE))
      BY <3>1, <3>2, <3>3, <3>4, DeriveOK
    <3>6. d = Derive(proj, log, S, P, FALSE)
      BY <1>4, <3>1
    <3> QED
      BY <3>5, <3>6 DEF DerivedFrom
  <2>5. PICK new : new = IF gap[2] \in S THEN <<>> ELSE <<through, gap[2]>>
    OBVIOUS
  <2>6. new \in Gap /\ (new # <<>> => new[2] <= proj.cursor)
    BY <2>1, <2>5 DEF Gap
  <2>7. PICK r : r = [d.rel[p] EXCEPT !.gap = new]
    OBVIOUS
  <2>8. /\ r \in Relationship /\ r.gap = new /\ r.active = d.rel[p].active /\ r.rev = d.rel[p].rev
        /\ r.attached = d.rel[p].attached /\ r.route = d.rel[p].route
    BY <2>4, <2>6, <2>7, GapOK DEF Projection
  <2>9. PICK m : m = [d EXCEPT !.rel[p] = r]
    OBVIOUS
  <2>10. AdvanceReattachBackfill(proj, log, x) = m
    BY <1>1, <1>2, <1>3, <1>4, <1>6, <2>5, <2>7, <2>9 DEF AdvanceReattachBackfill
  <2>11. m \in Projection /\ m.rel = [d.rel EXCEPT ![p] = r] /\ m.cursor = d.cursor
         /\ m.boundary = d.boundary /\ m.box = d.box
    BY <2>4, <2>8, <2>9, WithRel
  <2>12. \A q \in Participant : m.rel[q] = IF q = p THEN r ELSE proj.rel[q]
    BY <2>4, <2>11 DEF Projection
  <2>13. \A q \in m.box : q.seq <= proj.cursor
    BY <2>3, <2>4, <2>11 DEF IInv, Fits
  <2> QED
    BY <2>4, <2>6, <2>8, <2>10, <2>11, <2>12, <2>13 DEF IInv, Fits, Lasts
<1> QED
  BY <1>5, <1>6

LEMMA CompleteOK ==
  ASSUME NEW n \in Nat, NEW pr, Fits(pr, n), NEW r \in pr.box
  PROVE  Fits(Complete(pr, r), n) /\ Lasts(pr, Complete(pr, r))
<1>5. PICK c : c = [r EXCEPT !.st = "completed"]
  OBVIOUS
<1>1. PICK b : b = (pr.box \ {r}) \cup {c}
  OBVIOUS
<1>2. PICK m : m = [pr EXCEPT !.box = b] /\ m = Complete(pr, r)
  BY <1>1, <1>5 DEF Complete
<1>3. pr.box \subseteq Delivery /\ pr \in Projection
  BY DEF Fits, Projection, Delivery
<1>4. b \in SUBSET Delivery /\ \A q \in b : q.seq <= pr.cursor
  <2>1. r \in Delivery /\ "completed" \in {"open"} \cup Terminal
    BY <1>3 DEF Terminal
  <2>2. c \in Delivery /\ c.seq = r.seq
    BY <1>5, <2>1, DeliveryOK
  <2> QED
    BY <1>1, <1>3, <2>2 DEF Fits
<1>6. /\ m \in Projection /\ m.box = b /\ m.rel = pr.rel /\ m.cursor = pr.cursor
      /\ m.boundary = pr.boundary
  BY <1>2, <1>3, <1>4, WithBox
<1> QED
  BY <1>2, <1>4, <1>6 DEF Fits, Lasts

LEMMA BoundaryOK ==
  ASSUME NEW pr \in Projection, NEW p \in Participant
  PROVE  DetachRecoveryBoundary(pr, p, pr.cursor) \in 0 .. MaxLog
<1>1. PICK open : open = {r.seq : r \in {x \in pr.box : x.p = p /\ x.st = "open"}}
  OBVIOUS
<1>2. open \in SUBSET Nat /\ \A s \in open : s \in 1 .. MaxLog
  BY <1>1 DEF Projection
<1>3. pr.cursor \in 0 .. MaxLog /\ MaxLog \in Nat
  BY LimitAssumption DEF Projection
<1>4. ASSUME open # {} PROVE Min(open) - 1 \in 0 .. MaxLog
  <2>1. Min(open) \in open
    BY <1>2, <1>4, MinFact
  <2>2. PICK m \in 1 .. MaxLog : m = Min(open)
    BY <1>2, <2>1
  <2> QED
    BY <1>3, <2>2
<1> QED
  BY <1>1, <1>3, <1>4 DEF DetachRecoveryBoundary

LEMMA EmptyOK ==
  ASSUME NEW n \in Nat PROVE Fits(Empty(Len(Inherited)), n)
<1>1. Len(Inherited) \in Nat /\ MaxLog \in Nat
  BY InheritedAssumption, LimitAssumption
<1>2. NoRel \in Relationship /\ NoRel.gap = <<>>
  BY <1>1 DEF NoRel, Relationship, Route, Gap
<1>3. PICK rel : rel = [p \in Participant |-> NoRel]
  OBVIOUS
<1>4. rel \in [Participant -> Relationship] /\ \A p \in Participant : rel[p].gap = <<>>
  BY <1>2, <1>3
<1>5. Empty(Len(Inherited))
        = [cursor |-> 0, boundary |-> Len(Inherited), ops |-> {}, box |-> {}, rel |-> rel]
  BY <1>3 DEF Empty
<1> QED
  BY <1>1, <1>4, <1>5 DEF Fits, Projection

-----------------------------------------------------------------------------
(* The fold *)

\* the projection while event s is folded: the cursor is still behind it
Nearly(f, s) ==
  /\ f \in Projection /\ f.boundary = Len(Inherited)
  /\ \A r \in f.box : r.seq <= s
  /\ \A p \in Participant : f.rel[p].gap # <<>> => f.rel[p].gap[2] <= s

Asked(f) ==
  \A p \in Agent : proj.rel[p].active /\ ~f.rel[p].active =>
                     [p |-> p, rev |-> proj.rel[p].rev] \in asked

Operations == [p : Participant, op : Op, rev : Nat, seq : 1 .. MaxLog]

LEMMA NextEvent ==
  ASSUME IInv, NEW s, s = proj.cursor + 1, s <= Len(log)
  PROVE  /\ s \in 1 .. MaxLog /\ s \in DOMAIN log /\ log[s] \in LedgerEvent /\ s - 1 \in 0 .. MaxLog
         /\ s \in Nat /\ Nearly(proj, s) /\ Asked(proj) /\ proj \in Projection
<1>1. /\ log \in Seq(LedgerEvent) /\ Len(log) <= MaxLog /\ proj.cursor \in 0 .. MaxLog /\ MaxLog \in Nat
      /\ Len(log) \in Nat
  BY LimitAssumption DEF IInv, TypeOK, Projection
<1>2. s \in 1 .. MaxLog /\ s \in DOMAIN log /\ log[s] \in LedgerEvent /\ s - 1 \in 0 .. MaxLog /\ s \in Nat
  BY <1>1
<1>3. \A r \in proj.box : r.seq <= s
  <2>1. TAKE r \in proj.box
  <2>2. r.seq \in 1 .. MaxLog /\ r.seq <= proj.cursor
    BY DEF IInv, Fits, Projection
  <2> QED
    BY <1>1, <2>2
<1>4. ASSUME NEW p \in Participant, proj.rel[p].gap # <<>> PROVE proj.rel[p].gap[2] <= s
  <2>1. PICK g \in Gap : g = proj.rel[p].gap
    BY DEF IInv, TypeOK, Projection, Relationship
  <2>2. g[2] \in 0 .. MaxLog /\ g[2] <= proj.cursor
    BY <1>4, <2>1 DEF Gap, IInv, Fits
  <2> QED
    BY <1>1, <2>1, <2>2
<1> QED
  BY <1>2, <1>3, <1>4 DEF Nearly, Asked, IInv, Fits

\* relationship r may replace q's
EndsAsked(q, r) ==
  q \in Agent /\ proj.rel[q].active /\ ~r.active => [p |-> q, rev |-> proj.rel[q].rev] \in asked

LEMMA RelStep ==
  ASSUME IInv, NEW s, s = proj.cursor + 1, s <= Len(log),
         NEW q \in Participant, NEW r \in Relationship, NEW o \in SUBSET Operations,
         NEW b \in SUBSET Delivery, NEW f,
         f = [proj EXCEPT !.rel = [@ EXCEPT ![q] = r], !.ops = o, !.box = b],
         r.gap # <<>> => r.gap[2] <= s,
         \A x \in b : \E y \in proj.box : y.seq = x.seq,
         EndsAsked(q, r)
  PROVE  Nearly(f, s) /\ Asked(f)
<1>1. /\ f \in Projection /\ f.boundary = proj.boundary /\ f.box = b
      /\ f.rel = [proj.rel EXCEPT ![q] = r]
  BY DEF IInv, TypeOK, Projection, Delivery, Operations
<1>2. \A p \in Participant : f.rel[p] = IF p = q THEN r ELSE proj.rel[p]
  BY <1>1 DEF IInv, TypeOK, Projection
<1>3. Nearly(proj, s)
  BY NextEvent
<1> QED
  BY <1>1, <1>2, <1>3 DEF Nearly, Asked, Agent, EndsAsked

LEMMA FoldRelationshipOK ==
  ASSUME IInv, NEW s, s = proj.cursor + 1, s <= Len(log), s > Len(Inherited), log[s].kind # "fact"
  PROVE  LET f == FoldRelationship(proj, s, log[s]) IN Nearly(f, s) /\ Asked(f)
<1>1. PICK e \in LedgerEvent : e = log[s]
  BY NextEvent
<1>2. Owned(e)
  BY <1>1, NextEvent DEF IInv
<1>3. PICK q \in Participant : q = e.p
  BY <1>1, <1>2 DEF Owned
<1>4. PICK old \in Relationship : old = proj.rel[q]
  BY DEF IInv, TypeOK, Projection
<1>5. proj \in Projection /\ proj.box \in SUBSET Delivery /\ proj.ops \in SUBSET Operations
  BY DEF IInv, TypeOK, Projection, Delivery, Operations
<1>6. e.rev \in Nat /\ e.after \in 0 .. MaxLog /\ e.route \in Route /\ e.op \in Op \cup {NoOp}
  BY DEF LedgerEvent
<1>7. CASE ~Follows(proj.rel[e.p], e)
  BY <1>1, <1>7, NextEvent DEF FoldRelationship
<1>8. CASE Follows(proj.rel[e.p], e) /\ e.kind = "detached"
  <2>1. PICK r : r = [old EXCEPT !.rev = e.rev, !.attached = FALSE, !.at = e.after, !.gap = <<>>]
    OBVIOUS
  <2>2. r \in Relationship /\ r.gap = <<>> /\ r.active = old.active
    BY <1>6, <2>1 DEF Relationship, Gap
  <2>3. PICK b : b = Retire(proj.box, q, "retired", e.rev)
    OBVIOUS
  <2>4. b \in SUBSET Delivery /\ \A x \in b : \E y \in proj.box : y.seq = x.seq
    <3>1. "retired" \in Terminal
      BY DEF Terminal
    <3> QED
      BY <1>5, <2>3, <3>1, RetireOK
  <2>5. PICK f : f = [proj EXCEPT !.rel = [@ EXCEPT ![q] = r], !.ops = proj.ops, !.box = b]
    OBVIOUS
  <2>6. FoldRelationship(proj, s, e) = f
    <3>1. FoldRelationship(proj, s, e) = Detached(proj, e)
      BY <1>8 DEF FoldRelationship
    <3> QED
      BY <1>3, <1>4, <1>5, <2>1, <2>3, <2>5, <3>1 DEF Detached, Projection
  <2>7. EndsAsked(q, r)
    BY <1>4, <2>2, Zenon DEF EndsAsked
  <2>8. Nearly(f, s) /\ Asked(f)
    BY <1>3, <1>5, <2>2, <2>4, <2>5, <2>7, RelStep
  <2> QED
    BY <1>1, <2>6, <2>8
<1>9. CASE Follows(proj.rel[e.p], e) /\ e.kind = "ended"
  <2>1. PICK r : r = [old EXCEPT !.rev = e.rev, !.active = FALSE, !.attached = FALSE, !.gap = <<>>]
    OBVIOUS
  <2>2. r \in Relationship /\ r.gap = <<>>
    BY <1>6, <2>1 DEF Relationship, Gap
  <2>3. PICK b : b = Retire(proj.box, q, "departed", e.rev)
    OBVIOUS
  <2>4. b \in SUBSET Delivery /\ \A x \in b : \E y \in proj.box : y.seq = x.seq
    <3>1. "departed" \in Terminal
      BY DEF Terminal
    <3> QED
      BY <1>5, <2>3, <3>1, RetireOK
  <2>5. PICK f : f = [proj EXCEPT !.rel = [@ EXCEPT ![q] = r], !.ops = proj.ops, !.box = b]
    OBVIOUS
  <2>6. FoldRelationship(proj, s, e) = f
    <3>1. FoldRelationship(proj, s, e) = Ended(proj, e)
      BY <1>9 DEF FoldRelationship
    <3> QED
      BY <1>3, <1>4, <1>5, <2>1, <2>3, <2>5, <3>1 DEF Ended, Projection
  <2>7. q \in Agent => [p |-> q, rev |-> old.rev] \in asked
    <3>1. SUFFICES ASSUME q \in Agent PROVE [p |-> q, rev |-> old.rev] \in asked
      OBVIOUS
    <3>2. PICK x \in asked : x.p = q /\ e.rev = x.rev + 1
      BY <1>2, <1>3, <1>9, <3>1 DEF Owned
    <3>3. x \in [p : Participant, rev : Nat]
      BY DEF IInv, TypeOK
    <3>4. e.rev = old.rev + 1 /\ old.rev \in Nat
      BY <1>3, <1>4, <1>9 DEF Follows, Relationship
    <3>5. x.rev = old.rev
      BY <3>2, <3>3, <3>4
    <3> QED
      BY <3>2, <3>3, <3>5
  <2>8. Nearly(f, s) /\ Asked(f)
    <3>1. EndsAsked(q, r)
      BY <1>4, <2>7, Zenon DEF EndsAsked
    <3>2. r.gap # <<>> => r.gap[2] <= s
      BY <2>2
    <3> QED
      BY <1>3, <1>5, <2>2, <2>4, <2>5, <3>1, <3>2, RelStep
  <2> QED
    BY <1>1, <2>6, <2>8
<1>10. CASE Follows(proj.rel[e.p], e) /\ e.kind \notin {"detached", "ended"}
  <2>1. PICK g : g = IF old.active /\ ~old.attached THEN <<old.at, s - 1>> ELSE <<>>
    OBVIOUS
  <2>2. g \in Gap /\ (g # <<>> => g[2] <= s)
    <3>1. s - 1 \in 0 .. MaxLog /\ s - 1 <= s /\ old.at \in 0 .. MaxLog
      BY NextEvent DEF Relationship
    <3> QED
      BY <2>1, <3>1 DEF Gap
  <2>3. PICK r : r = [rev |-> e.rev, active |-> TRUE, attached |-> TRUE, route |-> e.route, at |-> 0, gap |-> g]
    OBVIOUS
  <2>4. r \in Relationship /\ r.gap = g /\ r.active
    <3>1. 0 \in 0 .. MaxLog
      BY LimitAssumption
    <3> QED
      BY <1>6, <2>2, <2>3, <3>1 DEF Relationship
  <2>5. PICK o : o = IF e.op = NoOp THEN proj.ops
                     ELSE proj.ops \cup {[p |-> q, op |-> e.op, rev |-> e.rev, seq |-> s]}
    OBVIOUS
  <2>6. o \in SUBSET Operations
    <3>1. s \in 1 .. MaxLog
      BY NextEvent
    <3> QED
      BY <1>5, <1>6, <2>5, <3>1 DEF Operations
  <2>7. PICK b : b = IF old.rev > 0 /\ old.route # e.route THEN Retire(proj.box, q, "retired", e.rev)
                     ELSE proj.box
    OBVIOUS
  <2>8. b \in SUBSET Delivery /\ \A x \in b : \E y \in proj.box : y.seq = x.seq
    <3>1. "retired" \in Terminal
      BY DEF Terminal
    <3>2. CASE b = proj.box
      BY <1>5, <3>2
    <3>3. CASE b = Retire(proj.box, q, "retired", e.rev)
      BY <1>5, <3>1, <3>3, RetireOK
    <3> QED
      BY <2>7, <3>2, <3>3
  <2>9. PICK f : f = [proj EXCEPT !.rel = [@ EXCEPT ![q] = r], !.ops = o, !.box = b]
    OBVIOUS
  <2>10. FoldRelationship(proj, s, e) = f
    <3>1. FoldRelationship(proj, s, e) = Opened(proj, s, e)
      BY <1>10 DEF FoldRelationship
    <3> QED
      BY <1>3, <1>4, <1>5, <2>1, <2>3, <2>5, <2>7, <2>9, <3>1 DEF Opened, Projection
  <2>12. EndsAsked(q, r)
    BY <2>4 DEF EndsAsked
  <2>11. Nearly(f, s) /\ Asked(f)
    BY <1>3, <1>5, <2>2, <2>4, <2>6, <2>8, <2>9, <2>12, RelStep
  <2> QED
    BY <1>1, <2>10, <2>11
<1> QED
  BY <1>7, <1>8, <1>9, <1>10

LEMMA FoldOK ==
  ASSUME IInv, NEW s, s = proj.cursor + 1, s <= Len(log)
  PROVE  LET n == Fold(proj, log, s) IN Fits(n, Len(log)) /\ Asked(n)
<1>1. PICK f : /\ Fold(proj, log, s) = [f EXCEPT !.cursor = s]
               /\ f = IF s <= proj.boundary THEN proj
                      ELSE IF log[s].kind = "fact" THEN Derive(proj, log, {s}, Participant, FALSE)
                      ELSE FoldRelationship(proj, s, log[s])
  BY DEF Fold
<1>2. Nearly(f, s) /\ Asked(f)
  <2>1. CASE s <= proj.boundary
    BY <1>1, <2>1, NextEvent
  <2>2. CASE ~(s <= proj.boundary) /\ log[s].kind = "fact"
    <3>1. PICK S : S = {s}
      OBVIOUS
    <3>2. PICK P \in SUBSET Participant : P = Participant
      OBVIOUS
    <3>3. S \subseteq 1 .. MaxLog /\ proj \in Projection
      BY <3>1, NextEvent
    <3>4. \A i \in S : log[i] \in LedgerEvent
      BY <3>1, NextEvent
    <3>5. DerivedFrom(proj, S, Derive(proj, log, S, P, FALSE))
      BY <3>2, <3>3, <3>4, DeriveOK
    <3>6. DerivedFrom(proj, S, f)
      BY <1>1, <2>2, <3>1, <3>2, <3>5
    <3>7. Nearly(proj, s) /\ Asked(proj) /\ s <= s
      BY NextEvent
    <3> QED
      BY <3>1, <3>6, <3>7 DEF DerivedFrom, Nearly, Asked
  <2>3. CASE ~(s <= proj.boundary) /\ log[s].kind # "fact"
    <3>1. s > Len(Inherited)
      BY <2>3, NextEvent, InheritedAssumption DEF IInv, Fits
    <3> QED
      BY <1>1, <2>3, <3>1, FoldRelationshipOK
  <2> QED
    BY <2>1, <2>2, <2>3
<1>3. PICK n : n = [f EXCEPT !.cursor = s]
  OBVIOUS
<1>4. s \in 0 .. MaxLog
  BY NextEvent
<1>5. n \in Projection /\ n.cursor = s /\ n.boundary = f.boundary /\ n.rel = f.rel /\ n.box = f.box
  BY <1>2, <1>3, <1>4 DEF Nearly, Projection
<1>6. n = Fold(proj, log, s)
  BY <1>1, <1>3
<1>7. Fits(n, Len(log))
  BY <1>2, <1>5 DEF Fits, Nearly
<1>8. Asked(n)
  BY <1>2, <1>5 DEF Asked
<1> QED
  BY <1>6, <1>7, <1>8

-----------------------------------------------------------------------------
(* Steps *)

\* what EndedByOwner says of one step
EndsOwned == upgrades' = upgrades => Asked(proj')

Slips == [seq : 1 .. MaxLog, p : Participant]

\* everything but the log and the projection
Others ==
  /\ held \in [Participant -> Task \cup {NoTask}] /\ writer \in Task \cup {NoTask}
  /\ streams \in [Session -> Nat]
  /\ answered \subseteq [p : Participant, op : Op, rev : Nat]
  /\ slipped \subseteq Slips
  /\ faults \in 0 .. MaxFault /\ upgrades \in 0 .. MaxUpgrade

LEMMA Kept ==
  ASSUME IInv
  PROVE  /\ Fits(proj, Len(log)) /\ Asked(proj) /\ Others /\ proj \in Projection
         /\ log \in Seq(LedgerEvent) /\ Len(log) \in Nat /\ MaxLog \in Nat /\ Len(log) \in 0 .. MaxLog
         /\ proj.cursor \in 0 .. Len(log) /\ proj.cursor \in 0 .. MaxLog /\ proj.cursor + 1 \in 1 .. MaxLog + 1
         /\ task \in [Task -> Running] /\ asked \subseteq [p : Participant, rev : Nat]
         /\ done \subseteq [seq : 1 .. Len(log), p : Agent]
<1>1. log \in Seq(LedgerEvent) /\ Len(log) \in Nat /\ MaxLog \in Nat /\ Len(log) <= MaxLog
  BY LimitAssumption DEF IInv, TypeOK
<1>2. proj.cursor \in 0 .. MaxLog /\ proj.cursor <= Len(log)
  BY DEF IInv, TypeOK, Projection
<1>3. Asked(proj)
  BY Zenon DEF Asked
<1>4. Others
  BY DEF Others, IInv, TypeOK, Slips
<1> QED
  BY <1>1, <1>2, <1>3, <1>4 DEF IInv, TypeOK

LEMMA LogStays ==
  ASSUME IInv, UNCHANGED log, Fits(proj', Len(log)), asked \subseteq asked',
         asked' \subseteq [p : Participant, rev : Nat],
         task' \in [Task -> Running], (\A t \in Task : Sound(task[t]))',
         Others', done' \subseteq [seq : 1 .. Len(log), p : Agent]
  PROVE  IInv'
<1>1. TypeOK'
  BY Kept DEF TypeOK, Fits, Others, Slips
<1>2. Fits(proj, Len(log))'
  BY DEF Fits
<1>3. (\A i \in DOMAIN log : i > Len(Inherited) => Owned(log[i]))'
  BY Kept DEF IInv, Owned
<1> QED
  BY <1>1, <1>2, <1>3 DEF IInv

\* a step of one handler
Handles(t, h) ==
  /\ task' = [task EXCEPT ![t] = h] /\ h \in Running /\ Sound(h)
  /\ UNCHANGED <<log, asked, faults, upgrades>>

LEMMA HandlerStep ==
  ASSUME IInv, NEW t \in Task, NEW h, Handles(t, h), Fits(proj', Len(log)), Asked(proj'), Others',
         done' \subseteq [seq : 1 .. Len(log), p : Agent]
  PROVE  IInv' /\ EndsOwned
<1>1. h \in Running /\ Sound(h) /\ task' = [task EXCEPT ![t] = h] /\ UNCHANGED <<log, asked>>
  BY DEF Handles
<1>2. task' \in [Task -> Running] /\ \A q \in Task : task'[q] = IF q = t THEN h ELSE task[q]
  BY <1>1, Kept
<1>3. \A q \in Task : Sound(task'[q])
  BY <1>1, <1>2 DEF IInv
<1>4. (\A q \in Task : Sound(task[q]))'
  BY <1>1, <1>3 DEF Sound, Owned
<1>5. asked' \subseteq [p : Participant, rev : Nat] /\ asked \subseteq asked'
  BY <1>1, Kept
<1>6. IInv'
  BY <1>1, <1>2, <1>4, <1>5, LogStays
<1> QED
  BY <1>6 DEF EndsOwned

LEMMA HandlerAlone ==
  ASSUME IInv, NEW t \in Task, NEW h, Handles(t, h), UNCHANGED <<proj, answered, done>>,
         slipped' \subseteq Slips,
         held' \in [Participant -> Task \cup {NoTask}], writer' \in Task \cup {NoTask},
         streams' \in [Session -> Nat]
  PROVE  IInv' /\ EndsOwned
<1>1. Others'
  BY Kept DEF Others, Handles
<1>2. Fits(proj', Len(log)) /\ Asked(proj') /\ done' \subseteq [seq : 1 .. Len(log), p : Agent]
  BY Kept
<1> QED
  BY <1>1, <1>2, HandlerStep

LEMMA FactOK ==
  ASSUME NEW to \in SUBSET Agent
  PROVE  Fact(to) \in LedgerEvent /\ Fact(to).kind = "fact"
<1>1. 0 \in 0 .. MaxLog
  BY LimitAssumption
<1> QED
  BY <1>1 DEF Fact, LedgerEvent, Route

LEMMA IdleOK ==
  ASSUME IInv
  PROVE  /\ Idle \in Running /\ Sound(Idle)
         /\ Idle.pc = "idle" /\ Idle.kind = "derive" /\ Idle.ev = Fact({}) /\ Idle.p = NoOne
<1>1. Fact({}) \in LedgerEvent /\ Fact({}).kind = "fact"
  BY FactOK
<1>2. 0 \in 0 .. MaxLog /\ 1 \in 1 .. MaxLog + 1 /\ 0 <= Len(log)
  BY Kept
<1>3. Idle \in Running /\ Idle.pc = "idle" /\ Idle.kind = "derive" /\ Idle.ev = Fact({}) /\ Idle.p = NoOne
      /\ Idle.app = 0 /\ Idle.batch = 0
  BY <1>1, <1>2 DEF Idle, Running
<1> QED
  BY <1>1, <1>2, <1>3 DEF Sound, Owned

\* a handler that starts for participant p
LEMMA HandlingOK ==
  ASSUME IInv, NEW kind \in Handler \cup {"derive", "close"}, NEW p \in Participant \cup {NoOne}
  PROVE  LET h == Handling(kind, p) IN
         /\ h \in Running /\ h.kind = kind /\ h.p = p /\ h.pc = "idle" /\ h.ev = Fact({})
         /\ h.app = 0 /\ h.batch = 0
<1>1. Idle \in Running /\ Idle.pc = "idle" /\ Idle.ev = Fact({})
  BY IdleOK
<1>2. Idle.app = 0 /\ Idle.batch = 0
  BY DEF Idle
<1> QED
  BY <1>1, <1>2 DEF Handling, Running

\* a handler goes on at another point
LEMMA PcOK ==
  ASSUME NEW h \in Running, NEW pc \in {"idle", "lock", "derive", "queued", "closing", "rejoined", "opening"}
  PROVE  LET n == [h EXCEPT !.pc = pc] IN
         /\ n \in Running /\ n.pc = pc /\ n.kind = h.kind /\ n.p = h.p /\ n.op = h.op /\ n.rev = h.rev
         /\ n.ev = h.ev /\ n.app = h.app /\ n.batch = h.batch
BY DEF Running

LEMMA DerivingOK ==
  ASSUME IInv, NEW h \in Running, NEW app \in 0 .. MaxLog
  PROVE  LET n == Deriving(h, app) IN
         /\ n \in Running /\ n.pc = "derive" /\ n.kind = h.kind /\ n.p = h.p /\ n.op = h.op /\ n.rev = h.rev
         /\ n.ev = h.ev /\ n.app = app /\ n.batch = 0
<1>1. PICK s \in SUBSET [p : Participant, after : 0 .. MaxLog, through : 0 .. MaxLog] : s = Pending(proj)
  BY Kept, PendingOK
<1>2. 0 \in 0 .. MaxLog /\ 1 \in 1 .. MaxLog + 1
  BY Kept
<1> QED
  BY <1>1, <1>2 DEF Deriving, Running

LEMMA DerivingSound ==
  ASSUME IInv, NEW h \in Running, Sound(h)
  PROVE  Deriving(h, 0) \in Running /\ Sound(Deriving(h, 0))
<1>1. 0 \in 0 .. MaxLog /\ 0 <= Len(log)
  BY Kept
<1>2. PICK n : n = Deriving(h, 0)
  OBVIOUS
<1>3. /\ n \in Running /\ n.pc = "derive" /\ n.kind = h.kind /\ n.p = h.p /\ n.op = h.op /\ n.rev = h.rev
      /\ n.ev = h.ev /\ n.app = 0 /\ n.batch = 0
  BY <1>1, <1>2, DerivingOK
<1>4. Sound(n)
  BY <1>1, <1>3 DEF Sound
<1> QED
  BY <1>2, <1>3, <1>4

\* another point of the same handler asks nothing but the kind it is for
LEMMA PcSound ==
  ASSUME NEW h \in Running, Sound(h),
         NEW pc \in {"idle", "lock", "derive", "queued", "closing", "rejoined", "opening"},
         pc = "lock" => h.kind \in {"join", "leave", "detach"},
         pc = "rejoined" => h.kind = "join", pc = "opening" => h.kind = "open"
  PROVE  [h EXCEPT !.pc = pc] \in Running /\ Sound([h EXCEPT !.pc = pc])
<1>1. PICK n : n = [h EXCEPT !.pc = pc]
  OBVIOUS
<1>2. /\ n \in Running /\ n.pc = pc /\ n.kind = h.kind /\ n.p = h.p /\ n.op = h.op /\ n.rev = h.rev
      /\ n.ev = h.ev /\ n.app = h.app /\ n.batch = h.batch
  BY <1>1 DEF Running
<1>3. Sound(n)
  BY <1>2 DEF Sound
<1> QED
  BY <1>1, <1>2, <1>3

LEMMA MyTask ==
  ASSUME IInv, NEW t \in Task
  PROVE  task[t] \in Running /\ Sound(task[t])
BY Kept DEF IInv

\* the handler ends
LEMMA FinishStep ==
  ASSUME IInv, NEW t \in Task, Finish(t), UNCHANGED <<log, proj, history, faults, upgrades>>
  PROVE  IInv' /\ EndsOwned
<1>1. Handles(t, Idle) /\ UNCHANGED <<proj, answered, slipped, done, streams>>
  BY IdleOK DEF Handles, Finish, history
<1>2. /\ held' \in [Participant -> Task \cup {NoTask}] /\ writer' \in Task \cup {NoTask}
      /\ streams' \in [Session -> Nat]
  BY <1>1, Kept DEF Finish, Others
<1> QED
  BY <1>1, <1>2, HandlerAlone, Kept DEF Others

LEMMA EndsStep ==
  ASSUME IInv, NEW t \in Task, Ends(t) PROVE IInv' /\ EndsOwned
BY FinishStep DEF Ends, bounds

LEMMA GoesStep ==
  ASSUME IInv, NEW t \in Task, NEW h, h \in Running, Sound(h), task' = [task EXCEPT ![t] = h],
         UNCHANGED <<log, proj, held, writer, streams, history, bounds>>
  PROVE  IInv' /\ EndsOwned
<1>1. Handles(t, h) /\ UNCHANGED <<proj, answered, slipped, done, held, writer, streams>>
  BY DEF Handles, history, bounds
<1>2. /\ held' \in [Participant -> Task \cup {NoTask}] /\ writer' \in Task \cup {NoTask}
      /\ streams' \in [Session -> Nat]
  BY <1>1, Kept DEF Others
<1> QED
  BY <1>1, <1>2, HandlerAlone, Kept DEF Others

LEMMA HandlingSound ==
  ASSUME IInv, NEW kind \in Handler \cup {"derive", "close"}, NEW p \in Participant \cup {NoOne},
         kind \notin {"join", "leave"}, kind \in {"detach", "update"} => p \in Participant,
         kind \in {"open", "close"} => p \in Session
  PROVE  Handling(kind, p) \in Running /\ Sound(Handling(kind, p))
<1>1. PICK h : h = Handling(kind, p)
  OBVIOUS
<1>2. /\ h \in Running /\ h.kind = kind /\ h.p = p /\ h.pc = "idle" /\ h.ev = Fact({})
      /\ h.app = 0 /\ h.batch = 0
  BY <1>1, HandlingOK
<1>3. Fact({}).kind = "fact" /\ 0 <= Len(log)
  BY FactOK, Kept
<1>4. Owned(h.ev)
  BY <1>2, <1>3 DEF Owned
<1>5. Sound(h)
  BY <1>2, <1>3, <1>4 DEF Sound
<1> QED
  BY <1>1, <1>2, <1>5

\* a handler that waits for its participant
LEMMA WaitingOK ==
  ASSUME IInv, NEW kind \in Handler, kind \in {"join", "leave", "detach"}, NEW p \in Participant
  PROVE  LET h == Waiting(kind, p) IN
         /\ h \in Running /\ h.kind = kind /\ h.p = p /\ h.pc = "lock"
         /\ Owned(h.ev) /\ h.app = 0 /\ h.batch = 0
<1>1. PICK h : h = Handling(kind, p)
  OBVIOUS
<1>2. /\ h \in Running /\ h.kind = kind /\ h.p = p /\ h.ev = Fact({})
      /\ h.app = 0 /\ h.batch = 0
  BY <1>1, HandlingOK
<1>3. PICK n : n = [h EXCEPT !.pc = "lock"]
  OBVIOUS
<1>4. /\ n \in Running /\ n.pc = "lock" /\ n.kind = h.kind /\ n.p = h.p
      /\ n.ev = h.ev /\ n.app = h.app /\ n.batch = h.batch
  BY <1>2, <1>3, PcOK
<1>5. Owned(n.ev)
  BY <1>2, <1>4, FactOK DEF Owned
<1>6. n = Waiting(kind, p)
  BY <1>1, <1>3 DEF Waiting
<1> QED
  BY <1>2, <1>4, <1>5, <1>6

\* a handler that starts and asks for no leave
LEMMA BeginStep ==
  ASSUME IInv, NEW t \in Task, NEW h \in Running, Sound(h), Begin(t, h), UNCHANGED <<asked, streams>>
  PROVE  IInv' /\ EndsOwned
<1>1. /\ task' = [task EXCEPT ![t] = h]
      /\ UNCHANGED <<log, proj, held, writer, streams, history, bounds>>
  BY DEF Begin, history, bounds
<1> QED
  BY <1>1, GoesStep

LEMMA JoinStep ==
  ASSUME IInv, NEW t \in Task, NEW p \in Agent, NEW op \in Op, Join(t, p, op)
  PROVE  IInv' /\ EndsOwned
<1>1. PICK w : w = Waiting("join", p)
  OBVIOUS
<1>2. PICK h : h = [w EXCEPT !.op = op]
  OBVIOUS
<1>3. Begin(t, h) /\ UNCHANGED <<asked, streams>>
  BY <1>1, <1>2 DEF Join
<1>4. "join" \in Handler
  <2>1. h.kind = "join"
    BY <1>1, <1>2 DEF Waiting, Handling, Idle
  <2> QED
    BY <1>3, <2>1 DEF Begin
<1>5. /\ w \in Running /\ w.kind = "join" /\ w.p = p /\ w.pc = "lock"
      /\ Owned(w.ev) /\ w.app = 0 /\ w.batch = 0 /\ p \in Participant
  BY <1>1, <1>4, WaitingOK DEF Agent
<1>6. /\ h \in Running /\ h.kind = "join" /\ h.p = p /\ h.pc = "lock" /\ h.op = op
      /\ h.ev = w.ev /\ h.app = 0 /\ h.batch = 0
  BY <1>2, <1>5 DEF Running
<1>7. 0 <= Len(log)
  BY Kept
<1>8. Sound(h)
  BY <1>5, <1>6, <1>7 DEF Sound
<1> QED
  BY <1>3, <1>6, <1>8, BeginStep

LEMMA LeaveStep ==
  ASSUME IInv, NEW t \in Task, NEW x \in answered, Leave(t, x.p, x.rev)
  PROVE  IInv' /\ EndsOwned
<1>1. PICK w : w = Waiting("leave", x.p)
  OBVIOUS
<1>2. PICK h : h = [w EXCEPT !.rev = x.rev]
  OBVIOUS
<1>3. Begin(t, h) /\ asked' = asked \cup {[p |-> x.p, rev |-> x.rev]} /\ UNCHANGED streams
  BY <1>1, <1>2 DEF Leave
<1>4. "leave" \in Handler
  <2>1. h.kind = "leave"
    BY <1>1, <1>2 DEF Waiting, Handling, Idle
  <2> QED
    BY <1>3, <2>1 DEF Begin
<1>5. x.p \in Participant /\ x.rev \in Nat
  BY DEF IInv, TypeOK
<1>6. /\ w \in Running /\ w.kind = "leave" /\ w.p = x.p /\ w.pc = "lock"
      /\ Owned(w.ev) /\ w.app = 0 /\ w.batch = 0
  BY <1>1, <1>4, <1>5, WaitingOK
<1>7. /\ h \in Running /\ h.kind = "leave" /\ h.p = x.p /\ h.pc = "lock" /\ h.rev = x.rev
      /\ h.ev = w.ev /\ h.app = 0 /\ h.batch = 0
  BY <1>2, <1>5, <1>6 DEF Running
<1>8. /\ task' = [task EXCEPT ![t] = h]
      /\ UNCHANGED <<log, proj, held, writer, streams, answered, slipped, done, faults, upgrades>>
  BY <1>3 DEF Begin, bounds
<1>9. task' \in [Task -> Running] /\ \A q \in Task : task'[q] = IF q = t THEN h ELSE task[q]
  BY <1>7, <1>8, Kept
<1>10. ASSUME NEW e, Owned(e) PROVE Owned(e)'
  BY <1>3, <1>10 DEF Owned
<1>11. (\A q \in Task : Sound(task[q]))'
  <2>1. SUFFICES ASSUME NEW q \in Task PROVE Sound(task[q])'
    OBVIOUS
  <2>2. CASE q = t
    <3>1. Owned(h.ev)
      BY <1>6, <1>7
    <3>2. Owned(task[q].ev)'
      BY <1>3, <1>9, <2>2, <3>1 DEF Owned
    <3>3. 0 <= Len(log)
      BY Kept
    <3> QED
      BY <1>3, <1>5, <1>7, <1>8, <1>9, <2>2, <3>2, <3>3 DEF Sound
  <2>3. CASE q # t
    <3>1. Sound(task[q]) /\ task'[q] = task[q]
      BY <1>9, <2>3, MyTask
    <3>2. Owned(task[q].ev)'
      BY <1>3, <3>1 DEF Sound, Owned
    <3> QED
      BY <1>3, <1>8, <3>1, <3>2 DEF Sound
  <2> QED
    BY <2>2, <2>3
<1>12. Others'
  BY <1>8, Kept DEF Others
<1>13. /\ asked \subseteq asked' /\ asked' \subseteq [p : Participant, rev : Nat]
       /\ Fits(proj', Len(log)) /\ done' \subseteq [seq : 1 .. Len(log), p : Agent]
  BY <1>3, <1>5, <1>8, Kept
<1>14. IInv'
  BY <1>8, <1>9, <1>11, <1>12, <1>13, LogStays
<1>15. Asked(proj')
  BY <1>8, <1>13, Kept DEF Asked
<1> QED
  BY <1>14, <1>15 DEF EndsOwned

LEMMA DetachStep ==
  ASSUME IInv, NEW t \in Task, NEW p \in Agent, Detach(t, p)
  PROVE  IInv' /\ EndsOwned
<1>1. PICK h : h = Waiting("detach", p)
  OBVIOUS
<1>2. Begin(t, h) /\ UNCHANGED <<asked, streams>>
  BY <1>1 DEF Detach
<1>3. "detach" \in Handler
  <2>1. h.kind = "detach"
    BY <1>1 DEF Waiting, Handling, Idle
  <2> QED
    BY <1>2, <2>1 DEF Begin
<1>4. /\ h \in Running /\ h.kind = "detach" /\ h.p = p /\ h.pc = "lock"
      /\ Owned(h.ev) /\ h.app = 0 /\ h.batch = 0 /\ p \in Participant
  BY <1>1, <1>3, WaitingOK DEF Agent
<1>5. 0 <= Len(log)
  BY Kept
<1>6. Sound(h)
  BY <1>4, <1>5 DEF Sound
<1> QED
  BY <1>2, <1>4, <1>6, BeginStep

\* handlers that derive first and take no lock
LEMMA BeginDerivingStep ==
  ASSUME IInv, NEW t \in Task, NEW kind, NEW p \in Participant \cup {NoOne},
         kind \in {"update", "open", "derive"}, kind = "update" => p \in Participant,
         kind = "open" => p \in Session,
         Begin(t, Deriving(Handling(kind, p), 0)), UNCHANGED <<asked, streams>>
  PROVE  IInv' /\ EndsOwned
<1>1. kind \in Handler
  <2>1. Deriving(Handling(kind, p), 0).kind = kind
    BY DEF Deriving, Handling, Idle
  <2> QED
    BY <2>1 DEF Begin
<1>2. Handling(kind, p) \in Running /\ Sound(Handling(kind, p))
  BY <1>1, HandlingSound
<1>3. Deriving(Handling(kind, p), 0) \in Running /\ Sound(Deriving(Handling(kind, p), 0))
  BY <1>2, DerivingSound
<1> QED
  BY <1>3, BeginStep

LEMMA PublishStep ==
  ASSUME IInv, NEW t \in Task, NEW to \in SUBSET Agent, Publish(t, to)
  PROVE  IInv' /\ EndsOwned
<1>1. PICK h : h = [Idle EXCEPT !.pc = "queued", !.kind = "publish", !.ev = Fact(to)]
  OBVIOUS
<1>2. Begin(t, h) /\ UNCHANGED <<asked, streams>>
  BY <1>1 DEF Publish
<1>3. "publish" \in Handler
  <2>1. h.kind = "publish"
    BY <1>1 DEF Idle
  <2> QED
    BY <1>2, <2>1 DEF Begin
<1>4. Idle \in Running /\ Fact(to) \in LedgerEvent /\ Fact(to).kind = "fact"
  BY IdleOK, FactOK
<1>5. h.app = 0 /\ h.batch = 0 /\ 0 <= Len(log)
  BY <1>1, Kept DEF Idle
<1>6. h \in Running /\ h.pc = "queued" /\ h.kind = "publish" /\ h.ev = Fact(to)
  BY <1>1, <1>3, <1>4 DEF Running
<1>7. Sound(h)
  BY <1>4, <1>5, <1>6 DEF Sound, Owned
<1> QED
  BY <1>2, <1>6, <1>7, BeginStep

LEMMA UnsubscribeStep ==
  ASSUME IInv, NEW t \in Task, NEW p \in Session, Unsubscribe(t, p)
  PROVE  IInv' /\ EndsOwned
<1>1. PICK n : n = IF streams[p] = 0 THEN 0 ELSE streams[p] - 1
  OBVIOUS
<1>2. streams \in [Session -> Nat]
  BY Kept DEF Others
<1>3. n \in Nat
  BY <1>1, <1>2
<1>4. /\ "close" \in Handler /\ streams' = [streams EXCEPT ![p] = n]
      /\ task' = IF n > 0 THEN task
                 ELSE [task EXCEPT ![t] = [Handling("close", p) EXCEPT !.pc = "closing"]]
      /\ UNCHANGED <<log, proj, held, writer, history, bounds>>
  BY <1>1 DEF Unsubscribe
<1>5. streams' \in [Session -> Nat]
  BY <1>2, <1>3, <1>4
<1>6. Handling("close", p) \in Running /\ Sound(Handling("close", p))
  BY HandlingSound, SessionAssumption
<1>7. /\ [Handling("close", p) EXCEPT !.pc = "closing"] \in Running
      /\ Sound([Handling("close", p) EXCEPT !.pc = "closing"])
  BY <1>6, PcSound
<1>8. task[t] \in Running /\ Sound(task[t]) /\ [task EXCEPT ![t] = task[t]] = task
  BY MyTask, Kept
<1>9. PICK h : h \in Running /\ Sound(h) /\ task' = [task EXCEPT ![t] = h]
  BY <1>4, <1>7, <1>8
<1>10. Handles(t, h) /\ UNCHANGED <<proj, answered, slipped, done, held, writer>>
  BY <1>4, <1>9 DEF Handles, history, bounds
<1>11. held' \in [Participant -> Task \cup {NoTask}] /\ writer' \in Task \cup {NoTask}
  BY <1>10, Kept DEF Others
<1> QED
  BY <1>5, <1>10, <1>11, HandlerAlone, Kept DEF Others

LEMMA CountsResponsesStep ==
  ASSUME IInv, NEW t \in Task, CountsResponses(t)
  PROVE  IInv' /\ EndsOwned
<1>1. CASE Ends(t)
  BY <1>1, EndsStep
<1>2. CASE /\ task' = [task EXCEPT ![t] = Deriving(@, 0)]
           /\ UNCHANGED <<log, proj, held, writer, streams, history, bounds>>
  <2>1. PICK h : h = Deriving(task[t], 0)
    OBVIOUS
  <2>2. h \in Running /\ Sound(h)
    BY <2>1, MyTask, DerivingSound
  <2>3. task' = [task EXCEPT ![t] = h]
    BY <1>2, <2>1
  <2> QED
    BY <1>2, <2>2, <2>3, GoesStep
<1> QED
  BY <1>1, <1>2 DEF CountsResponses

LEMMA AcquireStep ==
  ASSUME IInv, NEW t \in Task, Acquire(t)
  PROVE  IInv' /\ EndsOwned
<1>1. PICK h : h = Deriving(task[t], 0)
  OBVIOUS
<1>2. h \in Running /\ Sound(h)
  BY <1>1, MyTask, DerivingSound
<1>3. task' = [task EXCEPT ![t] = h]
  BY <1>1 DEF Acquire
<1>4. Handles(t, h) /\ UNCHANGED <<proj, answered, slipped, done, writer, streams>>
  BY <1>2, <1>3 DEF Handles, Acquire, history, bounds
<1>5. /\ held' \in [Participant -> Task \cup {NoTask}] /\ writer' \in Task \cup {NoTask}
      /\ streams' \in [Session -> Nat]
  BY <1>4, Kept DEF Acquire, Others
<1> QED
  BY <1>4, <1>5, HandlerAlone, Kept DEF Others

LEMMA DisconnectStep ==
  ASSUME IInv, NEW p \in Session, Disconnect(p)
  PROVE  IInv' /\ EndsOwned
<1>1. streams \in [Session -> Nat]
  BY Kept DEF Others
<1>2. streams' \in [Session -> Nat]
  BY <1>1 DEF Disconnect
<1>3. UNCHANGED <<log, proj, task, held, writer, answered, slipped, asked, done, faults, upgrades>>
  BY DEF Disconnect, history, bounds
<1>4. Others'
  BY <1>2, <1>3, Kept DEF Others
<1>5. (\A q \in Task : Sound(task[q]))'
  <2>1. \A q \in Task : Sound(task[q])
    BY DEF IInv
  <2> QED
    BY <1>3, <2>1 DEF Sound, Owned
<1>6. IInv'
  BY <1>3, <1>4, <1>5, Kept, LogStays
<1>7. Asked(proj')
  BY <1>3, Kept
<1> QED
  BY <1>6, <1>7 DEF EndsOwned

\* what a derivation keeps of its own
Pages == SUBSET [p : Participant, after : 0 .. MaxLog, through : 0 .. MaxLog]

LEMMA PagesSound ==
  ASSUME IInv, NEW t \in Task, NEW b \in 0 .. MaxLog, b <= Len(log), NEW n \in 1 .. MaxLog + 1,
         NEW s \in Pages
  PROVE  LET h == [task[t] EXCEPT !.batch = b, !.next = n, !.snap = s] IN h \in Running /\ Sound(h)
<1>1. PICK h : h = [task[t] EXCEPT !.batch = b, !.next = n, !.snap = s]
  OBVIOUS
<1>2. task[t] \in Running /\ Sound(task[t])
  BY MyTask
<1>3. /\ h \in Running /\ h.pc = task[t].pc /\ h.kind = task[t].kind /\ h.p = task[t].p
      /\ h.op = task[t].op /\ h.rev = task[t].rev /\ h.ev = task[t].ev /\ h.app = task[t].app
      /\ h.batch = b
  BY <1>1, <1>2 DEF Running, Pages
<1>4. Sound(h)
  BY <1>2, <1>3 DEF Sound
<1> QED
  BY <1>1, <1>3, <1>4

\* ... at the fields as they are
LEMMA MyPages ==
  ASSUME IInv, NEW t \in Task
  PROVE  /\ task[t].batch \in 0 .. MaxLog /\ task[t].batch <= Len(log) /\ task[t].next \in 1 .. MaxLog + 1
         /\ task[t].app \in 0 .. MaxLog /\ task[t].app <= Len(log) /\ task[t].snap \in Pages
<1>1. task[t] \in Running /\ Sound(task[t])
  BY MyTask
<1> QED
  BY <1>1 DEF Running, Sound, Pages

\* a handler goes on with a projection that ends what was asked to end
LEMMA DerivesStep ==
  ASSUME IInv, NEW t \in Task, NEW b \in 0 .. MaxLog, b <= Len(log), NEW n \in 1 .. MaxLog + 1,
         NEW s \in Pages,
         task' = [task EXCEPT ![t] = [task[t] EXCEPT !.batch = b, !.next = n, !.snap = s]],
         UNCHANGED <<log, held, writer, streams, answered, asked, done, bounds>>,
         slipped' \subseteq Slips, Fits(proj', Len(log)), Asked(proj')
  PROVE  IInv' /\ EndsOwned
<1>1. PICK h : h = [task[t] EXCEPT !.batch = b, !.next = n, !.snap = s]
  OBVIOUS
<1>2. h \in Running /\ Sound(h)
  BY <1>1, PagesSound
<1>3. Handles(t, h) /\ UNCHANGED <<answered, done, held, writer, streams>>
  BY <1>1, <1>2 DEF Handles, bounds
<1>4. Others'
  BY <1>3, Kept DEF Others, Handles
<1>5. done' \subseteq [seq : 1 .. Len(log), p : Agent]
  BY <1>3, Kept
<1> QED
  BY <1>3, <1>4, <1>5, HandlerStep

LEMMA PageOfOK ==
  ASSUME NEW x \in [p : Participant, after : 0 .. MaxLog, through : 0 .. MaxLog]
  PROVE  /\ PageOf(x) \in [p : Participant, after : 0 .. MaxLog, through : 0 .. MaxLog]
         /\ PageOf(x).p = x.p /\ PageOf(x).after = x.after /\ PageOf(x).through <= x.through
         /\ x.after < x.through => x.after < PageOf(x).through
         /\ x.after >= x.through => PageOf(x) = x
<1>1. PICK m : m = IF x.after + Page < x.through THEN x.after + Page ELSE x.through
  OBVIOUS
<1>2. /\ m \in 0 .. MaxLog /\ m <= x.through /\ (x.after < x.through => x.after < m)
      /\ (x.after >= x.through => m = x.through)
  BY <1>1, LimitAssumption
<1>3. PageOf(x) = [x EXCEPT !.through = m]
  BY <1>1 DEF PageOf
<1>4. /\ [x EXCEPT !.through = m] \in [p : Participant, after : 0 .. MaxLog, through : 0 .. MaxLog]
      /\ [x EXCEPT !.through = m].p = x.p /\ [x EXCEPT !.through = m].after = x.after
      /\ [x EXCEPT !.through = m].through = m
  BY <1>2
<1>5. m = x.through => [x EXCEPT !.through = m] = x
  OBVIOUS
<1> QED
  BY <1>2, <1>3, <1>4, <1>5

LEMMA SkippedOK ==
  ASSUME IInv, NEW x \in [p : Participant, after : 0 .. MaxLog, through : 0 .. MaxLog]
  PROVE  Skipped(x) \subseteq Slips
<1>1. SUFFICES ASSUME proj.rel[x.p].gap # <<>>
               PROVE  {[seq |-> s, p |-> x.p] : s \in proj.rel[x.p].gap[1] + 1 .. x.after} \subseteq Slips
  BY DEF Skipped
<1>2. proj.rel[x.p].gap[1] \in 0 .. MaxLog /\ x.after \in 0 .. MaxLog /\ MaxLog \in Nat
  BY <1>1, LimitAssumption DEF IInv, TypeOK, Projection, Relationship, Gap
<1> QED
  BY <1>2 DEF Slips

LEMMA ResumeBackfillStep ==
  ASSUME IInv, NEW t \in Task, ResumeBackfill(t)
  PROVE  IInv' /\ EndsOwned
<1>1. PICK x \in task[t].snap :
        /\ proj' = IF x.after >= x.through
                     THEN CompleteEmptyReattachBackfill(proj, x.p)
                     ELSE AdvanceReattachBackfill(proj, log, PageOf(x))
        /\ slipped' = slipped \cup Skipped(x)
        /\ task' = [task EXCEPT ![t].snap = (@ \ {x}) \cup
                      IF PageOf(x) = x THEN {} ELSE {[x EXCEPT !.after = PageOf(x).through]}]
  BY DEF ResumeBackfill
<1>2. x \in [p : Participant, after : 0 .. MaxLog, through : 0 .. MaxLog]
  BY MyPages DEF Pages
<1>3. Fits(proj', Len(log)) /\ Lasts(proj, proj')
  <2>1. CASE proj' = CompleteEmptyReattachBackfill(proj, x.p)
    BY <1>2, <2>1, Kept, CompleteEmptyOK
  <2>2. CASE proj' = AdvanceReattachBackfill(proj, log, PageOf(x))
    BY <1>2, <2>2, PageOfOK, AdvanceOK
  <2> QED
    BY <1>1, <2>1, <2>2
<1>4. Asked(proj')
  BY <1>3, Kept DEF Lasts, Asked, Agent
<1>5. PICK b, n, s : /\ b = task[t].batch /\ n = task[t].next
                     /\ s = (task[t].snap \ {x}) \cup
                              IF PageOf(x) = x THEN {} ELSE {[x EXCEPT !.after = PageOf(x).through]}
  OBVIOUS
<1>6. b \in 0 .. MaxLog /\ b <= Len(log) /\ n \in 1 .. MaxLog + 1 /\ s \in Pages
  <2>1. [x EXCEPT !.after = PageOf(x).through] \in [p : Participant, after : 0 .. MaxLog, through : 0 .. MaxLog]
    BY <1>2, PageOfOK
  <2> QED
    BY <1>5, <2>1, MyPages DEF Pages
<1>7. task[t] \in Running /\ task \in [Task -> Running]
  BY Kept
<1>8. task' = [task EXCEPT ![t] = [task[t] EXCEPT !.batch = b, !.next = n, !.snap = s]]
  <2>1. [task[t] EXCEPT !.batch = b, !.next = n, !.snap = s] = [task[t] EXCEPT !.snap = s]
    BY <1>5, <1>7 DEF Running
  <2> QED
    BY <1>1, <1>5, <2>1
<1>9. slipped' \subseteq Slips
  BY <1>1, <1>2, SkippedOK, Kept DEF Others
<1> QED
  BY <1>3, <1>4, <1>6, <1>8, <1>9, DerivesStep DEF ResumeBackfill

LEMMA FoldsNextStep ==
  ASSUME IInv, NEW t \in Task, NEW s, s <= Len(log), FoldsNext(t, s)
  PROVE  IInv' /\ EndsOwned
<1>1. s = proj.cursor + 1 /\ proj' = Fold(proj, log, s)
  BY DEF FoldsNext, CanFold
<1>2. Fits(proj', Len(log)) /\ Asked(proj')
  BY <1>1, FoldOK
<1>3. PICK b, n, q : b = task[t].batch /\ n = s + 1 /\ q = Pending(proj')
  OBVIOUS
<1>4. q \in Pages
  BY <1>2, <1>3, PendingOK DEF Fits, Pages
<1>5. n \in 1 .. MaxLog + 1
  BY <1>1, <1>3, NextEvent, Kept
<1>6. b \in 0 .. MaxLog /\ b <= Len(log)
  BY <1>3, MyPages
<1>7. task[t] \in Running /\ task \in [Task -> Running]
  BY Kept
<1>8. task' = [task EXCEPT ![t] = [task[t] EXCEPT !.batch = b, !.next = n, !.snap = q]]
  <2>1. [task[t] EXCEPT !.batch = b, !.next = n, !.snap = q] = [task[t] EXCEPT !.next = n, !.snap = q]
    BY <1>3, <1>7 DEF Running
  <2>2. task' = [task EXCEPT ![t].next = n, ![t].snap = q]
    BY <1>3 DEF FoldsNext
  <2> QED
    BY <1>7, <2>1, <2>2
<1>9. UNCHANGED <<log, held, writer, streams, answered, asked, done, slipped, bounds>>
  BY DEF FoldsNext, history
<1> QED
  BY <1>2, <1>4, <1>5, <1>6, <1>8, <1>9, DerivesStep, Kept DEF Others

LEMMA FoldAppendedStep ==
  ASSUME IInv, NEW t \in Task, FoldAppended(t)
  PROVE  IInv' /\ EndsOwned
BY MyPages, FoldsNextStep DEF FoldAppended

LEMMA FoldReplayedStep ==
  ASSUME IInv, NEW t \in Task, FoldReplayed(t)
  PROVE  IInv' /\ EndsOwned
<1>1. task[t].next <= Len(log)
  <2>1. task[t].next <= task[t].batch
    BY DEF FoldReplayed, Replaying
  <2> QED
    BY <2>1, MyPages, Kept
<1> QED
  BY <1>1, FoldsNextStep DEF FoldReplayed

LEMMA ReadEventsStep ==
  ASSUME IInv, NEW t \in Task, ReadEvents(t)
  PROVE  IInv' /\ EndsOwned
<1>1. PICK b, n, q : b = Len(log) /\ n = proj.cursor + 1 /\ q = task[t].snap
  OBVIOUS
<1>2. b \in 0 .. MaxLog /\ b <= Len(log) /\ n \in 1 .. MaxLog + 1 /\ q \in Pages
  BY <1>1, MyPages, Kept
<1>3. task[t] \in Running /\ task \in [Task -> Running]
  BY Kept
<1>4. task' = [task EXCEPT ![t] = [task[t] EXCEPT !.batch = b, !.next = n, !.snap = q]]
  <2>1. [task[t] EXCEPT !.batch = b, !.next = n, !.snap = q] = [task[t] EXCEPT !.batch = b, !.next = n]
    BY <1>1, <1>3 DEF Running
  <2>2. task' = [task EXCEPT ![t].batch = b, ![t].next = n]
    BY <1>1 DEF ReadEvents
  <2> QED
    BY <1>3, <2>1, <2>2
<1>5. Fits(proj', Len(log)) /\ Asked(proj')
  BY Kept DEF ReadEvents
<1>6. UNCHANGED <<log, held, writer, streams, answered, asked, done, slipped, bounds>>
  BY DEF ReadEvents, history
<1> QED
  BY <1>2, <1>4, <1>5, <1>6, DerivesStep, Kept DEF Others

LEMMA SkipFoldedStep ==
  ASSUME IInv, NEW t \in Task, SkipFolded(t)
  PROVE  IInv' /\ EndsOwned
<1>1. PICK b, n, q : b = task[t].batch /\ n = proj.cursor + 1 /\ q = Pending(proj)
  OBVIOUS
<1>2. b \in 0 .. MaxLog /\ b <= Len(log) /\ n \in 1 .. MaxLog + 1
  BY <1>1, MyPages, Kept
<1>3. q \in Pages
  BY <1>1, PendingOK, Kept DEF Pages
<1>4. task[t] \in Running /\ task \in [Task -> Running]
  BY Kept
<1>5. task' = [task EXCEPT ![t] = [task[t] EXCEPT !.batch = b, !.next = n, !.snap = q]]
  <2>1. [task[t] EXCEPT !.batch = b, !.next = n, !.snap = q] = [task[t] EXCEPT !.next = n, !.snap = q]
    BY <1>1, <1>4 DEF Running
  <2>2. task' = [task EXCEPT ![t].next = n, ![t].snap = q]
    BY <1>1 DEF SkipFolded
  <2> QED
    BY <1>4, <2>1, <2>2
<1>6. Fits(proj', Len(log)) /\ Asked(proj')
  BY Kept DEF SkipFolded
<1>7. UNCHANGED <<log, held, writer, streams, answered, asked, done, slipped, bounds>>
  BY DEF SkipFolded, history
<1> QED
  BY <1>2, <1>3, <1>5, <1>6, <1>7, DerivesStep, Kept DEF Others

LEMMA QueuesStep ==
  ASSUME IInv, NEW t \in Task, NEW e \in LedgerEvent, Owned(e), Queues(t, e), slipped' \subseteq Slips
  PROVE  IInv' /\ EndsOwned
<1>1. task[t] \in Running /\ Sound(task[t]) /\ task \in [Task -> Running]
  BY MyTask, Kept
<1>2. PICK rev : rev = IF task[t].kind = "join" THEN e.rev ELSE task[t].rev
  OBVIOUS
<1>3. rev \in Nat
  BY <1>1, <1>2 DEF Running, LedgerEvent
<1>4. PICK h : h = [task[t] EXCEPT !.pc = "queued", !.ev = e, !.rev = rev]
  OBVIOUS
<1>5. /\ h \in Running /\ h.pc = "queued" /\ h.kind = task[t].kind /\ h.p = task[t].p
      /\ h.op = task[t].op /\ h.rev = rev /\ h.ev = e /\ h.app = task[t].app /\ h.batch = task[t].batch
  BY <1>1, <1>3, <1>4 DEF Running
<1>6. Sound(h)
  BY <1>1, <1>2, <1>5 DEF Sound
<1>7. task' = [task EXCEPT ![t] = h]
  <2>1. task' = [task EXCEPT ![t].pc = "queued", ![t].ev = e, ![t].rev = rev]
    BY <1>1, <1>2 DEF Queues, Running
  <2> QED
    BY <1>1, <1>4, <2>1
<1>8. UNCHANGED <<log, proj, held, writer, streams, answered, asked, done, faults, upgrades>>
  BY DEF Queues, bounds
<1>9. Handles(t, h) /\ UNCHANGED <<proj, answered, done>>
  BY <1>5, <1>6, <1>7, <1>8 DEF Handles
<1> QED
  BY <1>8, <1>9, Kept, HandlerAlone DEF Others

LEMMA QueueStep ==
  ASSUME IInv, NEW t \in Task, NEW e \in LedgerEvent, Owned(e), Queue(t, e)
  PROVE  IInv' /\ EndsOwned
BY Kept, QueuesStep DEF Queue, Others

LEMMA ChangeOK ==
  ASSUME IInv, NEW t \in Task, NEW kind \in Subscription \cup {"detached", "ended"},
         task[t].p \in Participant
  PROVE  LET e == Change(t, kind) IN
         /\ e \in LedgerEvent /\ e.kind = kind /\ e.p = task[t].p /\ e.rev = Me(t).rev + 1
         /\ e.op = NoOp /\ Me(t) \in Relationship
<1>1. Fact({}) \in LedgerEvent /\ Fact({}).op = NoOp
  BY FactOK DEF Fact
<1>2. Me(t) \in Relationship
  BY DEF Me, IInv, TypeOK, Projection
<1>3. PICK rev \in Nat : rev = Me(t).rev + 1
  BY <1>2 DEF Relationship
<1>4. PICK e : e = [Fact({}) EXCEPT !.kind = kind, !.p = task[t].p, !.rev = rev]
  OBVIOUS
<1>5. e \in LedgerEvent /\ e.kind = kind /\ e.p = task[t].p /\ e.rev = rev /\ e.op = NoOp
  BY <1>1, <1>4 DEF LedgerEvent
<1>6. e = Change(t, kind)
  BY <1>3, <1>4 DEF Change
<1> QED
  BY <1>2, <1>3, <1>5, <1>6

\* an event that ends nothing, with other fields filled in
LEMMA ChangedOwned ==
  ASSUME NEW e \in LedgerEvent, e.kind # "ended", e.p \in Participant
  PROVE  Owned(e)
BY DEF Owned

LEMMA MySubject ==
  ASSUME IInv, NEW t \in Task,
         task[t].kind \in {"join", "leave", "detach", "update", "open", "close"}
  PROVE  task[t].p \in Participant
<1>1. task[t] \in Running /\ Sound(task[t])
  BY MyTask
<1> QED
  BY <1>1, SessionAssumption DEF Sound

LEMMA JoinDecidesStep ==
  ASSUME IInv, NEW t \in Task, JoinDecides(t)
  PROVE  IInv' /\ EndsOwned
<1>1. task[t].kind = "join" /\ task[t].p \in Participant
  BY MySubject DEF JoinDecides, Decides
<1>2. task[t] \in Running /\ Sound(task[t]) /\ task \in [Task -> Running]
  BY MyTask, Kept
<1>3. CASE \E o \in Retained(t) :
             /\ task' = [task EXCEPT ![t].pc = "rejoined", ![t].rev = o.rev]
             /\ UNCHANGED <<log, proj, held, writer, streams, history, bounds>>
  <2>1. PICK o \in Retained(t) :
             /\ task' = [task EXCEPT ![t].pc = "rejoined", ![t].rev = o.rev]
             /\ UNCHANGED <<log, proj, held, writer, streams, history, bounds>>
    BY <1>3
  <2>2. o.rev \in Nat
    BY Kept DEF Retained, Projection
  <2>3. PICK h : h = [task[t] EXCEPT !.pc = "rejoined", !.rev = o.rev]
    OBVIOUS
  <2>4. /\ h \in Running /\ h.pc = "rejoined" /\ h.kind = task[t].kind /\ h.p = task[t].p
        /\ h.op = task[t].op /\ h.ev = task[t].ev /\ h.app = task[t].app /\ h.batch = task[t].batch
    BY <1>2, <2>2, <2>3 DEF Running
  <2>5. Sound(h)
    BY <1>1, <1>2, <2>4 DEF Sound
  <2>6. task' = [task EXCEPT ![t] = h]
    BY <1>2, <2>1, <2>3
  <2> QED
    BY <2>1, <2>4, <2>5, <2>6, GoesStep
<1>4. CASE Queue(t, [Change(t, IF Me(t).active THEN "revised" ELSE "opened")
                       EXCEPT !.op = task[t].op, !.route = RouteOf[task[t].op]])
  <2>1. PICK kind \in Subscription : kind = IF Me(t).active THEN "revised" ELSE "opened"
    BY DEF Subscription
  <2>2. PICK c : c = Change(t, kind)
    OBVIOUS
  <2>3. c \in LedgerEvent /\ c.kind = kind /\ c.p = task[t].p
    BY <1>1, <2>1, <2>2, ChangeOK
  <2>4. task[t].op \in Op /\ RouteOf[task[t].op] \in Route
    BY <1>1, <1>2, OpAssumption DEF Sound, Route
  <2>5. PICK e : e = [c EXCEPT !.op = task[t].op, !.route = RouteOf[task[t].op]]
    OBVIOUS
  <2>6. e \in LedgerEvent /\ e.kind = kind /\ e.p = task[t].p
    BY <2>3, <2>4, <2>5 DEF LedgerEvent
  <2>7. Owned(e)
    BY <1>1, <2>1, <2>6, ChangedOwned DEF Subscription
  <2>8. Queue(t, e)
    BY <1>4, <2>1, <2>2, <2>5
  <2> QED
    BY <2>6, <2>7, <2>8, QueueStep
<1> QED
  BY <1>3, <1>4 DEF JoinDecides

LEMMA LeaveDecidesStep ==
  ASSUME IInv, NEW t \in Task, LeaveDecides(t)
  PROVE  IInv' /\ EndsOwned
<1>1. task[t].kind = "leave" /\ task[t].p \in Participant
  BY MySubject DEF LeaveDecides, Decides
<1>2. CASE Ends(t)
  BY <1>2, EndsStep
<1>3. CASE Me(t).active /\ task[t].rev = Me(t).rev /\ Queue(t, Change(t, "ended"))
  <2>1. PICK e : e = Change(t, "ended")
    OBVIOUS
  <2>2. e \in LedgerEvent /\ e.kind = "ended" /\ e.p = task[t].p /\ e.rev = Me(t).rev + 1
    BY <1>1, <2>1, ChangeOK
  <2>3. [p |-> task[t].p, rev |-> task[t].rev] \in asked
    BY <1>1, MyTask DEF Sound
  <2>4. Owned(e)
    BY <1>1, <1>3, <2>2, <2>3 DEF Owned
  <2> QED
    BY <1>3, <2>1, <2>2, <2>4, QueueStep
<1> QED
  BY <1>2, <1>3 DEF LeaveDecides

LEMMA StillOwedOK ==
  ASSUME IInv, NEW t \in Task, task[t].p \in Participant
  PROVE  StillOwed(t) \subseteq Slips
<1>1. SUFFICES ASSUME Me(t).gap # <<>>
               PROVE  {[seq |-> s, p |-> task[t].p] :
                         s \in {n \in Me(t).gap[1] + 1 .. Me(t).gap[2] : n <= Boundary(t)}} \subseteq Slips
  BY DEF StillOwed
<1>2. Me(t).gap[1] \in 0 .. MaxLog /\ Me(t).gap[2] \in 0 .. MaxLog /\ MaxLog \in Nat
  BY <1>1, LimitAssumption DEF Me, IInv, TypeOK, Projection, Relationship, Gap
<1> QED
  BY <1>2 DEF Slips

LEMMA DetachDecidesStep ==
  ASSUME IInv, NEW t \in Task, DetachDecides(t)
  PROVE  IInv' /\ EndsOwned
<1>1. task[t].kind = "detach" /\ task[t].p \in Participant
  BY MySubject DEF DetachDecides, Decides
<1>2. CASE Ends(t)
  BY <1>2, EndsStep
<1>3. CASE /\ Queues(t, [Change(t, "detached") EXCEPT !.after = Boundary(t)])
           /\ slipped' = slipped \cup StillOwed(t)
  <2>1. PICK at : at = Boundary(t)
    OBVIOUS
  <2>2. at \in 0 .. MaxLog
    BY <1>1, <2>1, BoundaryOK, Kept DEF Boundary
  <2>3. PICK c : c = Change(t, "detached")
    OBVIOUS
  <2>4. c \in LedgerEvent /\ c.kind = "detached" /\ c.p = task[t].p
    BY <1>1, <2>3, ChangeOK
  <2>5. PICK e : e = [c EXCEPT !.after = at]
    OBVIOUS
  <2>6. e \in LedgerEvent /\ e.kind = "detached" /\ e.p = task[t].p
    BY <2>2, <2>4, <2>5 DEF LedgerEvent
  <2>7. Owned(e)
    BY <1>1, <2>6, ChangedOwned
  <2>8. Queues(t, e)
    BY <1>3, <2>1, <2>3, <2>5
  <2>9. StillOwed(t) \subseteq Slips
    BY <1>1, StillOwedOK
  <2> QED
    BY <1>3, <2>6, <2>7, <2>8, <2>9, QueuesStep, Kept DEF Others
<1> QED
  BY <1>2, <1>3 DEF DetachDecides

LEMMA UpdateDecidesStep ==
  ASSUME IInv, NEW t \in Task, UpdateDecides(t)
  PROVE  IInv' /\ EndsOwned
<1>1. task[t].kind = "update" /\ task[t].p \in Participant
  BY MySubject DEF UpdateDecides, Decides
<1>2. CASE Ends(t)
  BY <1>2, EndsStep
<1>3. CASE Queue(t, [Change(t, "revised") EXCEPT !.route = Me(t).route])
  <2>1. PICK c : c = Change(t, "revised")
    OBVIOUS
  <2>2. c \in LedgerEvent /\ c.kind = "revised" /\ c.p = task[t].p /\ Me(t) \in Relationship
    BY <1>1, <2>1, ChangeOK DEF Subscription
  <2>3. PICK route \in Route : route = Me(t).route
    BY <2>2 DEF Relationship
  <2>4. PICK e : e = [c EXCEPT !.route = route]
    OBVIOUS
  <2>5. e \in LedgerEvent /\ e.kind = "revised" /\ e.p = task[t].p
    BY <2>2, <2>4 DEF LedgerEvent
  <2>6. Owned(e)
    BY <1>1, <2>5, ChangedOwned
  <2>7. Queue(t, e)
    BY <1>3, <2>1, <2>3, <2>4
  <2> QED
    BY <2>5, <2>6, <2>7, QueueStep
<1> QED
  BY <1>2, <1>3 DEF UpdateDecides

\* a handler goes on at another point, nothing else changes
LEMMA PcStep ==
  ASSUME IInv, NEW t \in Task, NEW pc \in {"rejoined", "opening"},
         pc = "rejoined" => task[t].kind = "join", pc = "opening" => task[t].kind = "open",
         task' = [task EXCEPT ![t].pc = pc], writer' \in Task \cup {NoTask},
         UNCHANGED <<log, proj, held, streams, history, bounds>>
  PROVE  IInv' /\ EndsOwned
<1>1. task[t] \in Running /\ Sound(task[t]) /\ task \in [Task -> Running]
  BY MyTask, Kept
<1>2. PICK h : h = [task[t] EXCEPT !.pc = pc]
  OBVIOUS
<1>3. h \in Running /\ Sound(h)
  BY <1>1, <1>2, PcSound
<1>4. task' = [task EXCEPT ![t] = h]
  BY <1>1, <1>2
<1>5. Handles(t, h) /\ UNCHANGED <<proj, answered, slipped, done, held, streams>>
  BY <1>3, <1>4 DEF Handles, history, bounds
<1>6. held' \in [Participant -> Task \cup {NoTask}] /\ streams' \in [Session -> Nat]
  BY <1>5, Kept DEF Others
<1> QED
  BY <1>5, <1>6, HandlerAlone, Kept DEF Others

LEMMA OpenDecidesStep ==
  ASSUME IInv, NEW t \in Task, OpenDecides(t)
  PROVE  IInv' /\ EndsOwned
<1>1. task[t].kind = "open" /\ task[t].p \in Participant
  BY MySubject DEF OpenDecides, Decides
<1>2. CASE Goes(t, "opening")
  <2>1. /\ task' = [task EXCEPT ![t].pc = "opening"] /\ UNCHANGED writer
        /\ UNCHANGED <<log, proj, held, streams, history, bounds>>
    BY <1>2 DEF Goes
  <2>2. writer' \in Task \cup {NoTask}
    BY <2>1, Kept DEF Others
  <2> QED
    BY <1>1, <2>1, <2>2, PcStep
<1>3. CASE Queue(t, Change(t, IF Me(t).rev > 0 THEN "revised" ELSE "opened"))
  <2>1. PICK kind \in Subscription : kind = IF Me(t).rev > 0 THEN "revised" ELSE "opened"
    BY DEF Subscription
  <2>2. PICK e : e = Change(t, kind)
    OBVIOUS
  <2>3. e \in LedgerEvent /\ e.kind = kind /\ e.p = task[t].p
    BY <1>1, <2>1, <2>2, ChangeOK
  <2>4. Owned(e)
    BY <1>1, <2>1, <2>3, ChangedOwned DEF Subscription
  <2>5. Queue(t, e)
    BY <1>3, <2>1, <2>2
  <2> QED
    BY <2>3, <2>4, <2>5, QueueStep
<1> QED
  BY <1>2, <1>3 DEF OpenDecides

LEMMA CloseDecidesStep ==
  ASSUME IInv, NEW t \in Task, CloseDecides(t)
  PROVE  IInv' /\ EndsOwned
<1>1. task[t].kind = "close" /\ task[t].p \in Participant
  BY MySubject DEF CloseDecides, Decides
<1>2. CASE Ends(t)
  BY <1>2, EndsStep
<1>3. CASE Queue(t, Change(t, "ended"))
  <2>1. PICK e : e = Change(t, "ended")
    OBVIOUS
  <2>2. e \in LedgerEvent /\ e.kind = "ended" /\ e.p = task[t].p
    BY <1>1, <2>1, ChangeOK
  <2>3. task[t].p \in Session
    BY <1>1, MyTask DEF Sound
  <2>4. Owned(e)
    BY <1>1, <2>2, <2>3 DEF Owned, Agent
  <2> QED
    BY <1>3, <2>1, <2>2, <2>4, QueueStep
<1> QED
  BY <1>2, <1>3 DEF CloseDecides

LEMMA PublishedStep ==
  ASSUME IInv, NEW t \in Task, Published(t), UNCHANGED <<log, proj, history, bounds>>
  PROVE  IInv' /\ EndsOwned
<1>1. CASE Finish(t)
  BY <1>1, FinishStep DEF bounds
<1>2. ASSUME ~Finish(t)
      PROVE  \E pc \in {"rejoined", "opening"} :
               /\ pc = "rejoined" => task[t].kind = "join"
               /\ pc = "opening" => task[t].kind = "open"
               /\ task' = [task EXCEPT ![t].pc = pc]
               /\ writer' = IF writer = t THEN NoTask ELSE writer
               /\ UNCHANGED <<held, streams>>
  <2>1. CASE task[t].kind = "join"
    BY <2>1 DEF Published
  <2>2. CASE task[t].kind = "open"
    BY <2>2 DEF Published
  <2>3. CASE task[t].kind \notin {"join", "open"}
    BY <1>2, <2>3 DEF Published
  <2> QED
    BY <2>1, <2>2, <2>3
<1>3. CASE ~Finish(t)
  <2>1. PICK pc \in {"rejoined", "opening"} :
               /\ pc = "rejoined" => task[t].kind = "join"
               /\ pc = "opening" => task[t].kind = "open"
               /\ task' = [task EXCEPT ![t].pc = pc]
               /\ writer' = IF writer = t THEN NoTask ELSE writer
               /\ UNCHANGED <<held, streams>>
    BY <1>2, <1>3
  <2>2. writer' \in Task \cup {NoTask}
    BY <2>1, Kept DEF Others
  <2> QED
    BY <2>1, <2>2, PcStep
<1> QED
  BY <1>1, <1>3

LEMMA AnswerStep ==
  ASSUME IInv, NEW t \in Task, Answer(t)
  PROVE  IInv' /\ EndsOwned
<1>1. task[t] \in Running /\ Sound(task[t]) /\ task[t].pc = "rejoined"
  BY MyTask DEF Answer, At
<1>2. task[t].p \in Participant /\ task[t].op \in Op /\ task[t].rev \in Nat
  BY <1>1 DEF Sound, Running
<1>3. answered' \subseteq [p : Participant, op : Op, rev : Nat]
  BY <1>2, Kept DEF Answer, Others
<1>4. Finish(t) /\ UNCHANGED <<log, proj, asked, done, slipped, faults, upgrades>>
  BY DEF Answer, bounds
<1>5. Handles(t, Idle)
  BY <1>4, IdleOK DEF Handles, Finish
<1>6. Others'
  BY <1>3, <1>4, Kept DEF Others, Finish
<1>7. Fits(proj', Len(log)) /\ Asked(proj') /\ done' \subseteq [seq : 1 .. Len(log), p : Agent]
  BY <1>4, Kept
<1> QED
  BY <1>5, <1>6, <1>7, HandlerStep

LEMMA OpenResponseStep ==
  ASSUME IInv, NEW t \in Task, OpenSubscriptionResponse(t)
  PROVE  IInv' /\ EndsOwned
<1>1. task[t] \in Running /\ Sound(task[t]) /\ task[t].pc = "opening"
  BY MyTask DEF OpenSubscriptionResponse, At
<1>2. task[t].p \in Session
  BY <1>1 DEF Sound
<1>3. streams' \in [Session -> Nat]
  BY <1>2, Kept DEF OpenSubscriptionResponse, Others
<1>4. task' = [task EXCEPT ![t] = Idle] /\ UNCHANGED <<log, proj, held, writer, answered, slipped, asked, done, faults, upgrades>>
  BY DEF OpenSubscriptionResponse, history, bounds
<1>5. Handles(t, Idle)
  BY <1>4, IdleOK DEF Handles
<1>6. held' \in [Participant -> Task \cup {NoTask}] /\ writer' \in Task \cup {NoTask}
  BY <1>4, Kept DEF Others
<1> QED
  BY <1>3, <1>4, <1>5, <1>6, HandlerAlone, Kept DEF Others

LEMMA CommitStep ==
  ASSUME IInv, NEW t \in Task, Commit(t)
  PROVE  IInv' /\ EndsOwned
<1>1. task[t] \in Running /\ Sound(task[t]) /\ task \in [Task -> Running]
  BY MyTask, Kept
<1>2. /\ log' = Append(log, task[t].ev) /\ Len(log) < MaxLog /\ writer' = t
      /\ task' = [task EXCEPT ![t] = Deriving(@, Len(log) + 1)]
      /\ UNCHANGED <<proj, held, streams, answered, slipped, asked, done, faults, upgrades>>
  BY DEF Commit, history, bounds
<1>3. task[t].ev \in LedgerEvent /\ Owned(task[t].ev)
  BY <1>1 DEF Running, Sound
<1>4. /\ log' \in Seq(LedgerEvent) /\ Len(log') = Len(log) + 1 /\ Len(log') <= MaxLog
      /\ \A i \in DOMAIN log' : log'[i] = IF i \in DOMAIN log THEN log[i] ELSE task[t].ev
  BY <1>2, <1>3, Kept
<1>5. PICK app \in 0 .. MaxLog : app = Len(log) + 1
  BY <1>2, Kept
<1>6. PICK h : h = Deriving(task[t], app)
  OBVIOUS
<1>7. /\ h \in Running /\ h.pc = "derive" /\ h.kind = task[t].kind /\ h.p = task[t].p
      /\ h.op = task[t].op /\ h.rev = task[t].rev /\ h.ev = task[t].ev /\ h.app = app /\ h.batch = 0
  BY <1>1, <1>6, DerivingOK
<1>8. task' \in [Task -> Running] /\ \A q \in Task : task'[q] = IF q = t THEN h ELSE task[q]
  BY <1>1, <1>2, <1>5, <1>6, <1>7
<1>9. ASSUME NEW e, Owned(e) PROVE Owned(e)'
  BY <1>2, <1>9 DEF Owned
<1>10. (\A q \in Task : Sound(task[q]))'
  <2>1. SUFFICES ASSUME NEW q \in Task PROVE Sound(task[q])'
    OBVIOUS
  <2>2. Len(log) \in Nat
    BY Kept
  <2>3. CASE q = t
    <3>1. Owned(task[q].ev)'
      BY <1>2, <1>3, <1>7, <1>8, <2>3 DEF Owned
    <3> QED
      BY <1>1, <1>2, <1>4, <1>5, <1>7, <1>8, <2>2, <2>3, <3>1 DEF Sound
  <2>4. CASE q # t
    <3>1. Sound(task[q]) /\ task'[q] = task[q]
      BY <1>8, <2>4, MyTask
    <3>2. Owned(task[q].ev)'
      BY <1>2, <3>1 DEF Sound, Owned
    <3>3. task[q].app \in 0 .. MaxLog /\ task[q].batch \in 0 .. MaxLog
      BY MyPages
    <3> QED
      BY <1>2, <1>4, <2>2, <3>1, <3>2, <3>3 DEF Sound
  <2> QED
    BY <2>3, <2>4
<1>11. (\A i \in DOMAIN log : i > Len(Inherited) => Owned(log[i]))'
  <2>1. SUFFICES ASSUME NEW i \in DOMAIN log', i > Len(Inherited)
                 PROVE  Owned(log[i])'
    OBVIOUS
  <2>2. CASE i \in DOMAIN log
    BY <1>2, <1>4, <2>1, <2>2 DEF Owned, IInv
  <2>3. CASE i \notin DOMAIN log
    BY <1>2, <1>3, <1>4, <2>1, <2>3 DEF Owned
  <2> QED
    BY <2>2, <2>3
<1>12. Fits(proj, Len(log))'
  BY <1>2, <1>4, Kept DEF Fits
<1>13. TypeOK'
  <2>1. done' \subseteq [seq : 1 .. Len(log'), p : Agent]
    BY <1>2, <1>4, Kept
  <2> QED
    BY <1>2, <1>4, <1>8, <1>12, <2>1, Kept DEF TypeOK, Fits, Others, Slips
<1>14. EndsOwned
  BY <1>2, Kept DEF EndsOwned
<1> QED
  BY <1>10, <1>11, <1>12, <1>13, <1>14 DEF IInv

\* no handler moves
LEMMA TasksStay ==
  ASSUME IInv, UNCHANGED <<log, task, asked>>, Fits(proj', Len(log)), Asked(proj'), Others',
         done' \subseteq [seq : 1 .. Len(log), p : Agent]
  PROVE  IInv' /\ EndsOwned
<1>1. (\A q \in Task : Sound(task[q]))'
  <2>1. \A q \in Task : Sound(task[q])
    BY DEF IInv
  <2> QED
    BY <2>1 DEF Sound, Owned
<1>2. IInv'
  BY <1>1, Kept, LogStays
<1> QED
  BY <1>2 DEF EndsOwned

LEMMA RedeliverStep ==
  ASSUME IInv, NEW t \in Task, RedeliverPendingCall(t)
  PROVE  IInv' /\ EndsOwned
<1>1. PICK s \in 1 .. proj.cursor : proj' = Derive(proj, log, {s}, {task[t].p}, TRUE)
  BY DEF RedeliverPendingCall
<1>2. task[t].p \in Participant
  BY MyTask DEF RedeliverPendingCall, At, Sound
<1>3. PICK S, P : S = {s} /\ P = {task[t].p}
  OBVIOUS
<1>4. S \subseteq 1 .. MaxLog /\ P \in SUBSET Participant /\ \A i \in S : log[i] \in LedgerEvent
  BY <1>1, <1>2, <1>3, Kept
<1>5. DerivedFrom(proj, S, Derive(proj, log, S, P, TRUE))
  BY <1>4, Kept, DeriveOK
<1>6. DerivedFrom(proj, S, proj')
  BY <1>1, <1>3, <1>5
<1>7. \A r \in proj'.box : r.seq <= proj'.cursor
  <2>1. SUFFICES ASSUME NEW r \in proj'.box PROVE r.seq <= proj.cursor
    BY <1>6 DEF DerivedFrom
  <2>2. CASE r.seq \in S
    BY <1>1, <1>3, <2>2, Kept
  <2>3. CASE \E q \in proj.box : q.seq = r.seq
    <3>1. \A q \in proj.box : q.seq <= proj.cursor
      BY Kept DEF Fits
    <3> QED
      BY <2>3, <3>1
  <2> QED
    BY <1>6, <2>2, <2>3 DEF DerivedFrom
<1>8. Fits(proj', Len(log)) /\ Asked(proj')
  BY <1>6, <1>7, Kept DEF DerivedFrom, Fits, Asked
<1>9. UNCHANGED <<log, task, held, writer, streams, answered, slipped, asked, done, faults, upgrades>>
  BY DEF RedeliverPendingCall, resident, history, bounds
<1>10. Others' /\ done' \subseteq [seq : 1 .. Len(log), p : Agent]
  BY <1>9, Kept DEF Others
<1> QED
  BY <1>8, <1>9, <1>10, TasksStay

LEMMA AcknowledgeStep ==
  ASSUME IInv, Acknowledge
  PROVE  IInv' /\ EndsOwned
<1>1. PICK r \in proj.box : /\ proj' = Complete(proj, r)
                            /\ done' = done \cup {[seq |-> r.seq, p |-> r.p]}
                            /\ UNCHANGED <<log, resident, answered, slipped, asked, bounds>>
  BY DEF Acknowledge
<1>2. r \in Delivery /\ r.seq <= proj.cursor
  BY Kept DEF Fits, Projection, Delivery
<1>3. Fits(proj', Len(log)) /\ Lasts(proj, proj')
  BY <1>1, Kept, CompleteOK
<1>9. Fits(proj', Len(log)) /\ Asked(proj')
  BY <1>3, Kept DEF Lasts, Asked, Agent
<1>10. r.seq \in 1 .. Len(log) /\ r.p \in Agent
  BY <1>2, Kept DEF Delivery
<1>11. done' \subseteq [seq : 1 .. Len(log), p : Agent]
  BY <1>1, <1>10, Kept
<1>12. UNCHANGED <<log, task, held, writer, streams, answered, slipped, asked, faults, upgrades>>
  BY <1>1 DEF resident, bounds
<1>13. Others'
  BY <1>12, Kept DEF Others
<1> QED
  BY <1>9, <1>11, <1>12, <1>13, TasksStay

LEMMA WaitFailsStep ==
  ASSUME IInv, NEW t \in Task, WaitFails(t)
  PROVE  IInv' /\ EndsOwned
<1>1. /\ Finish(t) /\ faults < MaxFault /\ faults' = faults + 1
      /\ UNCHANGED <<log, proj, answered, slipped, asked, done, upgrades>>
  BY DEF WaitFails, history
<1>2. faults' \in 0 .. MaxFault
  BY <1>1, LimitAssumption, Kept DEF Others
<1>3. Others'
  BY <1>1, <1>2, Kept DEF Others, Finish
<1>4. task' \in [Task -> Running] /\ \A q \in Task : task'[q] = IF q = t THEN Idle ELSE task[q]
  BY <1>1, IdleOK, Kept DEF Finish
<1>5. \A q \in Task : Sound(task'[q])
  BY <1>4, IdleOK DEF IInv
<1>6. (\A q \in Task : Sound(task[q]))'
  BY <1>1, <1>5 DEF Sound, Owned
<1>7. IInv'
  BY <1>1, <1>3, <1>4, <1>6, Kept, LogStays
<1>8. Asked(proj')
  BY <1>1, Kept
<1> QED
  BY <1>7, <1>8 DEF EndsOwned

LEMMA CrashStep ==
  ASSUME IInv, Crash
  PROVE  IInv' /\ EndsOwned
<1>1. /\ faults < MaxFault /\ faults' = faults + 1 /\ task' = [t \in Task |-> Idle]
      /\ held' = [p \in Participant |-> NoTask] /\ writer' = NoTask
      /\ streams' = [p \in Session |-> 0]
      /\ UNCHANGED <<log, answered, slipped, asked, done>>
  BY DEF Crash, history
<1>2. \/ UNCHANGED <<proj, upgrades>>
      \/ upgrades < MaxUpgrade /\ upgrades' = upgrades + 1 /\ proj' = EnsureProjectionVersion(proj)
  BY DEF Crash
<1>3. faults \in 0 .. MaxFault /\ upgrades \in 0 .. MaxUpgrade
      /\ MaxFault \in Nat /\ MaxUpgrade \in Nat
  BY LimitAssumption, Kept DEF Others
<1>4. faults' \in 0 .. MaxFault /\ upgrades' \in 0 .. MaxUpgrade
  BY <1>1, <1>2, <1>3
<1>5. Others'
  BY <1>1, <1>4, Kept DEF Others
<1>6. Fits(proj', Len(log))
  <2>1. CASE proj' = proj
    BY <2>1, Kept
  <2>2. CASE proj' = EnsureProjectionVersion(proj)
    <3>1. proj.boundary = Len(Inherited)
      BY Kept DEF Fits
    <3> QED
      BY <2>2, <3>1, EmptyOK, Kept DEF EnsureProjectionVersion
  <2> QED
    BY <1>2, <2>1, <2>2
<1>7. task' \in [Task -> Running] /\ \A q \in Task : task'[q] = Idle
  BY <1>1, IdleOK
<1>8. \A q \in Task : Sound(task'[q])
  BY <1>7, IdleOK
<1>9. (\A q \in Task : Sound(task[q]))'
  BY <1>1, <1>8 DEF Sound, Owned
<1>10. IInv'
  BY <1>1, <1>5, <1>6, <1>7, <1>9, Kept, LogStays
<1>11. upgrades' = upgrades => Asked(proj')
  BY <1>2, <1>3, Kept
<1> QED
  BY <1>10, <1>11 DEF EndsOwned

-----------------------------------------------------------------------------
(* The invariant *)

LEMMA InitIInv == Init => IInv
<1> SUFFICES ASSUME Init PROVE IInv
  OBVIOUS
<1>1. log = Inherited /\ log \in Seq(LedgerEvent) /\ Len(log) <= MaxLog /\ Len(log) \in Nat
  BY InheritedAssumption DEF Init
<1>2. proj = Empty(Len(Inherited)) /\ Fits(proj, Len(log))
  BY <1>1, EmptyOK DEF Init
<1>3. 0 \in 0 .. MaxLog /\ 1 \in 1 .. MaxLog + 1 /\ 0 <= Len(log)
  BY <1>1, LimitAssumption
<1>4. Fact({}) \in LedgerEvent /\ Fact({}).kind = "fact"
  BY FactOK
<1>5. Idle \in Running
  BY <1>3, <1>4 DEF Idle, Running
<1>6. Sound(Idle)
  BY <1>3, <1>4 DEF Idle, Sound, Owned
<1>7. TypeOK
  BY <1>1, <1>2, <1>5, LimitAssumption DEF Init, TypeOK, Fits
<1>8. \A i \in DOMAIN log : ~(i > Len(Inherited))
  BY <1>1, InheritedAssumption
<1> QED
  BY <1>2, <1>6, <1>7, <1>8 DEF Init, IInv

LEMMA ArriveStep ==
  ASSUME IInv, NEW t \in Task, Arrive(t)
  PROVE  IInv' /\ EndsOwned
<1>1. CASE \E p \in Agent : \E op \in Op : Join(t, p, op)
  BY <1>1, JoinStep
<1>2. CASE \E x \in answered : Leave(t, x.p, x.rev)
  BY <1>2, LeaveStep
<1>3. CASE \E p \in Agent : Detach(t, p)
  BY <1>3, DetachStep
<1>4. CASE \E p \in Participant : UpdateMetadata(t, p)
  <2>1. PICK p \in Participant : UpdateMetadata(t, p)
    BY <1>4
  <2>2. Begin(t, Deriving(Handling("update", p), 0)) /\ UNCHANGED <<asked, streams>>
    BY <2>1 DEF UpdateMetadata
  <2> QED
    BY <2>2, BeginDerivingStep
<1>5. CASE \E p \in Session : Subscribe(t, p) \/ Unsubscribe(t, p)
  <2>1. PICK p \in Session : Subscribe(t, p) \/ Unsubscribe(t, p)
    BY <1>5
  <2>2. CASE Subscribe(t, p)
    <3>1. Begin(t, Deriving(Handling("open", p), 0)) /\ UNCHANGED <<asked, streams>>
      BY <2>2 DEF Subscribe
    <3> QED
      BY <3>1, BeginDerivingStep, SessionAssumption
  <2> QED
    BY <2>1, <2>2, UnsubscribeStep
<1>6. CASE \E to \in SUBSET Agent \ {{}} : Publish(t, to)
  BY <1>6, PublishStep
<1>7. CASE Derivation(t)
  <2>1. Begin(t, Deriving(Handling("derive", NoOne), 0)) /\ UNCHANGED <<asked, streams>>
    BY <1>7 DEF Derivation
  <2> QED
    BY <2>1, BeginDerivingStep
<1> QED
  BY <1>1, <1>2, <1>3, <1>4, <1>5, <1>6, <1>7 DEF Arrive

LEMMA StepStep ==
  ASSUME IInv, NEW t \in Task, Step(t)
  PROVE  IInv' /\ EndsOwned
<1>1. CASE DeriveThrows(t) \/ DerivationEnds(t)
  BY <1>1, EndsStep DEF DeriveThrows, DerivationEnds
<1>2. CASE Committed(t)
  BY <1>2, PublishedStep DEF Committed
<1> QED
  BY <1>1, <1>2, CountsResponsesStep, ResumeBackfillStep, FoldAppendedStep, ReadEventsStep,
     FoldReplayedStep, SkipFoldedStep, JoinDecidesStep, LeaveDecidesStep, DetachDecidesStep,
     UpdateDecidesStep, OpenDecidesStep, CloseDecidesStep, AnswerStep, OpenResponseStep
     DEF Step

LEMMA QueuedStep ==
  ASSUME IInv, NEW t \in Task, Queued(t)
  PROVE  IInv' /\ EndsOwned
<1>1. CASE CommitExisting(t)
  BY <1>1, PublishedStep DEF CommitExisting
<1>2. CASE CommitRejects(t)
  BY <1>2, EndsStep DEF CommitRejects
<1> QED
  BY <1>1, <1>2, CommitStep DEF Queued

LEMMA Stutter ==
  ASSUME IInv, UNCHANGED vars
  PROVE  IInv' /\ EndsOwned
<1>1. UNCHANGED <<log, proj, task, held, writer, streams, answered, slipped, asked, done, faults, upgrades>>
  BY DEF vars, resident, history, bounds
<1>2. Others' /\ Fits(proj', Len(log)) /\ Asked(proj') /\ done' \subseteq [seq : 1 .. Len(log), p : Agent]
  BY <1>1, Kept DEF Others
<1> QED
  BY <1>1, <1>2, TasksStay

LEMMA NextIInv ==
  ASSUME IInv, [Next]_vars
  PROVE  IInv' /\ EndsOwned
<1>1. CASE UNCHANGED vars
  BY <1>1, Stutter
<1>2. CASE Next
  <2>1. CASE \E t \in Task : \/ Arrive(t) \/ Acquire(t) \/ Step(t) \/ Queued(t)
                             \/ RedeliverPendingCall(t) \/ WaitFails(t)
    BY <2>1, ArriveStep, AcquireStep, StepStep, QueuedStep, RedeliverStep, WaitFailsStep
  <2>2. CASE \E p \in Session : Disconnect(p)
    BY <2>2, DisconnectStep
  <2>3. CASE Acknowledge
    BY <2>3, AcknowledgeStep
  <2>4. CASE Crash
    BY <2>4, CrashStep
  <2> QED
    BY <1>2, <2>1, <2>2, <2>3, <2>4 DEF Next
<1> QED
  BY <1>1, <1>2

LEMMA Invariant == Spec => []IInv
<1>1. Init => IInv
  BY InitIInv
<1>2. IInv /\ [Next]_vars => IInv'
  BY NextIInv
<1> QED
  BY <1>1, <1>2, PTL DEF Spec

\* The projection never runs ahead of the ledger, every delivery lies below
\* the cursor, and every handler, lock and queue place is of the shape the
\* code gives it, over crashes and upgrades (TypeOK).
THEOREM TypeCorrect == Spec => []TypeOK
<1>1. IInv => TypeOK
  BY DEF IInv
<1> QED
  BY <1>1, Invariant, PTL

\* An agent's relationship ends only because somebody who held exactly that
\* revision left, whichever handlers wait, decide and fold in between (leave).
THEOREM OwnerEnds == Spec => EndedByOwner
<1>1. IInv /\ [Next]_vars =>
        [\A p \in Agent :
           proj.rel[p].active /\ ~proj'.rel[p].active /\ upgrades' = upgrades =>
             [p |-> p, rev |-> proj.rel[p].rev] \in asked]_vars
  BY NextIInv DEF EndsOwned, Asked
<1> QED
  BY <1>1, Invariant, PTL DEF Spec, EndedByOwner

\* the relationships after event n, where f has those of the events before
Body(lg, f, n) ==
  IF n <= Len(Inherited) THEN [p \in Participant |-> NoHistory]
  ELSE [p \in Participant |-> IF lg[n].p = p THEN After(f[n - 1][p], n, lg[n]) ELSE f[n - 1][p]]
\* f is what the ledger lg records up to event m
Records(lg, f, m) == f = [n \in 0 .. m |-> Body(lg, f, n)]

LEMMA RecordsExists ==
  ASSUME NEW lg, NEW N \in Nat
  PROVE  \E f : Records(lg, f, N)
<1> DEFINE S == {m \in Nat : ~ \E f : Records(lg, f, m)}
<1>0. Len(Inherited) \in Nat
  BY InheritedAssumption
<1>1. SUFFICES ASSUME S # {} PROVE FALSE
  OBVIOUS
<1>2. PICK m \in S : \A x \in S : m <= x
  <2>1. S \in SUBSET Nat
    OBVIOUS
  <2> QED
    BY <1>1, <2>1, MinFact
<1>3. m \in Nat /\ \A x \in S : ~(x < m)
  BY <1>2
<1>4. CASE m = 0
  <2>1. PICK f : f = [n \in 0 .. 0 |-> [p \in Participant |-> NoHistory]]
    OBVIOUS
  <2>2. \A n \in 0 .. 0 : Body(lg, f, n) = [p \in Participant |-> NoHistory]
    BY <1>0 DEF Body
  <2>3. Records(lg, f, 0)
    BY <2>1, <2>2 DEF Records
  <2> QED
    BY <1>2, <1>4, <2>3
<1>5. CASE m # 0
  <2>1. m - 1 \in Nat /\ m - 1 < m
    BY <1>3, <1>5
  <2>2. PICK g : Records(lg, g, m - 1)
    BY <1>3, <2>1
  <2>3. PICK f : f = [n \in 0 .. m |-> IF n < m THEN g[n] ELSE Body(lg, g, m)]
    OBVIOUS
  <2>4. ASSUME NEW n \in 0 .. m PROVE f[n] = Body(lg, f, n)
    <3>1. CASE n <= Len(Inherited)
      BY <1>3, <2>1, <2>2, <2>3, <3>1 DEF Records, Body
    <3>2. CASE ~(n <= Len(Inherited))
      <4>1. n - 1 \in 0 .. m - 1 /\ n - 1 < m /\ n - 1 \in 0 .. m
        BY <1>0, <1>3, <3>2
      <4>2. f[n - 1] = g[n - 1]
        BY <2>3, <4>1
      <4>3. Body(lg, f, n) = Body(lg, g, n)
        BY <3>2, <4>2 DEF Body
      <4>4. CASE n < m
        <5>1. n \in 0 .. m - 1
          BY <1>3, <4>4
        <5> QED
          BY <2>2, <2>3, <4>3, <4>4, <5>1 DEF Records
      <4>5. CASE ~(n < m)
        <5>1. n = m
          BY <1>3, <4>5
        <5> QED
          BY <2>3, <4>3, <5>1
      <4> QED
        BY <4>4, <4>5
    <3> QED
      BY <3>1, <3>2
  <2>5. Records(lg, f, m)
    BY <2>3, <2>4 DEF Records
  <2> QED
    BY <1>2, <2>5
<1> QED
  BY <1>4, <1>5

LEMMA RecordedRecords ==
  ASSUME Len(log) \in Nat
  PROVE  Records(log, Recorded, Len(log))
<1>1. PICK f : Records(log, f, Len(log))
  BY RecordsExists
<1> QED
  BY <1>1 DEF Recorded, Records, Body

\* what two ledgers record is the same while they are the same
LEMMA RecordsAgree ==
  ASSUME NEW lg, NEW mg, NEW f, NEW g, NEW N \in Nat, NEW M \in Nat, N <= M,
         Records(lg, f, N), Records(mg, g, M), \A i \in 1 .. N : lg[i] = mg[i]
  PROVE  \A n \in 0 .. N : f[n] = g[n]
<1> DEFINE S == {n \in 0 .. N : f[n] # g[n]}
<1>0. Len(Inherited) \in Nat
  BY InheritedAssumption
<1>1. SUFFICES ASSUME S # {} PROVE FALSE
  OBVIOUS
<1>2. PICK m \in S : \A x \in S : m <= x
  <2>1. S \in SUBSET Nat
    OBVIOUS
  <2> QED
    BY <1>1, <2>1, MinFact
<1>3. m \in 0 .. N /\ f[m] # g[m] /\ \A x \in S : ~(x < m)
  BY <1>2
<1>4. f[m] = Body(lg, f, m) /\ g[m] = Body(mg, g, m)
  <2>1. m \in 0 .. M
    BY <1>3
  <2> QED
    BY <1>3, <2>1, Zenon DEF Records
<1>5. CASE m <= Len(Inherited)
  BY <1>3, <1>4, <1>5 DEF Body
<1>6. CASE ~(m <= Len(Inherited))
  <2>1. m - 1 \in 0 .. N /\ m - 1 < m /\ m \in 1 .. N
    BY <1>0, <1>3, <1>6
  <2>2. f[m - 1] = g[m - 1]
    BY <1>3, <2>1
  <2>3. lg[m] = mg[m]
    BY <2>1
  <2> QED
    BY <1>3, <1>4, <2>2, <2>3 DEF Body
<1> QED
  BY <1>5, <1>6

\* relationship rel is as the ledger has it
Agrees(rel, h) ==
  /\ h.rev = rel.rev /\ h.active = rel.active
  /\ h.attached = rel.attached /\ h.route = rel.route

LEMMA FoldIsAgreement ==
  ProjectionIsFold <=> \A p \in Participant : Agrees(proj.rel[p], Recorded[proj.cursor][p])
BY DEF ProjectionIsFold, Agrees

LEMMA RecordedAt ==
  ASSUME IInv, NEW n \in 0 .. Len(log), NEW p \in Participant
  PROVE  /\ n <= Len(Inherited) => Recorded[n][p] = NoHistory
         /\ n > Len(Inherited) =>
              Recorded[n][p] = IF log[n].p = p THEN After(Recorded[n - 1][p], n, log[n])
                                               ELSE Recorded[n - 1][p]
<1>1. Records(log, Recorded, Len(log)) /\ Len(log) \in Nat /\ Len(Inherited) \in Nat
  BY Kept, RecordedRecords, InheritedAssumption
<1>2. Recorded[n] = Body(log, Recorded, n)
  BY <1>1, Zenon DEF Records
<1> QED
  BY <1>1, <1>2 DEF Body

LEMMA RecordedStays ==
  ASSUME IInv, IInv', log' = log \/ \E e : log' = Append(log, e)
  PROVE  \A n \in 0 .. Len(log) : Recorded'[n] = Recorded[n]
<1>1. Records(log, Recorded, Len(log)) /\ Len(log) \in Nat
  BY Kept, RecordedRecords
<1>2. Len(log') \in Nat
  BY DEF IInv, TypeOK
<1>3. Records(log, Recorded, Len(log))'
  <2>1. (Len(log) \in Nat => Records(log, Recorded, Len(log)))'
    BY RecordedRecords, PTL
  <2> QED
    BY <1>2, <2>1
<1>4. Len(log) <= Len(log') /\ \A i \in 1 .. Len(log) : log[i] = log'[i]
  BY <1>1, Kept
<1>5. Records(log', Recorded', Len(log'))
  BY <1>3 DEF Records, Body
<1> QED
  BY <1>1, <1>2, <1>4, <1>5, RecordsAgree

\* what a ledger may say of a participant
Past ==
  [rev : Nat, active : BOOLEAN, attached : BOOLEAN, route : Route, since : Nat,
   ops : SUBSET ((Op \cup {NoOp}) \X Nat)]

LEMMA AfterTyped ==
  ASSUME NEW h \in Past, NEW s \in Nat, NEW e \in LedgerEvent
  PROVE  After(h, s, e) \in Past
<1>1. e.rev \in Nat /\ e.route \in Route /\ e.op \in Op \cup {NoOp}
  BY DEF LedgerEvent
<1>2. CASE After(h, s, e) = h
  BY <1>2
<1>3. CASE After(h, s, e) = [h EXCEPT !.rev = e.rev, !.attached = FALSE]
  BY <1>1, <1>3 DEF Past
<1>4. CASE After(h, s, e) = [h EXCEPT !.rev = e.rev, !.active = FALSE, !.attached = FALSE]
  BY <1>1, <1>4 DEF Past
<1>5. CASE After(h, s, e) =
             [rev |-> e.rev, active |-> TRUE, attached |-> TRUE, route |-> e.route,
              since |-> IF h.active /\ (~h.attached \/ h.route = e.route) THEN h.since ELSE s,
              ops |-> h.ops \cup ({<<e.op, e.rev>>} \ {<<NoOp, e.rev>>})]
  <2>1. PICK since, ops :
          /\ since = IF h.active /\ (~h.attached \/ h.route = e.route) THEN h.since ELSE s
          /\ ops = h.ops \cup ({<<e.op, e.rev>>} \ {<<NoOp, e.rev>>})
    OBVIOUS
  <2>2. since \in Nat /\ ops \in SUBSET ((Op \cup {NoOp}) \X Nat)
    BY <1>1, <2>1 DEF Past
  <2> QED
    BY <1>1, <1>5, <2>1, <2>2 DEF Past
<1> QED
  BY <1>2, <1>3, <1>4, <1>5 DEF After, Subscription

LEMMA RecordedTyped ==
  ASSUME IInv
  PROVE  \A n \in 0 .. Len(log) : \A p \in Participant : Recorded[n][p] \in Past
<1> DEFINE S == {n \in 0 .. Len(log) : ~ \A p \in Participant : Recorded[n][p] \in Past}
<1>0. Len(Inherited) \in Nat /\ Len(log) \in Nat /\ log \in Seq(LedgerEvent)
  BY InheritedAssumption, Kept
<1>1. SUFFICES ASSUME S # {} PROVE FALSE
  OBVIOUS
<1>2. PICK m \in S : \A x \in S : m <= x
  <2>1. S \in SUBSET Nat
    OBVIOUS
  <2> QED
    BY <1>1, <2>1, MinFact
<1>3. PICK p \in Participant : Recorded[m][p] \notin Past
  BY <1>2
<1>4. CASE m <= Len(Inherited)
  <2>1. Recorded[m][p] = NoHistory
    BY <1>2, <1>4, RecordedAt
  <2>2. NoHistory \in Past
    BY DEF NoHistory, Past, Route
  <2> QED
    BY <1>3, <2>1, <2>2
<1>5. CASE ~(m <= Len(Inherited))
  <2>1. m \in Nat /\ m - 1 \in 0 .. Len(log) /\ ~(m <= m - 1) /\ m > Len(Inherited) /\ m \in 1 .. Len(log)
    BY <1>0, <1>2, <1>5
  <2>2. m - 1 \notin S
    BY <1>2, <2>1
  <2>3. Recorded[m - 1][p] \in Past
    BY <2>1, <2>2
  <2>4. log[m] \in LedgerEvent
    BY <1>0, <2>1
  <2>5. After(Recorded[m - 1][p], m, log[m]) \in Past
    BY <2>1, <2>3, <2>4, AfterTyped
  <2>6. Recorded[m][p] = IF log[m].p = p THEN After(Recorded[m - 1][p], m, log[m]) ELSE Recorded[m - 1][p]
    BY <1>2, <2>1, RecordedAt
  <2> QED
    BY <1>3, <2>3, <2>5, <2>6
<1> QED
  BY <1>4, <1>5

\* the fold does to a relationship what the ledger records of it
LEMMA FoldRelationshipAgrees ==
  ASSUME IInv, NEW s, s = proj.cursor + 1, s <= Len(log), s > Len(Inherited), log[s].kind # "fact",
         NEW p \in Participant, NEW h \in Past, Agrees(proj.rel[p], h)
  PROVE  Agrees(FoldRelationship(proj, s, log[s]).rel[p],
                IF log[s].p = p THEN After(h, s, log[s]) ELSE h)
<1>1. PICK e \in LedgerEvent : e = log[s]
  BY NextEvent
<1>2. Owned(e)
  BY <1>1, NextEvent DEF IInv
<1>3. PICK q \in Participant : q = e.p
  BY <1>1, <1>2 DEF Owned
<1>4. proj \in Projection
  BY Kept
<1>5. e.kind \in Subscription \cup {"detached", "ended"}
  BY <1>1 DEF LedgerEvent
<1>6. PICK n : n = FoldRelationship(proj, s, e)
  OBVIOUS
<1>7. CASE ~Follows(proj.rel[q], e)
  <2>1. n = proj
    BY <1>3, <1>6, <1>7 DEF FoldRelationship
  <2>2. p = q => After(h, s, e) = h
    BY <1>5, <1>7 DEF Agrees, Follows, After, Subscription
  <2> QED
    BY <1>1, <1>3, <1>6, <2>1, <2>2
<1>8. CASE Follows(proj.rel[q], e)
  <2>1. PICK r : n.rel = [proj.rel EXCEPT ![q] = r] /\ (p = q => Agrees(r, After(h, s, e)))
    <3>1. CASE e.kind = "detached"
      <4>1. PICK r : r = [proj.rel[q] EXCEPT !.rev = e.rev, !.attached = FALSE, !.at = e.after, !.gap = <<>>]
        OBVIOUS
      <4>2. n = Detached(proj, e)
        BY <1>3, <1>6, <1>8, <3>1 DEF FoldRelationship
      <4>3. n.rel = [proj.rel EXCEPT ![q] = r]
        BY <1>3, <1>4, <4>1, <4>2 DEF Detached, Projection
      <4>4. /\ proj.rel[q] \in Relationship /\ r.rev = e.rev /\ r.attached = FALSE
            /\ r.active = proj.rel[q].active /\ r.route = proj.rel[q].route
        BY <1>4, <4>1 DEF Projection, Relationship
      <4>5. ASSUME p = q PROVE Agrees(r, After(h, s, e))
        BY <1>8, <3>1, <4>4, <4>5 DEF Agrees, Follows, After, Past, Subscription
      <4> QED
        BY <4>3, <4>5
    <3>2. CASE e.kind = "ended"
      <4>1. PICK r : r = [proj.rel[q] EXCEPT !.rev = e.rev, !.active = FALSE, !.attached = FALSE, !.gap = <<>>]
        OBVIOUS
      <4>2. n = Ended(proj, e)
        BY <1>3, <1>6, <1>8, <3>2 DEF FoldRelationship
      <4>3. n.rel = [proj.rel EXCEPT ![q] = r]
        BY <1>3, <1>4, <4>1, <4>2 DEF Ended, Projection
      <4>4. /\ proj.rel[q] \in Relationship /\ r.rev = e.rev /\ r.attached = FALSE
            /\ r.active = FALSE /\ r.route = proj.rel[q].route
        BY <1>4, <4>1 DEF Projection, Relationship
      <4>5. ASSUME p = q PROVE Agrees(r, After(h, s, e))
        BY <1>8, <3>2, <4>4, <4>5 DEF Agrees, Follows, After, Past, Subscription
      <4> QED
        BY <4>3, <4>5
    <3>3. CASE e.kind \in Subscription
      <4>1. PICK g : g = IF proj.rel[q].active /\ ~proj.rel[q].attached THEN <<proj.rel[q].at, s - 1>> ELSE <<>>
        OBVIOUS
      <4>2. PICK r : r = [rev |-> e.rev, active |-> TRUE, attached |-> TRUE, route |-> e.route, at |-> 0, gap |-> g]
        OBVIOUS
      <4>3. n = Opened(proj, s, e)
        BY <1>3, <1>6, <1>8, <3>3 DEF FoldRelationship, Subscription
      <4>4. n.rel = [proj.rel EXCEPT ![q] = r]
        BY <1>3, <1>4, <4>1, <4>2, <4>3 DEF Opened, Projection
      <4>5. r.rev = e.rev /\ r.active = TRUE /\ r.attached = TRUE /\ r.route = e.route
        BY <4>2
      <4>6. ASSUME p = q PROVE Agrees(r, After(h, s, e))
        <5>1. e.rev = h.rev + 1 /\ e.kind # "detached" /\ e.kind # "ended"
          BY <1>8, <3>3, <4>6 DEF Agrees, Follows, Subscription
        <5> QED
          BY <3>3, <4>5, <5>1 DEF Agrees, After
      <4> QED
        BY <4>4, <4>6
    <3> QED
      BY <1>5, <3>1, <3>2, <3>3
  <2>2. n.rel[p] = IF p = q THEN r ELSE proj.rel[p]
    BY <1>4, <2>1 DEF Projection
  <2> QED
    BY <1>1, <1>3, <1>6, <2>1, <2>2
<1> QED
  BY <1>7, <1>8

LEMMA FoldAgrees ==
  ASSUME IInv, ProjectionIsFold, NEW s, s = proj.cursor + 1, s <= Len(log), NEW p \in Participant
  PROVE  LET n == Fold(proj, log, s) IN n.cursor = s /\ Agrees(n.rel[p], Recorded[s][p])
<1>1. PICK f : /\ Fold(proj, log, s) = [f EXCEPT !.cursor = s]
               /\ f = IF s <= proj.boundary THEN proj
                      ELSE IF log[s].kind = "fact" THEN Derive(proj, log, {s}, Participant, FALSE)
                      ELSE FoldRelationship(proj, s, log[s])
  BY DEF Fold
<1>2. /\ s \in Nat /\ s \in 0 .. Len(log) /\ s - 1 \in 0 .. Len(log) /\ s - 1 = proj.cursor
      /\ Len(Inherited) \in Nat
      /\ proj.boundary = Len(Inherited)
  BY NextEvent, Kept, InheritedAssumption DEF Fits
<1>3. PICK h \in Past : h = Recorded[s - 1][p] /\ Agrees(proj.rel[p], h)
  BY <1>2, FoldIsAgreement, RecordedTyped
<1>4. f \in Projection /\ Agrees(f.rel[p], Recorded[s][p])
  <2>1. CASE s <= Len(Inherited)
    <3>1. s - 1 <= Len(Inherited)
      BY <1>2, <2>1
    <3>2. Recorded[s][p] = h
      BY <1>2, <1>3, <2>1, <3>1, RecordedAt
    <3> QED
      BY <1>1, <1>2, <1>3, <2>1, <3>2, Kept
  <2>2. CASE s > Len(Inherited) /\ log[s].kind = "fact"
    <3>1. After(h, s, log[s]) = h
      BY <2>2 DEF After, Subscription
    <3>2. Recorded[s][p] = h
      BY <1>2, <1>3, <2>2, <3>1, RecordedAt
    <3>3. f = Derive(proj, log, {s}, Participant, FALSE)
      <4>1. ~(s <= proj.boundary)
        BY <1>2, <2>2
      <4> QED
        BY <1>1, <2>2, <4>1, Zenon
    <3>4. PICK S, P : S = {s} /\ P = Participant
      OBVIOUS
    <3>5. S \subseteq 1 .. MaxLog /\ P \in SUBSET Participant /\ \A i \in S : log[i] \in LedgerEvent
      BY <3>4, NextEvent
    <3>6. DerivedFrom(proj, S, Derive(proj, log, S, P, FALSE))
      BY <3>5, Kept, DeriveOK
    <3>7. f \in Projection /\ f.rel = proj.rel
      BY <3>3, <3>4, <3>6 DEF DerivedFrom
    <3> QED
      BY <1>3, <3>2, <3>7
  <2>3. CASE s > Len(Inherited) /\ log[s].kind # "fact"
    <3>1. f = FoldRelationship(proj, s, log[s])
      BY <1>1, <1>2, <2>3
    <3>2. f \in Projection
      BY <2>3, <3>1, FoldRelationshipOK DEF Nearly
    <3>3. Recorded[s][p] = IF log[s].p = p THEN After(h, s, log[s]) ELSE h
      BY <1>2, <1>3, <2>3, RecordedAt
    <3>4. Agrees(FoldRelationship(proj, s, log[s]).rel[p], IF log[s].p = p THEN After(h, s, log[s]) ELSE h)
      BY <1>3, <2>3, FoldRelationshipAgrees
    <3> QED
      BY <3>1, <3>2, <3>3, <3>4
  <2> QED
    BY <1>2, <2>1, <2>2, <2>3, NextEvent
<1>5. PICK n : n = [f EXCEPT !.cursor = s]
  OBVIOUS
<1>6. n.cursor = s /\ n.rel = f.rel
  BY <1>4, <1>5 DEF Projection
<1> QED
  BY <1>1, <1>4, <1>5, <1>6

\* what a step does to the ledger and to the relationships
Folds ==
  /\ log' = log \/ \E e : log' = Append(log, e)
  /\ \/ Lasts(proj, proj')
     \/ \E s : s = proj.cursor + 1 /\ s <= Len(log) /\ proj' = Fold(proj, log, s)
     \/ proj' = Empty(Len(Inherited))

LEMMA StandsFolds ==
  ASSUME UNCHANGED proj, log' = log \/ \E e : log' = Append(log, e)
  PROVE  Folds
BY DEF Folds, Lasts

LEMMA ArriveFolds ==
  ASSUME NEW t \in Task, Arrive(t) \/ Acquire(t)
  PROVE  Folds
<1>1. ASSUME NEW rec, Begin(t, rec) PROVE UNCHANGED <<log, proj>>
  BY <1>1 DEF Begin
<1>2. ASSUME NEW p, NEW op, Join(t, p, op) PROVE UNCHANGED <<log, proj>>
  BY <1>1, <1>2 DEF Join
<1>3. ASSUME NEW p, NEW rev, Leave(t, p, rev) PROVE UNCHANGED <<log, proj>>
  BY <1>1, <1>3 DEF Leave
<1>4. ASSUME NEW p, Detach(t, p) \/ UpdateMetadata(t, p) \/ Subscribe(t, p) PROVE UNCHANGED <<log, proj>>
  BY <1>1, <1>4 DEF Detach, UpdateMetadata, Subscribe
<1>5. ASSUME NEW p, Unsubscribe(t, p) PROVE UNCHANGED <<log, proj>>
  BY <1>5 DEF Unsubscribe
<1>6. ASSUME NEW to, Publish(t, to) PROVE UNCHANGED <<log, proj>>
  BY <1>1, <1>6 DEF Publish
<1>7. ASSUME Derivation(t) PROVE UNCHANGED <<log, proj>>
  BY <1>1, <1>7 DEF Derivation
<1>8. ASSUME Acquire(t) PROVE UNCHANGED <<log, proj>>
  BY <1>8 DEF Acquire
<1>9. UNCHANGED <<log, proj>>
  <2>1. CASE Acquire(t)
    BY <1>8, <2>1
  <2>2. CASE Arrive(t)
    BY <1>2, <1>3, <1>4, <1>5, <1>6, <1>7, <2>2 DEF Arrive
  <2> QED
    BY <2>1, <2>2
<1> QED
  BY <1>9, StandsFolds

\* ... at every point where a handler only decides, waits or answers
LEMMA DecidesFolds ==
  ASSUME NEW t \in Task,
         \/ CountsResponses(t) \/ ReadEvents(t) \/ SkipFolded(t) \/ DeriveThrows(t)
         \/ JoinDecides(t) \/ LeaveDecides(t) \/ DetachDecides(t) \/ UpdateDecides(t)
         \/ OpenDecides(t) \/ CloseDecides(t) \/ DerivationEnds(t)
         \/ Committed(t) \/ Answer(t) \/ OpenSubscriptionResponse(t)
         \/ CommitExisting(t) \/ CommitRejects(t) \/ WaitFails(t)
  PROVE  Folds
<1>1. ASSUME Ends(t) PROVE UNCHANGED <<log, proj>>
  BY <1>1 DEF Ends
<1>2. ASSUME NEW pc, Goes(t, pc) PROVE UNCHANGED <<log, proj>>
  BY <1>2 DEF Goes
<1>3. ASSUME NEW e, Queues(t, e) \/ Queue(t, e) PROVE UNCHANGED <<log, proj>>
  BY <1>3 DEF Queue, Queues
<1>4. ASSUME CountsResponses(t) \/ ReadEvents(t) \/ SkipFolded(t) \/ DeriveThrows(t)
      PROVE  UNCHANGED <<log, proj>>
  BY <1>1, <1>4 DEF CountsResponses, ReadEvents, SkipFolded, DeriveThrows
<1>5. ASSUME JoinDecides(t) PROVE UNCHANGED <<log, proj>>
  BY <1>3, <1>5 DEF JoinDecides
<1>6. ASSUME LeaveDecides(t) \/ DetachDecides(t) \/ UpdateDecides(t) \/ CloseDecides(t) \/ DerivationEnds(t)
      PROVE  UNCHANGED <<log, proj>>
  BY <1>1, <1>3, <1>6 DEF LeaveDecides, DetachDecides, UpdateDecides, CloseDecides, DerivationEnds
<1>7. ASSUME OpenDecides(t) PROVE UNCHANGED <<log, proj>>
  BY <1>2, <1>3, <1>7 DEF OpenDecides
<1>8. ASSUME Committed(t) \/ Answer(t) \/ OpenSubscriptionResponse(t) \/ WaitFails(t)
      PROVE  UNCHANGED <<log, proj>>
  BY <1>8 DEF Committed, Answer, OpenSubscriptionResponse, WaitFails
<1>9. ASSUME CommitExisting(t) \/ CommitRejects(t) PROVE UNCHANGED <<log, proj>>
  BY <1>1, <1>9 DEF CommitExisting, CommitRejects
<1>10. UNCHANGED <<log, proj>>
  BY <1>4, <1>5, <1>6, <1>7, <1>8, <1>9
<1> QED
  BY <1>10, StandsFolds

LEMMA DerivesFolds ==
  ASSUME IInv, NEW t \in Task, ResumeBackfill(t) \/ FoldAppended(t) \/ FoldReplayed(t)
  PROVE  Folds
<1>1. log' = log
  BY DEF ResumeBackfill, FoldAppended, FoldReplayed, FoldsNext
<1>2. CASE ResumeBackfill(t)
  <2>1. PICK x \in task[t].snap :
          proj' = IF x.after >= x.through THEN CompleteEmptyReattachBackfill(proj, x.p)
                                          ELSE AdvanceReattachBackfill(proj, log, PageOf(x))
    BY <1>2 DEF ResumeBackfill
  <2>2. x \in [p : Participant, after : 0 .. MaxLog, through : 0 .. MaxLog]
    BY MyPages DEF Pages
  <2>3. CASE proj' = CompleteEmptyReattachBackfill(proj, x.p)
    BY <1>1, <2>2, <2>3, Kept, CompleteEmptyOK DEF Folds
  <2>4. CASE proj' = AdvanceReattachBackfill(proj, log, PageOf(x))
    BY <1>1, <2>2, <2>4, PageOfOK, AdvanceOK DEF Folds
  <2> QED
    BY <2>1, <2>3, <2>4
<1>3. ASSUME NEW s, FoldsNext(t, s), s <= Len(log) PROVE Folds
  BY <1>1, <1>3 DEF FoldsNext, CanFold, Folds
<1>4. CASE FoldAppended(t)
  BY <1>3, <1>4, MyPages DEF FoldAppended
<1>5. CASE FoldReplayed(t)
  <2>1. task[t].next <= task[t].batch /\ task[t].batch <= Len(log) /\ task[t].next \in Nat
        /\ task[t].batch \in Nat /\ Len(log) \in Nat
    BY <1>5, MyPages, Kept DEF FoldReplayed, Replaying
  <2>2. task[t].next <= Len(log)
    BY <2>1
  <2> QED
    BY <1>3, <1>5, <2>2 DEF FoldReplayed
<1> QED
  BY <1>2, <1>4, <1>5

LEMMA RedeliverFolds ==
  ASSUME IInv, NEW t \in Task, RedeliverPendingCall(t)
  PROVE  Folds
<1>1. PICK s \in 1 .. proj.cursor : proj' = Derive(proj, log, {s}, {task[t].p}, TRUE)
  BY DEF RedeliverPendingCall
<1>2. task[t].p \in Participant /\ UNCHANGED log
  BY MyTask DEF RedeliverPendingCall, At, Sound
<1>3. PICK S, P : S = {s} /\ P = {task[t].p}
  OBVIOUS
<1>4. S \subseteq 1 .. MaxLog /\ P \in SUBSET Participant /\ \A i \in S : log[i] \in LedgerEvent
  BY <1>1, <1>2, <1>3, Kept
<1>5. DerivedFrom(proj, S, Derive(proj, log, S, P, TRUE))
  BY <1>4, Kept, DeriveOK
<1> QED
  BY <1>1, <1>2, <1>3, <1>5 DEF DerivedFrom, Folds, Lasts

LEMMA NextFolds ==
  ASSUME IInv, [Next]_vars
  PROVE  Folds
<1>1. CASE UNCHANGED vars
  BY <1>1, StandsFolds DEF vars
<1>2. ASSUME NEW t \in Task,
             Arrive(t) \/ Acquire(t) \/ Step(t) \/ Queued(t) \/ RedeliverPendingCall(t) \/ WaitFails(t)
      PROVE  Folds
  <2>1. CASE Commit(t)
    <3>1. UNCHANGED proj /\ log' = Append(log, task[t].ev)
      BY <2>1 DEF Commit
    <3> QED
      BY <3>1, StandsFolds
  <2> QED
    BY <1>2, <2>1, ArriveFolds, DecidesFolds, DerivesFolds, RedeliverFolds DEF Step, Queued
<1>3. CASE \E p \in Session : Disconnect(p)
  BY <1>3, StandsFolds DEF Disconnect
<1>4. CASE Acknowledge
  <2>1. PICK r \in proj.box : proj' = Complete(proj, r) /\ UNCHANGED log
    BY <1>4 DEF Acknowledge
  <2> QED
    BY <2>1, Kept, CompleteOK DEF Folds
<1>5. CASE Crash
  <2>1. UNCHANGED log /\ (UNCHANGED proj \/ proj' = EnsureProjectionVersion(proj))
    BY <1>5 DEF Crash
  <2>2. proj.boundary = Len(Inherited)
    BY Kept DEF Fits
  <2>3. CASE proj' = EnsureProjectionVersion(proj)
    BY <2>1, <2>2, <2>3 DEF EnsureProjectionVersion, Folds
  <2> QED
    BY <2>1, <2>3, StandsFolds
<1> QED
  BY <1>1, <1>2, <1>3, <1>4, <1>5 DEF Next

\* before the first event nobody is in the channel
LEMMA EmptyIsFold ==
  ASSUME IInv, proj = Empty(Len(Inherited))
  PROVE  ProjectionIsFold
<1>1. 0 \in 0 .. Len(log) /\ 0 <= Len(Inherited)
  BY Kept, InheritedAssumption
<1>2. proj.cursor = 0 /\ \A p \in Participant : proj.rel[p] = NoRel
  BY DEF Empty
<1>3. \A p \in Participant : Recorded[0][p] = NoHistory
  BY <1>1, RecordedAt
<1>4. Agrees(NoRel, NoHistory)
  BY DEF Agrees, NoRel, NoHistory
<1> QED
  BY <1>2, <1>3, <1>4, FoldIsAgreement

LEMMA NextIsFold ==
  ASSUME IInv, IInv', ProjectionIsFold, [Next]_vars
  PROVE  ProjectionIsFold'
<1>1. Folds
  BY NextFolds
<1>2. \A n \in 0 .. Len(log) : Recorded'[n] = Recorded[n]
  BY <1>1, RecordedStays DEF Folds
<1>3. (ProjectionIsFold <=> \A p \in Participant : Agrees(proj.rel[p], Recorded[proj.cursor][p]))'
  BY FoldIsAgreement, PTL
<1>4. CASE Lasts(proj, proj')
  <2>1. proj.cursor \in 0 .. Len(log) /\ proj'.cursor = proj.cursor
    BY <1>4, Kept DEF Lasts
  <2>2. \A p \in Participant : Agrees(proj'.rel[p], Recorded[proj.cursor][p])
    BY <1>4, FoldIsAgreement DEF Lasts, Agrees
  <2> QED
    BY <1>2, <1>3, <2>1, <2>2 DEF Agrees
<1>5. CASE \E s : s = proj.cursor + 1 /\ s <= Len(log) /\ proj' = Fold(proj, log, s)
  <2>1. PICK s : s = proj.cursor + 1 /\ s <= Len(log) /\ proj' = Fold(proj, log, s)
    BY <1>5
  <2>2. s \in 0 .. Len(log)
    BY <2>1, NextEvent, Kept
  <2>3. \A p \in Participant : proj'.cursor = s /\ Agrees(proj'.rel[p], Recorded[s][p])
    BY <2>1, FoldAgrees
  <2> QED
    BY <1>2, <1>3, <2>2, <2>3 DEF Agrees
<1>6. CASE proj' = Empty(Len(Inherited))
  <2>1. (IInv /\ proj = Empty(Len(Inherited)) => ProjectionIsFold)'
    BY EmptyIsFold, PTL
  <2> QED
    BY <1>6, <2>1
<1> QED
  BY <1>1, <1>4, <1>5, <1>6 DEF Folds

\* Handlers that derive side by side fold each event of the ledger once and in
\* order: after any crashes, upgrades and failed waits the relationships are
\* those the ledger records up to the cursor (deriveDeliveries, fold,
\* foldRelationship; ProjectionIsFold).
THEOREM FoldsLedger == Spec => []ProjectionIsFold
<1>1. IInv /\ Init => ProjectionIsFold
  BY EmptyIsFold DEF Init
<1>2. IInv /\ IInv' /\ ProjectionIsFold /\ [Next]_vars => ProjectionIsFold'
  BY NextIsFold
<1> QED
  BY <1>1, <1>2, Invariant, PTL DEF Spec

-----------------------------------------------------------------------------
(* What is owed *)

Given == done \cup slipped
Mark(s, p) == [seq |-> s, p |-> p]
Addressed(s, p) == log[s].kind = "fact" /\ p \in log[s].to

\* event s is not lost to p in projection pr, d are the marks of what is settled
Covered(pr, d, s, p) ==
  \/ Mark(s, p) \in d
  \/ \E r \in pr.box : r.seq = s /\ r.p = p /\ r.st = "open"
  \/ ~pr.rel[p].attached /\ s > pr.rel[p].at
  \/ pr.rel[p].gap # <<>> /\ s \in pr.rel[p].gap[1] + 1 .. pr.rel[p].gap[2]

\* a delivery is open only under an attached relationship, and ended for a reason
RowOK(pr, d, r) ==
  LET rel == pr.rel[r.p] IN
  /\ r.rev <= rel.rev
  /\ r.st = "open" => rel.active /\ rel.attached
  /\ r.st = "completed" => Mark(r.seq, r.p) \in d
  /\ r.st \in {"departed", "retired"} => r.rev < rel.rev
RelOK(pr, d, p) ==
  LET rel == pr.rel[p] IN
  /\ rel.active => rel.route # "session"
  /\ rel.gap # <<>> => rel.active /\ rel.attached
  /\ rel.active /\ ~rel.attached => rel.at <= pr.cursor
  /\ rel.active => \A s \in Recorded[pr.cursor][p].since + 1 .. pr.cursor :
                     Addressed(s, p) => Covered(pr, d, s, p)
Debts(pr, d) == (\A p \in Agent : RelOK(pr, d, p)) /\ \A r \in pr.box : RowOK(pr, d, r)

\* a detachment that follows event n declares only what is settled
Declares(e, n, d) ==
  e.kind = "detached" /\ e.p \in Agent /\ e.rev = Recorded[n][e.p].rev + 1 =>
    \A s \in Recorded[n][e.p].since + 1 .. e.after : Addressed(s, e.p) => Mark(s, e.p) \in d
Routed(e) == e.kind \in Subscription /\ e.p \in Agent => e.route # "session"
EventOK(i, d) ==
  Routed(log[i]) /\ (log[i].kind = "detached" => log[i].after < i) /\ Declares(log[i], i - 1, d)
TaskOK(h, d) ==
  /\ Routed(h.ev)
  /\ h.ev.kind = "detached" => h.ev.after <= Len(log)
  /\ h.ev.kind = "detached" /\ h.ev.p \in Agent => h.ev.rev <= Recorded[Len(log)][h.ev.p].rev + 1
  /\ Declares(h.ev, Len(log), d)

GInv ==
  /\ Debts(proj, Given)
  /\ \A i \in DOMAIN log : i > Len(Inherited) => EventOK(i, Given)
  /\ \A t \in Task : TaskOK(task[t], Given)

-----------------------------------------------------------------------------
(* Deliveries *)

\* from pr to n: new rows are open and of attached participants, open rows stay,
\* and what is owed of the events S has a row
OnlyOpens(pr, n, P) ==
  \A r \in n.box :
    \/ r \in pr.box
    \/ /\ r.st = "open" /\ r.p \in P /\ r.rev = pr.rel[r.p].rev
       /\ pr.rel[r.p].active /\ pr.rel[r.p].attached
KeepsOpen(pr, n) == \A r \in pr.box : r.st = "open" => r \in n.box
HasRow(pr, n, s, p) ==
  \E r \in n.box : /\ r.seq = s /\ r.p = p
                   /\ r.st = "open" \/ (r \in pr.box /\ r.rev = pr.rel[p].rev)
Supplies(pr, n, lg, S, P) == \A s \in S : \A p \in P : Owes(pr, lg[s], p) => HasRow(pr, n, s, p)

LEMMA DeriveRows ==
  ASSUME NEW pr \in Projection, NEW lg, NEW S, NEW P \in SUBSET Participant, NEW rearm \in BOOLEAN,
         NEW n, n = Derive(pr, lg, S, P, rearm)
  PROVE  OnlyOpens(pr, n, P) /\ KeepsOpen(pr, n) /\ Supplies(pr, n, lg, S, P)
<1> DEFINE Id(s, p) == <<s, p, pr.rel[p].rev>>
           due == {Id(x[1], x[2]) : x \in {y \in S \X P : Owes(pr, lg[y[1]], y[2])}}
           found == {r \in pr.box : <<r.seq, r.p, r.rev>> \in due}
           again == IF rearm THEN {r \in found : r.st \in Terminal} ELSE {}
           fresh == due \ {<<r.seq, r.p, r.rev>> : r \in found}
           box == (pr.box \ again) \cup {[r EXCEPT !.st = "open"] : r \in again}
                    \cup {Row(i[1], i[2], i[3]) : i \in fresh}
<1>1. n = [pr EXCEPT !.box = box]
  BY Zenon DEF Derive
<1>2. n.box = box
  BY <1>1 DEF Projection
<1>3. \A i \in due : /\ i[1] \in S /\ i[2] \in P /\ i[3] = pr.rel[i[2]].rev
                     /\ pr.rel[i[2]].active /\ pr.rel[i[2]].attached
  <2>1. TAKE i \in due
  <2>2. PICK y \in S \X P : i = Id(y[1], y[2]) /\ Owes(pr, lg[y[1]], y[2])
    OBVIOUS
  <2>3. y[1] \in S /\ y[2] \in P /\ i[1] = y[1] /\ i[2] = y[2] /\ i[3] = pr.rel[y[2]].rev
    BY <2>2
  <2> QED
    BY <2>2, <2>3 DEF Owes
<1>4. \A r \in pr.box : r \in Delivery
  BY DEF Projection, Delivery
<1>5. \A r \in again : r \in pr.box /\ <<r.seq, r.p, r.rev>> \in due /\ r.st \in Terminal
  OBVIOUS
<1>6. \A i \in fresh : i \in due
  OBVIOUS
<1>7. \A s \in S : \A p \in P : Owes(pr, lg[s], p) => Id(s, p) \in due
  <2>1. TAKE s \in S
  <2>2. TAKE p \in P
  <2>3. HAVE Owes(pr, lg[s], p)
  <2>4. PICK y : y = <<s, p>>
    OBVIOUS
  <2>5. y \in S \X P /\ y[1] = s /\ y[2] = p
    BY <2>4
  <2>6. y \in {z \in S \X P : Owes(pr, lg[z[1]], z[2])}
    BY <2>3, <2>5
  <2> QED
    BY <2>5, <2>6
<1>8. \A i \in due : i \in fresh \/ \E r \in pr.box : <<r.seq, r.p, r.rev>> = i
  OBVIOUS
<1> HIDE DEF due, again, fresh, found
<1>9. ASSUME NEW r \in box
      PROVE  \/ r \in pr.box
             \/ /\ r.st = "open" /\ r.p \in P /\ r.rev = pr.rel[r.p].rev
                /\ pr.rel[r.p].active /\ pr.rel[r.p].attached
  <2>1. CASE r \in {[q EXCEPT !.st = "open"] : q \in again}
    <3>1. PICK q \in again : r = [q EXCEPT !.st = "open"]
      BY <2>1
    <3>2. q \in Delivery /\ <<q.seq, q.p, q.rev>> \in due
      BY <1>4, <1>5
    <3>3. r.st = "open" /\ r.p = q.p /\ r.rev = q.rev
      BY <3>1, <3>2 DEF Delivery
    <3>4. q.p \in P /\ q.rev = pr.rel[q.p].rev /\ pr.rel[q.p].active /\ pr.rel[q.p].attached
      BY <1>3, <3>2
    <3> QED
      BY <3>3, <3>4
  <2>2. CASE r \in {Row(i[1], i[2], i[3]) : i \in fresh}
    <3>1. PICK i \in fresh : r = Row(i[1], i[2], i[3])
      BY <2>2
    <3> QED
      BY <1>3, <1>6, <3>1 DEF Row
  <2> QED
    BY <2>1, <2>2
<1>10. \A r \in pr.box : r.st = "open" => r \in box
  <2>1. "open" \notin Terminal
    BY DEF Terminal
  <2> QED
    BY <1>5, <2>1
<1>11. ASSUME NEW s \in S, NEW p \in P, Owes(pr, lg[s], p)
       PROVE  \E r \in box : /\ r.seq = s /\ r.p = p
                             /\ r.st = "open" \/ (r \in pr.box /\ r.rev = pr.rel[p].rev)
  <2>1. Id(s, p) \in due
    BY <1>7, <1>11
  <2>2. CASE Id(s, p) \in fresh
    <3>1. Row(s, p, pr.rel[p].rev) \in box
      <4>1. PICK i \in fresh : i = Id(s, p)
        BY <2>2
      <4>2. Row(i[1], i[2], i[3]) \in box
        OBVIOUS
      <4> QED
        BY <4>1, <4>2
    <3> QED
      BY <3>1 DEF Row
  <2>3. ASSUME NEW r \in pr.box, <<r.seq, r.p, r.rev>> = Id(s, p)
        PROVE  \E q \in box : /\ q.seq = s /\ q.p = p
                              /\ q.st = "open" \/ (q \in pr.box /\ q.rev = pr.rel[p].rev)
    <3>1. r.seq = s /\ r.p = p /\ r.rev = pr.rel[p].rev
      BY <2>3
    <3>2. CASE r \in again
      <4>1. PICK q : q = [r EXCEPT !.st = "open"]
        OBVIOUS
      <4>2. q \in box
        BY <3>2, <4>1
      <4>3. q.seq = r.seq /\ q.p = r.p /\ q.st = "open"
        BY <1>4, <4>1 DEF Delivery
      <4> QED
        BY <3>1, <4>2, <4>3
    <3>3. CASE r \notin again
      BY <3>1, <3>3
    <3> QED
      BY <3>2, <3>3
  <2> QED
    BY <1>8, <2>1, <2>2, <2>3
<1> HIDE DEF box
<1>12. OnlyOpens(pr, n, P)
  BY <1>2, <1>9 DEF OnlyOpens
<1>13. KeepsOpen(pr, n)
  BY <1>2, <1>10 DEF KeepsOpen
<1>14. Supplies(pr, n, lg, S, P)
  <2>1. ASSUME NEW s \in S, NEW p \in P, Owes(pr, lg[s], p)
        PROVE  HasRow(pr, n, s, p)
    <3>1. PICK r \in box : /\ r.seq = s /\ r.p = p
                           /\ r.st = "open" \/ (r \in pr.box /\ r.rev = pr.rel[p].rev)
      BY <1>11, <2>1
    <3>2. r \in n.box
      BY <1>2
    <3> QED
      BY <3>1, <3>2 DEF HasRow
  <2> QED
    BY <2>1 DEF Supplies
<1> QED
  BY <1>12, <1>13, <1>14

\* b are the deliveries of box after those of p below rev ended as st
RetiredFrom(box, p, st, rev, b) ==
  /\ \A r \in b :
       \/ r \in box /\ ~(r.p = p /\ r.st = "open" /\ r.rev < rev)
       \/ \E y \in box : y.p = p /\ y.st = "open" /\ y.rev < rev /\ r = [y EXCEPT !.st = st]
  /\ \A r \in box : ~(r.p = p /\ r.st = "open" /\ r.rev < rev) => r \in b

LEMMA RetireRows ==
  ASSUME NEW box \in SUBSET Delivery, NEW p, NEW st \in Terminal, NEW rev
  PROVE  RetiredFrom(box, p, st, rev, Retire(box, p, st, rev))
BY DEF Retire, RetiredFrom

\* the same relationship, but for what a reattachment owes
SameRel(r, o) ==
  r.rev = o.rev /\ r.active = o.active /\ r.attached = o.attached /\ r.route = o.route /\ r.at = o.at

LEMMA RowStays ==
  ASSUME NEW d, NEW D, d \subseteq D, NEW n, NEW r, SameRel(n.rel[r.p], proj.rel[r.p]), RowOK(proj, d, r)
  PROVE  RowOK(n, D, r)
BY DEF SameRel, RowOK

LEMMA DebtsStay ==
  ASSUME NEW d, NEW D, d \subseteq D, Debts(proj, d), NEW n, n.cursor = proj.cursor,
         \A p \in Agent : SameRel(n.rel[p], proj.rel[p]) /\ (n.rel[p].gap # <<>> => proj.rel[p].gap # <<>>),
         \A r \in n.box : RowOK(n, D, r),
         \A p \in Agent : proj.rel[p].active =>
           \A s \in Recorded[proj.cursor][p].since + 1 .. proj.cursor :
             Addressed(s, p) /\ Covered(proj, d, s, p) => Covered(n, D, s, p)
  PROVE  Debts(n, D)
<1>1. ASSUME NEW p \in Agent PROVE RelOK(n, D, p)
  <2>1. RelOK(proj, d, p) /\ SameRel(n.rel[p], proj.rel[p]) /\ (n.rel[p].gap # <<>> => proj.rel[p].gap # <<>>)
    BY DEF Debts
  <2>2. n.rel[p].active => \A s \in Recorded[proj.cursor][p].since + 1 .. proj.cursor :
                             Addressed(s, p) => Covered(n, D, s, p)
    BY <2>1 DEF RelOK, SameRel
  <2> QED
    BY <2>1, <2>2 DEF RelOK, SameRel
<1> QED
  BY <1>1 DEF Debts

\* more is settled
LEMMA DebtsGrow ==
  ASSUME NEW d, NEW D, d \subseteq D, Debts(proj, d)
  PROVE  Debts(proj, D)
<1>1. \A p \in Agent : SameRel(proj.rel[p], proj.rel[p])
  BY DEF SameRel
<1>2. \A r \in proj.box : RowOK(proj, D, r)
  BY DEF Debts, RowOK
<1>3. \A p, s : Covered(proj, d, s, p) => Covered(proj, D, s, p)
  BY DEF Covered
<1> QED
  BY <1>1, <1>2, <1>3, DebtsStay

LEMMA RowsTyped ==
  ASSUME IInv PROVE \A r \in proj.box : r \in Delivery /\ r.p \in Agent /\ r.seq <= proj.cursor
BY Kept DEF Fits, Projection, Delivery

\* a delivery is derived again
LEMMA RedeliverDebts ==
  ASSUME IInv, NEW d, Debts(proj, d), NEW s \in 1 .. proj.cursor, NEW p \in Participant
  PROVE  Debts(Derive(proj, log, {s}, {p}, TRUE), d)
<1>1. PICK S, P : S = {s} /\ P = {p}
  OBVIOUS
<1>2. PICK n : n = Derive(proj, log, S, P, TRUE)
  OBVIOUS
<1>3. S \subseteq 1 .. MaxLog /\ P \in SUBSET Participant /\ (\A i \in S : log[i] \in LedgerEvent)
      /\ proj \in Projection
  BY <1>1, Kept
<1>4. DerivedFrom(proj, S, n)
  BY <1>2, <1>3, DeriveOK
<1>5. OnlyOpens(proj, n, P) /\ KeepsOpen(proj, n)
  BY <1>2, <1>3, DeriveRows
<1>6. n.cursor = proj.cursor /\ n.rel = proj.rel
  BY <1>4 DEF DerivedFrom
<1>7. \A q \in Agent : SameRel(n.rel[q], proj.rel[q])
  BY <1>6 DEF SameRel
<1>8. ASSUME NEW r \in n.box PROVE RowOK(n, d, r)
  <2>1. CASE r \in proj.box
    BY <1>6, <2>1 DEF Debts, RowOK
  <2>2. CASE /\ r.st = "open" /\ r.p \in P /\ r.rev = proj.rel[r.p].rev
             /\ proj.rel[r.p].active /\ proj.rel[r.p].attached
    <3>1. r.p \in Participant /\ proj.rel[r.p].rev \in Nat
      BY <1>3, <2>2 DEF Projection, Relationship
    <3> QED
      BY <1>6, <2>2, <3>1 DEF RowOK
  <2> QED
    BY <1>5, <2>1, <2>2 DEF OnlyOpens
<1>9. \A q, i : Covered(proj, d, i, q) => Covered(n, d, i, q)
  BY <1>5, <1>6 DEF Covered, KeepsOpen
<1>10. Debts(n, d)
  BY <1>6, <1>7, <1>8, <1>9, DebtsStay
<1> QED
  BY <1>1, <1>2, <1>10

\* a delivery is acknowledged
LEMMA CompleteDebts ==
  ASSUME IInv, NEW d, Debts(proj, d), NEW r \in proj.box, r.st = "open"
  PROVE  Debts(Complete(proj, r), d \cup {Mark(r.seq, r.p)})
<1>1. PICK c : c = [r EXCEPT !.st = "completed"]
  OBVIOUS
<1>2. r \in Delivery /\ proj \in Projection
  BY RowsTyped, Kept
<1>3. c.seq = r.seq /\ c.p = r.p /\ c.rev = r.rev /\ c.st = "completed"
  BY <1>1, <1>2 DEF Delivery
<1>4. PICK n : n = Complete(proj, r)
  OBVIOUS
<1>5. n.box = (proj.box \ {r}) \cup {c} /\ n.rel = proj.rel /\ n.cursor = proj.cursor
  BY <1>1, <1>2, <1>4 DEF Complete, Projection
<1>6. PICK D : D = d \cup {Mark(r.seq, r.p)}
  OBVIOUS
<1>7. d \subseteq D /\ Mark(r.seq, r.p) \in D
  BY <1>6
<1>8. \A q : SameRel(n.rel[q], proj.rel[q])
  BY <1>5 DEF SameRel
<1>9. ASSUME NEW x \in n.box PROVE RowOK(n, D, x)
  <2>1. CASE x = c
    <3>1. RowOK(proj, d, r)
      BY DEF Debts
    <3> QED
      BY <1>3, <1>5, <1>7, <2>1, <3>1 DEF RowOK
  <2>2. CASE x \in proj.box
    <3>1. RowOK(proj, d, x)
      BY <2>2 DEF Debts
    <3> QED
      BY <1>7, <1>8, <3>1, RowStays
  <2> QED
    BY <1>5, <2>1, <2>2
<1>10. ASSUME NEW q, NEW i, Covered(proj, d, i, q) PROVE Covered(n, D, i, q)
  <2>1. CASE \E x \in proj.box : x.seq = i /\ x.p = q /\ x.st = "open"
    <3>1. PICK x \in proj.box : x.seq = i /\ x.p = q /\ x.st = "open"
      BY <2>1
    <3>2. CASE x = r
      BY <1>7, <3>1, <3>2 DEF Covered
    <3>3. CASE x # r
      BY <1>5, <3>1, <3>3 DEF Covered
    <3> QED
      BY <3>2, <3>3
  <2>2. CASE ~ \E x \in proj.box : x.seq = i /\ x.p = q /\ x.st = "open"
    BY <1>5, <1>7, <1>10, <2>2 DEF Covered
  <2> QED
    BY <2>1, <2>2
<1>11. Debts(n, D)
  <2>1. \A p \in Agent : SameRel(n.rel[p], proj.rel[p]) /\ (n.rel[p].gap # <<>> => proj.rel[p].gap # <<>>)
    BY <1>5, <1>8
  <2> QED
    BY <1>5, <1>7, <1>9, <1>10, <2>1, DebtsStay
<1> QED
  BY <1>4, <1>6, <1>11

\* a range that holds nothing is closed
LEMMA CompleteEmptyDebts ==
  ASSUME IInv, NEW d, Debts(proj, d), NEW p \in Participant
  PROVE  Debts(CompleteEmptyReattachBackfill(proj, p), d)
<1>1. PICK n : n = CompleteEmptyReattachBackfill(proj, p)
  OBVIOUS
<1>2. CASE n = proj
  BY <1>1, <1>2
<1>3. CASE proj.rel[p].gap # <<>> /\ proj.rel[p].gap[1] >= proj.rel[p].gap[2]
           /\ n = [proj EXCEPT !.rel[p].gap = <<>>]
  <2>1. PICK r : r = [proj.rel[p] EXCEPT !.gap = <<>>]
    OBVIOUS
  <2>2. r \in Relationship /\ r.gap = <<>> /\ SameRel(r, proj.rel[p])
    BY <2>1, Kept, GapOK DEF Projection, Gap, SameRel
  <2>3. n = [proj EXCEPT !.rel[p] = r]
    BY <1>3, <2>1
  <2>4. n.rel = [proj.rel EXCEPT ![p] = r] /\ n.cursor = proj.cursor /\ n.box = proj.box
    BY <2>2, <2>3, Kept, WithRel
  <2>5. \A q \in Participant : n.rel[q] = IF q = p THEN r ELSE proj.rel[q]
    BY <2>4, Kept DEF Projection
  <2>6. \A q \in Participant : SameRel(n.rel[q], proj.rel[q]) /\ (n.rel[q].gap # <<>> => proj.rel[q].gap # <<>>)
    BY <2>2, <2>5 DEF SameRel
  <2>7. Agent \subseteq Participant
    BY DEF Agent
  <2>8. ASSUME NEW x \in n.box PROVE RowOK(n, d, x)
    <3>1. RowOK(proj, d, x) /\ x.p \in Participant
      BY <2>4, <2>7, RowsTyped DEF Debts
    <3> QED
      BY <2>6, <3>1, RowStays
  <2>9. proj.rel[p].gap[1] \in Nat /\ proj.rel[p].gap[2] \in Nat
    <3>1. proj.rel[p].gap \in Gap
      BY Kept DEF Projection, Relationship
    <3> QED
      BY <1>3, <3>1, LimitAssumption DEF Gap
  <2>10. ASSUME NEW q \in Agent, NEW s \in Int, Covered(proj, d, s, q) PROVE Covered(n, d, s, q)
    <3>1. CASE q = p /\ s \in proj.rel[p].gap[1] + 1 .. proj.rel[p].gap[2]
      BY <1>3, <2>9, <3>1
    <3>2. CASE ~(q = p /\ s \in proj.rel[p].gap[1] + 1 .. proj.rel[p].gap[2])
      BY <2>2, <2>4, <2>5, <2>7, <2>10, <3>2 DEF Covered, SameRel
    <3> QED
      BY <3>1, <3>2
  <2>11. \A q \in Agent : \A s \in Recorded[proj.cursor][q].since + 1 .. proj.cursor :
           Covered(proj, d, s, q) => Covered(n, d, s, q)
    BY <2>10
  <2> QED
    BY <1>1, <2>4, <2>6, <2>7, <2>8, <2>11, DebtsStay
<1> QED
  BY <1>1, <1>2, <1>3 DEF CompleteEmptyReattachBackfill

\* a page of a backfill is derived
LEMMA AdvanceDebts ==
  ASSUME IInv, NEW d, Debts(proj, d),
         NEW x \in [p : Participant, after : 0 .. MaxLog, through : 0 .. MaxLog], x.after < x.through
  PROVE  Debts(AdvanceReattachBackfill(proj, log, PageOf(x)), d \cup Skipped(x))
<1>1. PICK p \in Participant, after \in 0 .. MaxLog, through \in 0 .. MaxLog :
        PageOf(x).p = p /\ PageOf(x).after = after /\ PageOf(x).through = through
        /\ x.p = p /\ x.after = after /\ after < through
  BY PageOfOK
<1>2. PICK gap \in Gap : gap = proj.rel[p].gap
  BY Kept DEF Projection, Relationship
<1>3. PICK S : S = {s \in after + 1 .. through : s > gap[1] /\ s <= gap[2]}
  OBVIOUS
<1>4. PICK m, P : m = Derive(proj, log, S, P, FALSE) /\ P = {p}
  OBVIOUS
<1>5. PICK n : n = AdvanceReattachBackfill(proj, log, PageOf(x))
  OBVIOUS
<1>6. PICK D : D = d \cup Skipped(x)
  OBVIOUS
<1>7. CASE gap = <<>> \/ S = {}
  <2>1. n = proj
    BY <1>1, <1>2, <1>3, <1>5, <1>7 DEF AdvanceReattachBackfill
  <2> QED
    BY <1>5, <2>1, DebtsGrow
<1>8. CASE gap # <<>> /\ S # {}
  <2>1. gap[1] \in Nat /\ gap[2] \in Nat /\ gap[1] \in 0 .. MaxLog /\ gap[2] \in 0 .. MaxLog
        /\ gap[2] <= proj.cursor /\ proj.cursor \in Nat /\ proj.cursor <= Len(log) /\ MaxLog \in Nat
        /\ Len(log) \in Nat /\ proj.cursor \in 0 .. MaxLog /\ after \in Nat /\ through \in Nat
    BY <1>2, <1>8, Kept DEF Gap, Fits
  <2>2. \A s \in S : s \in 1 .. MaxLog /\ s <= proj.cursor /\ log[s] \in LedgerEvent
    BY <1>3, <2>1, Kept
  <2>3. S \subseteq 1 .. MaxLog /\ P \in SUBSET Participant /\ proj \in Projection
        /\ \A s \in S : log[s] \in LedgerEvent
    BY <1>4, <2>2, Kept
  <2>4. DerivedFrom(proj, S, m) /\ OnlyOpens(proj, m, P) /\ KeepsOpen(proj, m) /\ Supplies(proj, m, log, S, P)
    BY <1>4, <2>3, DeriveOK, DeriveRows
  <2>5. m \in Projection /\ m.rel = proj.rel /\ m.cursor = proj.cursor
    BY <2>4 DEF DerivedFrom
  <2>6. PICK new : new = IF gap[2] \in S THEN <<>> ELSE <<through, gap[2]>>
    OBVIOUS
  <2>7. new \in Gap
    BY <2>1, <2>6, <1>1 DEF Gap
  <2>8. PICK r : r = [m.rel[p] EXCEPT !.gap = new]
    OBVIOUS
  <2>9. r \in Relationship /\ r.gap = new /\ SameRel(r, proj.rel[p])
    BY <2>5, <2>7, <2>8, GapOK DEF Projection, SameRel
  <2>10. n = [m EXCEPT !.rel[p] = r]
    BY <1>1, <1>2, <1>3, <1>4, <1>5, <1>8, <2>6, <2>8 DEF AdvanceReattachBackfill
  <2>11. n.rel = [m.rel EXCEPT ![p] = r] /\ n.cursor = proj.cursor /\ n.box = m.box
    BY <2>5, <2>9, <2>10, WithRel
  <2>12. \A q \in Participant : n.rel[q] = IF q = p THEN r ELSE proj.rel[q]
    BY <2>5, <2>11 DEF Projection
  <2>13. \A q \in Participant : SameRel(n.rel[q], proj.rel[q]) /\ (n.rel[q].gap # <<>> => proj.rel[q].gap # <<>>)
    BY <1>2, <1>8, <2>9, <2>12 DEF SameRel
  <2>14. Agent \subseteq Participant /\ d \subseteq D
    BY <1>6 DEF Agent
  <2>15. ASSUME NEW y \in n.box PROVE RowOK(n, D, y)
    <3>1. y.p \in Agent /\ y.p \in Participant
      BY <2>5, <2>11, <2>14 DEF Projection
    <3>2. CASE y \in proj.box
      <4>1. RowOK(proj, d, y)
        BY <3>2 DEF Debts
      <4> QED
        BY <2>13, <2>14, <3>1, <4>1, RowStays
    <3>3. CASE /\ y.st = "open" /\ y.p \in P /\ y.rev = proj.rel[y.p].rev
               /\ proj.rel[y.p].active /\ proj.rel[y.p].attached
      <4>1. SameRel(n.rel[y.p], proj.rel[y.p]) /\ proj.rel[y.p].rev \in Nat
        BY <2>3, <2>13, <3>1 DEF Projection, Relationship
      <4> QED
        BY <3>3, <4>1 DEF SameRel, RowOK
    <3> QED
      BY <2>4, <2>11, <3>2, <3>3 DEF OnlyOpens
  <2>16. ASSUME NEW q \in Agent, NEW s \in Nat, Addressed(s, q), Covered(proj, d, s, q) PROVE Covered(n, D, s, q)
    <3>1. CASE Mark(s, q) \in d
      BY <2>14, <3>1 DEF Covered
    <3>2. CASE \E y \in proj.box : y.seq = s /\ y.p = q /\ y.st = "open"
      BY <2>4, <2>11, <3>2 DEF Covered, KeepsOpen
    <3>3. CASE ~proj.rel[q].attached /\ s > proj.rel[q].at
      BY <2>13, <2>14, <3>3 DEF Covered, SameRel
    <3>4. CASE q # p /\ proj.rel[q].gap # <<>> /\ s \in proj.rel[q].gap[1] + 1 .. proj.rel[q].gap[2]
      BY <2>12, <2>14, <3>4 DEF Covered
    <3>5. CASE q = p /\ s \in gap[1] + 1 .. gap[2]
      <4>1. CASE s <= after
        <5>1. Skipped(x) = {[seq |-> i, p |-> x.p] : i \in proj.rel[x.p].gap[1] + 1 .. x.after}
          <6>1. ~(proj.rel[x.p].gap = <<>> \/ x.after >= x.through)
            BY <1>1, <1>2, <1>8
          <6> QED
            BY <6>1 DEF Skipped
        <5>2. s \in proj.rel[x.p].gap[1] + 1 .. x.after
          BY <1>1, <1>2, <2>1, <3>5, <4>1
        <5>3. Mark(s, q) \in D
          BY <1>1, <1>6, <3>5, <5>1, <5>2 DEF Mark
        <5> QED
          BY <5>3 DEF Covered
      <4>2. CASE s \in S
        <5>1. proj.rel[q].active /\ proj.rel[q].attached /\ proj.rel[q].route # "session"
          <6>1. RelOK(proj, d, q) /\ proj.rel[q].gap # <<>>
            BY <1>2, <1>8, <3>5 DEF Debts
          <6> QED
            BY <6>1 DEF RelOK
        <5>2. Owes(proj, log[s], q)
          BY <2>16, <5>1 DEF Owes, Addressed
        <5>3. HasRow(proj, m, s, q)
          <6>1. q \in P /\ Supplies(proj, m, log, S, P)
            BY <1>4, <2>4, <3>5
          <6> QED
            BY <4>2, <5>2, <6>1 DEF Supplies
        <5>4. PICK y \in m.box : y.seq = s /\ y.p = q /\ (y.st = "open" \/ (y \in proj.box /\ y.rev = proj.rel[q].rev))
          BY <5>3 DEF HasRow
        <5>5. CASE y.st = "open"
          BY <2>11, <5>4, <5>5 DEF Covered
        <5>6. CASE y.st # "open"
          <6>1. y \in proj.box /\ y.rev = proj.rel[q].rev /\ RowOK(proj, d, y) /\ y \in Delivery
            BY <5>4, <5>6, RowsTyped DEF Debts
          <6>2. y.rev \in Nat
            BY <6>1 DEF Delivery
          <6>3. y.st \in Terminal
            BY <5>6, <6>1 DEF Delivery
          <6>4. y.st = "completed"
            BY <5>4, <6>1, <6>2, <6>3 DEF RowOK, Terminal
          <6> QED
            BY <2>14, <5>4, <6>1, <6>4 DEF RowOK, Covered
        <5> QED
          BY <5>5, <5>6
      <4>3. CASE ~(s <= after) /\ s \notin S
        <5>1. s > through /\ s <= gap[2]
          BY <1>3, <2>1, <3>5, <4>3
        <5>2. gap[2] \notin S
          BY <1>3, <2>1, <5>1
        <5>3. n.rel[q].gap = <<through, gap[2]>>
          BY <2>6, <2>9, <2>12, <3>5, <5>2
        <5>4. n.rel[q].gap # <<>> /\ n.rel[q].gap[1] = through /\ n.rel[q].gap[2] = gap[2]
          BY <5>3
        <5>5. s \in through + 1 .. gap[2]
          BY <2>1, <5>1
        <5> QED
          BY <5>4, <5>5 DEF Covered
      <4> QED
        BY <4>1, <4>2, <4>3
    <3> QED
      BY <1>2, <2>16, <3>1, <3>2, <3>3, <3>4, <3>5 DEF Covered
  <2>17. \A q \in Agent : \A s \in Recorded[proj.cursor][q].since + 1 .. proj.cursor : s \in Nat
    <3>1. \A q \in Agent : Recorded[proj.cursor][q] \in Past
      BY <2>14, RecordedTyped, Kept
    <3> QED
      BY <2>1, <3>1 DEF Past
  <2>18. \A q \in Agent : \A s \in Recorded[proj.cursor][q].since + 1 .. proj.cursor :
           Addressed(s, q) /\ Covered(proj, d, s, q) => Covered(n, D, s, q)
    BY <2>16, <2>17
  <2>19. \A q \in Agent : SameRel(n.rel[q], proj.rel[q]) /\ (n.rel[q].gap # <<>> => proj.rel[q].gap # <<>>)
    BY <2>13, <2>14
  <2>20. Debts(n, D)
    BY <2>11, <2>14, <2>15, <2>18, <2>19, DebtsStay
  <2> QED
    BY <1>5, <1>6, <2>20
<1> QED
  BY <1>7, <1>8

\* while nothing is pending no agent has a range owed
Quiet == Pending(proj) = {}
LEMMA NothingPending ==
  ASSUME NEW d, Debts(proj, d), Quiet, NEW p \in Agent
  PROVE  proj.rel[p].gap = <<>>
<1>1. p \in Participant /\ RelOK(proj, d, p)
  BY DEF Agent, Debts
<1>2. ~(proj.rel[p].active /\ proj.rel[p].attached /\ proj.rel[p].gap # <<>>)
  BY <1>1 DEF Quiet, Pending
<1> QED
  BY <1>1, <1>2 DEF RelOK

\* a delivery that revision rev of its participant ended
Over(d, rev, x) ==
  /\ x.rev <= rev /\ x.st # "open"
  /\ x.st = "completed" => Mark(x.seq, x.p) \in d
  /\ x.st \in {"departed", "retired"} => x.rev < rev

LEMMA RetiredRows ==
  ASSUME IInv, NEW d, Debts(proj, d), NEW q \in Participant, NEW st \in {"departed", "retired"},
         NEW rev \in Nat, rev > proj.rel[q].rev, NEW b, b = Retire(proj.box, q, st, rev)
  PROVE  /\ \A x \in b : IF x.p = q THEN Over(d, rev, x) ELSE x \in proj.box
         /\ \A x \in proj.box : x.p # q => x \in b
<1>1. proj.box \in SUBSET Delivery /\ st \in Terminal /\ proj.rel[q].rev \in Nat
  BY Kept DEF Projection, Delivery, Terminal, Relationship
<1>2. \A x \in proj.box : /\ RowOK(proj, d, x) /\ x \in Delivery /\ x.rev \in Nat
  BY <1>1, RowsTyped DEF Debts, Delivery
<1>3. RetiredFrom(proj.box, q, st, rev, b)
  BY <1>1, RetireRows
<1>4. ASSUME NEW x \in b PROVE IF x.p = q THEN Over(d, rev, x) ELSE x \in proj.box
  <2>1. CASE x \in proj.box /\ ~(x.p = q /\ x.st = "open" /\ x.rev < rev)
    BY <1>1, <1>2, <2>1 DEF RowOK, Over
  <2>2. CASE \E y \in proj.box : y.p = q /\ y.st = "open" /\ y.rev < rev /\ x = [y EXCEPT !.st = st]
    <3>1. PICK y \in proj.box : y.p = q /\ y.st = "open" /\ y.rev < rev /\ x = [y EXCEPT !.st = st]
      BY <2>2
    <3>2. x.p = q /\ x.rev = y.rev /\ x.st = st
      BY <1>2, <3>1 DEF Delivery
    <3> QED
      BY <1>2, <3>1, <3>2 DEF Over
  <2> QED
    BY <1>3, <2>1, <2>2 DEF RetiredFrom
<1>5. \A x \in proj.box : x.p # q => x \in b
  BY <1>3 DEF RetiredFrom
<1> QED
  BY <1>4, <1>5

\* event s is about q only
OnlyTells(q, s) ==
  /\ log[s].kind # "fact"
  /\ \A p \in Participant : p # q => Recorded[s][p] = Recorded[s - 1][p]

\* n is the projection after event s, for everybody but q as before, and right for q
TakesIn(n, d, q, s) ==
  /\ n.cursor = s
  /\ \A p \in Participant : p # q => n.rel[p] = proj.rel[p]
  /\ q \in Agent => RelOK(n, d, q)
  /\ \A x \in n.box : IF x.p = q THEN RowOK(n, d, x) ELSE x \in proj.box
  /\ \A x \in proj.box : x.p # q => x \in n.box

\* ... which leaves what is owed to everybody else
LEMMA OthersOwed ==
  ASSUME IInv, NEW d, Debts(proj, d), NEW s, s = proj.cursor + 1, s <= Len(log),
         NEW q \in Participant, OnlyTells(q, s), NEW n, TakesIn(n, d, q, s)
  PROVE  Debts(n, d)
<1>1. s \in Nat /\ proj.cursor \in Nat /\ s - 1 = proj.cursor
  BY Kept
<1>2. ASSUME NEW p \in Agent, p # q PROVE RelOK(n, d, p)
  <2>1. p \in Participant /\ RelOK(proj, d, p) /\ Recorded[proj.cursor][p] \in Past
    BY Kept, RecordedTyped DEF Agent, Debts
  <2>2. n.rel[p] = proj.rel[p] /\ Recorded[s][p] = Recorded[proj.cursor][p]
    BY <1>1, <1>2, <2>1 DEF OnlyTells, TakesIn
  <2>3. \A i : Covered(proj, d, i, p) => Covered(n, d, i, p)
    BY <1>2, <2>2 DEF Covered, TakesIn
  <2>4. n.rel[p].active => \A i \in Recorded[s][p].since + 1 .. s : Addressed(i, p) => Covered(n, d, i, p)
    <3>1. SUFFICES ASSUME n.rel[p].active, NEW i \in Recorded[s][p].since + 1 .. s, Addressed(i, p)
                   PROVE  Covered(n, d, i, p)
      OBVIOUS
    <3>2. i # s
      BY <3>1 DEF Addressed, OnlyTells
    <3>3. Recorded[s][p].since \in Nat
      BY <2>1, <2>2 DEF Past
    <3>4. i \in Recorded[proj.cursor][p].since + 1 .. proj.cursor
      BY <1>1, <2>2, <3>2, <3>3
    <3> QED
      BY <2>1, <2>2, <2>3, <3>1, <3>4 DEF RelOK
  <2>5. proj.rel[p].at <= proj.cursor => proj.rel[p].at <= s
    <3>1. proj.rel[p].at \in Nat
      BY <2>1, Kept DEF Projection, Relationship
    <3> QED
      BY <1>1, <3>1
  <2> QED
    BY <1>1, <2>1, <2>2, <2>4, <2>5 DEF RelOK, TakesIn
<1>3. ASSUME NEW x \in n.box PROVE RowOK(n, d, x)
  <2>1. CASE x.p = q
    BY <2>1 DEF TakesIn
  <2>2. CASE x.p # q
    <3>1. x \in proj.box /\ x.p \in Participant
      BY <2>2, RowsTyped DEF Agent, TakesIn
    <3>2. n.rel[x.p] = proj.rel[x.p] /\ RowOK(proj, d, x)
      BY <2>2, <3>1 DEF Debts, TakesIn
    <3> QED
      BY <3>2 DEF RowOK
  <2> QED
    BY <2>1, <2>2
<1> QED
  BY <1>2, <1>3 DEF Debts, TakesIn

\* what the events up to s - 1 owe q, when none of it changes
LEMMA StillCovered ==
  ASSUME IInv, NEW d, Debts(proj, d), NEW s, s = proj.cursor + 1, s <= Len(log), log[s].kind # "fact",
         NEW q \in Agent, proj.rel[q].active, NEW n,
         \A i \in Recorded[s - 1][q].since + 1 .. s - 1 :
           Addressed(i, q) /\ Covered(proj, d, i, q) => Covered(n, d, i, q)
  PROVE  \A i \in Recorded[s - 1][q].since + 1 .. s : Addressed(i, q) => Covered(n, d, i, q)
<1>1. s \in Nat /\ proj.cursor \in Nat /\ s - 1 = proj.cursor
  BY Kept
<1>2. Recorded[proj.cursor][q].since \in Nat /\ RelOK(proj, d, q)
  <2>1. Recorded[proj.cursor][q] \in Past
    BY Kept, RecordedTyped DEF Agent
  <2> QED
    BY <2>1 DEF Past, Debts
<1>3. SUFFICES ASSUME NEW i \in Recorded[s - 1][q].since + 1 .. s, Addressed(i, q) PROVE Covered(n, d, i, q)
  OBVIOUS
<1>4. i # s
  BY <1>3 DEF Addressed
<1>5. i \in Recorded[s - 1][q].since + 1 .. s - 1
  BY <1>1, <1>2, <1>4
<1> QED
  BY <1>1, <1>2, <1>3, <1>5 DEF RelOK

LEMMA DetachedDebts ==
  ASSUME IInv, NEW d, Debts(proj, d), NEW s, s = proj.cursor + 1, s <= Len(log), NEW q \in Participant,
         log[s].kind = "detached", log[s].p = q, Follows(proj.rel[q], log[s]),
         log[s].after < s, q \in Agent => Declares(log[s], s - 1, d),
         OnlyTells(q, s),
         Recorded[s][q] = After(Recorded[s - 1][q], s, log[s]),
         Agrees(proj.rel[q], Recorded[s - 1][q]), NEW f, f = Detached(proj, log[s])
  PROVE  Debts([f EXCEPT !.cursor = s], d)
<1>1. PICK e, h : e = log[s] /\ h = Recorded[s - 1][q]
  OBVIOUS
<1>2. PICK r : r = [proj.rel[q] EXCEPT !.rev = e.rev, !.attached = FALSE, !.at = e.after, !.gap = <<>>]
  OBVIOUS
<1>3. PICK n : n = [f EXCEPT !.cursor = s]
  OBVIOUS
<1>4. /\ proj \in Projection /\ proj.rel[q] \in Relationship /\ e \in LedgerEvent /\ s \in Nat
      /\ proj.cursor \in Nat /\ s - 1 = proj.cursor /\ h \in Past
  BY <1>1, NextEvent, Kept, RecordedTyped DEF Projection
<1>5. r.rev = e.rev /\ r.active = proj.rel[q].active /\ r.attached = FALSE /\ r.route = proj.rel[q].route
      /\ r.at = e.after /\ r.gap = <<>>
  BY <1>2, <1>4 DEF Relationship
<1>6. e.rev = proj.rel[q].rev + 1 /\ proj.rel[q].active /\ proj.rel[q].attached
  BY <1>1 DEF Follows
<1>7. f = [proj EXCEPT !.rel[q] = r, !.box = Retire(proj.box, q, "retired", e.rev)]
  BY <1>1, <1>2, <1>4 DEF Detached
<1>8. n.rel = [proj.rel EXCEPT ![q] = r] /\ n.box = Retire(proj.box, q, "retired", e.rev) /\ n.cursor = s
  BY <1>3, <1>4, <1>7 DEF Projection
<1>9. \A p \in Participant : n.rel[p] = IF p = q THEN r ELSE proj.rel[p]
  BY <1>4, <1>8 DEF Projection
<1>10. e.rev \in Nat /\ e.rev > proj.rel[q].rev /\ e.after \in Nat
  BY <1>4, <1>6 DEF Relationship, LedgerEvent
<1>11. /\ \A x \in n.box : IF x.p = q THEN Over(d, e.rev, x) ELSE x \in proj.box
       /\ \A x \in proj.box : x.p # q => x \in n.box
  BY <1>8, <1>10, RetiredRows
<1>12. \A x \in n.box : IF x.p = q THEN RowOK(n, d, x) ELSE x \in proj.box
  BY <1>5, <1>9, <1>11 DEF RowOK, Over
<1>13. ASSUME q \in Agent PROVE RelOK(n, d, q)
  <2>1. RelOK(proj, d, q)
    BY <1>13 DEF Debts
  <2>2. h.rev = proj.rel[q].rev /\ h.active /\ h.attached
    BY <1>1, <1>6 DEF Agrees
  <2>3. Recorded[s][q] = [h EXCEPT !.rev = e.rev, !.attached = FALSE]
    BY <1>1, <1>6, <2>2 DEF After, Subscription
  <2>4. Recorded[s][q].since = h.since
    BY <1>4, <2>3 DEF Past
  <2>5. \A i \in h.since + 1 .. e.after : Addressed(i, q) => Mark(i, q) \in d
    <3>1. e.kind = "detached" /\ e.p = q /\ e.rev = Recorded[s - 1][q].rev + 1
      BY <1>1, <1>6, <2>2
    <3> QED
      BY <1>1, <1>13, <3>1 DEF Declares
  <2>6. ASSUME NEW i \in h.since + 1 .. s, Addressed(i, q) PROVE Covered(n, d, i, q)
    <3>1. i \in Nat
      BY <1>4 DEF Past
    <3>2. CASE i <= e.after
      <4>1. i \in h.since + 1 .. e.after
        BY <1>4, <1>10, <2>6, <3>2 DEF Past
      <4> QED
        BY <2>5, <2>6, <4>1 DEF Covered
    <3>3. CASE i > e.after
      BY <1>5, <1>9, <3>3 DEF Covered
    <3> QED
      BY <1>10, <3>1, <3>2, <3>3
  <2>7. n.rel[q] = r /\ e.after <= s
    BY <1>1, <1>4, <1>9, <1>10
  <2> QED
    BY <1>5, <1>8, <2>1, <2>4, <2>6, <2>7 DEF RelOK
<1>14. TakesIn(n, d, q, s)
  BY <1>8, <1>9, <1>11, <1>12, <1>13 DEF TakesIn
<1>15. Debts(n, d)
  BY <1>14, OthersOwed
<1> QED
  BY <1>3, <1>15

LEMMA EndedDebts ==
  ASSUME IInv, NEW d, Debts(proj, d), NEW s, s = proj.cursor + 1, s <= Len(log), NEW q \in Participant,
         log[s].kind = "ended", log[s].p = q, Follows(proj.rel[q], log[s]),
         OnlyTells(q, s),
         NEW f, f = Ended(proj, log[s])
  PROVE  Debts([f EXCEPT !.cursor = s], d)
<1>1. PICK e : e = log[s]
  OBVIOUS
<1>2. PICK r : r = [proj.rel[q] EXCEPT !.rev = e.rev, !.active = FALSE, !.attached = FALSE, !.gap = <<>>]
  OBVIOUS
<1>3. PICK n : n = [f EXCEPT !.cursor = s]
  OBVIOUS
<1>4. proj \in Projection /\ proj.rel[q] \in Relationship /\ e \in LedgerEvent
  BY <1>1, NextEvent, Kept DEF Projection
<1>5. r.rev = e.rev /\ r.active = FALSE /\ r.attached = FALSE /\ r.gap = <<>>
  BY <1>2, <1>4 DEF Relationship
<1>6. f = [proj EXCEPT !.rel[q] = r, !.box = Retire(proj.box, q, "departed", e.rev)]
  BY <1>1, <1>2, <1>4 DEF Ended
<1>7. n.rel = [proj.rel EXCEPT ![q] = r] /\ n.box = Retire(proj.box, q, "departed", e.rev) /\ n.cursor = s
  BY <1>3, <1>4, <1>6 DEF Projection
<1>8. \A p \in Participant : n.rel[p] = IF p = q THEN r ELSE proj.rel[p]
  BY <1>4, <1>7 DEF Projection
<1>9. e.rev \in Nat /\ e.rev > proj.rel[q].rev
  BY <1>1, <1>4 DEF Relationship, LedgerEvent, Follows
<1>10. /\ \A x \in n.box : IF x.p = q THEN Over(d, e.rev, x) ELSE x \in proj.box
       /\ \A x \in proj.box : x.p # q => x \in n.box
  BY <1>7, <1>9, RetiredRows
<1>11. \A x \in n.box : IF x.p = q THEN RowOK(n, d, x) ELSE x \in proj.box
  BY <1>5, <1>8, <1>10 DEF RowOK, Over
<1>12. q \in Agent => RelOK(n, d, q)
  BY <1>5, <1>8 DEF RelOK
<1>13. TakesIn(n, d, q, s)
  BY <1>7, <1>8, <1>10, <1>11, <1>12 DEF TakesIn
<1>14. Debts(n, d)
  BY <1>13, OthersOwed
<1> QED
  BY <1>3, <1>14

LEMMA OpenedDebts ==
  ASSUME IInv, NEW d, Debts(proj, d), Quiet, NEW s, s = proj.cursor + 1, s <= Len(log),
         NEW q \in Participant, log[s].kind \in Subscription, log[s].p = q, Follows(proj.rel[q], log[s]),
         Routed(log[s]), OnlyTells(q, s),
         Recorded[s][q] = After(Recorded[s - 1][q], s, log[s]),
         Agrees(proj.rel[q], Recorded[s - 1][q]), NEW f, f = Opened(proj, s, log[s])
  PROVE  Debts([f EXCEPT !.cursor = s], d)
<1>1. PICK e, h, old : e = log[s] /\ h = Recorded[s - 1][q] /\ old = proj.rel[q]
  OBVIOUS
<1>2. PICK gap : gap = IF old.active /\ ~old.attached THEN <<old.at, s - 1>> ELSE <<>>
  OBVIOUS
<1>3. PICK r : r = [rev |-> e.rev, active |-> TRUE, attached |-> TRUE, route |-> e.route, at |-> 0, gap |-> gap]
  OBVIOUS
<1>4. PICK b : b = IF old.rev > 0 /\ old.route # e.route THEN Retire(proj.box, q, "retired", e.rev) ELSE proj.box
  OBVIOUS
<1>5. PICK o : o = IF e.op = NoOp THEN proj.ops
                   ELSE proj.ops \cup {[p |-> q, op |-> e.op, rev |-> e.rev, seq |-> s]}
  OBVIOUS
<1>6. PICK n : n = [f EXCEPT !.cursor = s]
  OBVIOUS
<1>7. /\ proj \in Projection /\ old \in Relationship /\ e \in LedgerEvent /\ s \in Nat
      /\ proj.cursor \in Nat /\ s - 1 = proj.cursor /\ h \in Past
  BY <1>1, NextEvent, Kept, RecordedTyped DEF Projection
<1>8. f = [proj EXCEPT !.rel[q] = r, !.ops = o, !.box = b]
  BY <1>1, <1>2, <1>3, <1>4, <1>5, <1>7 DEF Opened
<1>9. n.rel = [proj.rel EXCEPT ![q] = r] /\ n.box = b /\ n.cursor = s
  BY <1>6, <1>7, <1>8 DEF Projection
<1>10. \A p \in Participant : n.rel[p] = IF p = q THEN r ELSE proj.rel[p]
  BY <1>7, <1>9 DEF Projection
<1>11. e.rev = old.rev + 1 /\ e.rev \in Nat /\ e.rev > old.rev /\ old.rev \in Nat
  BY <1>1, <1>7 DEF Relationship, LedgerEvent, Follows
<1>12. /\ \A x \in n.box : IF x.p = q THEN RowOK(n, d, x) ELSE x \in proj.box
       /\ \A x \in proj.box : x.p # q => x \in n.box
  <2>1. CASE b = Retire(proj.box, q, "retired", e.rev)
    <3>1. /\ \A x \in b : IF x.p = q THEN Over(d, e.rev, x) ELSE x \in proj.box
          /\ \A x \in proj.box : x.p # q => x \in b
      BY <1>1, <1>11, <2>1, RetiredRows
    <3>2. \A x \in b : x.p = q /\ Over(d, e.rev, x) => RowOK(n, d, x)
      BY <1>3, <1>10 DEF Over, RowOK
    <3> QED
      BY <1>9, <3>1, <3>2
  <2>2. CASE b = proj.box
    <3>1. ASSUME NEW x \in proj.box, x.p = q PROVE RowOK(n, d, x)
      <4>1. RowOK(proj, d, x) /\ x.rev \in Nat
        BY RowsTyped DEF Debts, Delivery
      <4> QED
        BY <1>1, <1>3, <1>10, <1>11, <3>1, <4>1 DEF RowOK
    <3> QED
      BY <1>9, <2>2, <3>1
  <2> QED
    BY <1>4, <2>1, <2>2
<1>13. ASSUME q \in Agent PROVE RelOK(n, d, q)
  <2>1. RelOK(proj, d, q) /\ old.gap = <<>> /\ n.rel[q] = r
    BY <1>1, <1>10, <1>13, NothingPending DEF Debts
  <2>2. h.rev = old.rev /\ h.active = old.active /\ h.attached = old.attached /\ h.route = old.route
    BY <1>1 DEF Agrees
  <2>3. e.route # "session"
    BY <1>1, <1>13 DEF Routed
  <2>4. Recorded[s][q].since = IF h.active /\ (~h.attached \/ h.route = e.route) THEN h.since ELSE s
    <3>1. e.rev = h.rev + 1 /\ e.kind \in Subscription /\ e.kind # "detached" /\ e.kind # "ended"
      BY <1>1, <1>11, <2>2 DEF Subscription
    <3>2. Recorded[s][q] = After(h, s, e)
      BY <1>1
    <3> QED
      BY <3>1, <3>2 DEF After
  <2>5. ASSUME NEW i \in Recorded[s][q].since + 1 .. s, Addressed(i, q) PROVE Covered(n, d, i, q)
    <3>1. CASE h.active /\ (~h.attached \/ h.route = e.route)
      <4>1. ASSUME NEW j \in h.since + 1 .. s - 1, Addressed(j, q), Covered(proj, d, j, q)
            PROVE  Covered(n, d, j, q)
        <5>1. j \in Nat /\ j <= s - 1
          BY <1>7 DEF Past
        <5>2. CASE Mark(j, q) \in d
          BY <5>2 DEF Covered
        <5>3. CASE \E y \in proj.box : y.seq = j /\ y.p = q /\ y.st = "open"
          <6>1. PICK y \in proj.box : y.seq = j /\ y.p = q /\ y.st = "open"
            BY <5>3
          <6>2. old.attached
            <7>1. RowOK(proj, d, y)
              BY DEF Debts
            <7> QED
              BY <1>1, <6>1, <7>1 DEF RowOK
          <6>3. b = proj.box
            BY <1>4, <2>2, <3>1, <6>2
          <6> QED
            BY <1>9, <6>1, <6>3 DEF Covered
        <5>4. CASE ~old.attached /\ j > old.at
          <6>1. old.at \in Nat
            BY <1>7, LimitAssumption DEF Relationship
          <6>2. r.gap = <<old.at, s - 1>>
            BY <1>2, <1>3, <2>2, <3>1, <5>4
          <6>3. r.gap # <<>> /\ r.gap[1] = old.at /\ r.gap[2] = s - 1
            BY <6>2
          <6>4. j \in r.gap[1] + 1 .. r.gap[2]
            BY <1>7, <5>1, <5>4, <6>1, <6>3
          <6> QED
            BY <2>1, <6>3, <6>4 DEF Covered
        <5> QED
          BY <1>1, <2>1, <4>1, <5>2, <5>3, <5>4 DEF Covered
      <4>2. \A j \in Recorded[s - 1][q].since + 1 .. s - 1 :
              Addressed(j, q) /\ Covered(proj, d, j, q) => Covered(n, d, j, q)
        BY <1>1, <4>1
      <4>3. proj.rel[q].active /\ log[s].kind # "fact"
        BY <1>1, <2>2, <3>1 DEF Subscription
      <4>4. \A j \in Recorded[s - 1][q].since + 1 .. s : Addressed(j, q) => Covered(n, d, j, q)
        BY <1>13, <4>2, <4>3, StillCovered
      <4>5. i \in Recorded[s - 1][q].since + 1 .. s
        BY <1>1, <2>4, <3>1
      <4> QED
        BY <2>5, <4>4, <4>5
    <3>2. CASE ~(h.active /\ (~h.attached \/ h.route = e.route))
      BY <1>7, <2>4, <3>2
    <3> QED
      BY <3>1, <3>2
  <2> QED
    BY <1>3, <1>9, <2>1, <2>3, <2>5 DEF RelOK
<1>14. TakesIn(n, d, q, s)
  BY <1>9, <1>10, <1>12, <1>13 DEF TakesIn
<1>15. Debts(n, d)
  BY <1>14, OthersOwed
<1> QED
  BY <1>6, <1>15

\* event s changes no relationship
TellsNothing(s) == \A p \in Participant : Recorded[s][p] = Recorded[s - 1][p]

\* a fact is derived for whoever is attached
LEMMA FactDebts ==
  ASSUME IInv, NEW d, Debts(proj, d), Quiet, NEW s, s = proj.cursor + 1, s <= Len(log),
         log[s].kind = "fact", TellsNothing(s),
         NEW f, f = Derive(proj, log, {s}, Participant, FALSE)
  PROVE  Debts([f EXCEPT !.cursor = s], d)
<1>1. PICK S, P : S = {s} /\ P = Participant
  OBVIOUS
<1>2. PICK n : n = [f EXCEPT !.cursor = s]
  OBVIOUS
<1>3. S \subseteq 1 .. MaxLog /\ P \in SUBSET Participant /\ proj \in Projection
      /\ \A i \in S : log[i] \in LedgerEvent
  BY <1>1, NextEvent
<1>4. DerivedFrom(proj, S, f) /\ OnlyOpens(proj, f, P) /\ KeepsOpen(proj, f) /\ Supplies(proj, f, log, S, P)
  BY <1>1, <1>3, DeriveOK, DeriveRows
<1>5. n.rel = proj.rel /\ n.box = f.box /\ n.cursor = s
  BY <1>2, <1>4 DEF DerivedFrom, Projection
<1>6. s \in Nat /\ proj.cursor \in Nat /\ s - 1 = proj.cursor
  BY Kept
<1>7. ASSUME NEW x \in n.box PROVE RowOK(n, d, x)
  <2>1. CASE x \in proj.box
    BY <1>5, <2>1 DEF Debts, RowOK
  <2>2. CASE /\ x.st = "open" /\ x.p \in P /\ x.rev = proj.rel[x.p].rev
             /\ proj.rel[x.p].active /\ proj.rel[x.p].attached
    <3>1. proj.rel[x.p].rev \in Nat
      BY <1>3, <2>2 DEF Projection, Relationship
    <3> QED
      BY <1>5, <2>2, <3>1 DEF RowOK
  <2> QED
    BY <1>4, <1>5, <2>1, <2>2 DEF OnlyOpens
<1>8. ASSUME NEW p \in Agent PROVE RelOK(n, d, p)
  <2>1. p \in Participant /\ RelOK(proj, d, p) /\ Recorded[proj.cursor][p] \in Past
    BY Kept, RecordedTyped DEF Agent, Debts
  <2>2. proj.rel[p].at \in Nat /\ Recorded[s][p] = Recorded[s - 1][p]
    BY <2>1, Kept, LimitAssumption DEF Projection, Relationship, TellsNothing
  <2>3. ASSUME proj.rel[p].active, NEW i \in Recorded[s][p].since + 1 .. s, Addressed(i, p)
        PROVE  Covered(n, d, i, p)
    <3>1. CASE i = s
      <4>1. CASE ~proj.rel[p].attached
        <5>1. s > proj.rel[p].at
          BY <1>6, <2>1, <2>2, <2>3, <4>1 DEF RelOK
        <5> QED
          BY <1>5, <3>1, <4>1, <5>1 DEF Covered
      <4>2. CASE proj.rel[p].attached
        <5>1. Owes(proj, log[s], p)
          BY <2>1, <2>3, <3>1, <4>2 DEF Owes, Addressed, RelOK
        <5>2. s \in S /\ p \in P /\ Supplies(proj, f, log, S, P)
          BY <1>1, <1>4, <2>1
        <5>3. HasRow(proj, f, s, p)
          BY <5>1, <5>2 DEF Supplies
        <5>4. PICK y \in f.box : y.seq = s /\ y.p = p /\ (y.st = "open" \/ (y \in proj.box /\ y.rev = proj.rel[p].rev))
          BY <5>3 DEF HasRow
        <5>5. y \notin proj.box
          BY <1>6, <5>4, RowsTyped
        <5> QED
          BY <1>5, <3>1, <5>4, <5>5 DEF Covered
      <4> QED
        BY <4>1, <4>2
    <3>2. CASE i # s
      <4>1. i \in Recorded[proj.cursor][p].since + 1 .. proj.cursor
        BY <1>6, <2>1, <2>2, <3>2 DEF Past
      <4>2. Covered(proj, d, i, p)
        BY <2>1, <2>3, <4>1 DEF RelOK
      <4> QED
        BY <1>4, <1>5, <4>2 DEF Covered, KeepsOpen
    <3> QED
      BY <3>1, <3>2
  <2> QED
    BY <1>5, <1>6, <2>1, <2>2, <2>3 DEF RelOK
<1>9. Debts(n, d)
  BY <1>7, <1>8 DEF Debts
<1> QED
  BY <1>2, <1>9

\* the next event of the ledger is folded
LEMMA FoldDebts ==
  ASSUME IInv, ProjectionIsFold, NEW d, Debts(proj, d), NEW s, CanFold(proj, s), s <= Len(log),
         s > Len(Inherited) => EventOK(s, d)
  PROVE  Debts(Fold(proj, log, s), d)
<1>1. s = proj.cursor + 1 /\ Quiet
  BY DEF CanFold, Quiet
<1>2. /\ s \in Nat /\ s \in 0 .. Len(log) /\ s - 1 \in 0 .. Len(log) /\ s - 1 = proj.cursor
      /\ Len(Inherited) \in Nat /\ proj.boundary = Len(Inherited) /\ proj \in Projection
      /\ log[s] \in LedgerEvent
  BY <1>1, NextEvent, Kept, InheritedAssumption DEF Fits
<1>3. PICK f : /\ Fold(proj, log, s) = [f EXCEPT !.cursor = s]
               /\ f = IF s <= proj.boundary THEN proj
                      ELSE IF log[s].kind = "fact" THEN Derive(proj, log, {s}, Participant, FALSE)
                      ELSE FoldRelationship(proj, s, log[s])
  BY DEF Fold
<1>4. \A p \in Participant : Agrees(proj.rel[p], Recorded[s - 1][p])
  BY <1>2, FoldIsAgreement
<1>5. CASE s <= Len(Inherited)
  <2>1. PICK n : n = [proj EXCEPT !.cursor = s]
    OBVIOUS
  <2>2. n.rel = proj.rel /\ n.box = proj.box /\ n.cursor = s
    BY <1>2, <2>1 DEF Projection
  <2>3. \A p \in Agent : ~n.rel[p].active
    <3>1. \A p \in Agent : p \in Participant /\ Recorded[s - 1][p] = NoHistory
      <4>1. s - 1 <= Len(Inherited)
        BY <1>2, <1>5
      <4> QED
        BY <1>2, <4>1, RecordedAt DEF Agent
    <3> QED
      BY <1>4, <2>2, <3>1 DEF Agrees, NoHistory
  <2>4. \A p \in Agent : RelOK(n, d, p)
    BY <2>2, <2>3 DEF Debts, RelOK
  <2>5. \A r \in n.box : RowOK(n, d, r)
    BY <2>2 DEF Debts, RowOK
  <2>6. f = proj
    BY <1>2, <1>3, <1>5
  <2> QED
    BY <1>3, <2>1, <2>4, <2>5, <2>6 DEF Debts
<1>6. CASE s > Len(Inherited) /\ log[s].kind = "fact"
  <2>1. f = Derive(proj, log, {s}, Participant, FALSE)
    <3>1. ~(s <= proj.boundary)
      BY <1>2, <1>6
    <3> QED
      BY <1>3, <1>6, <3>1, Zenon
  <2>2. TellsNothing(s)
    <3>1. \A p \in Participant : After(Recorded[s - 1][p], s, log[s]) = Recorded[s - 1][p]
      BY <1>6 DEF After, Subscription
    <3>2. \A p \in Participant : Recorded[s][p] = Recorded[s - 1][p]
      BY <1>2, <1>6, <3>1, RecordedAt
    <3> QED
      BY <3>2 DEF TellsNothing
  <2>3. log[s].kind = "fact" /\ Quiet /\ s = proj.cursor + 1
    BY <1>1, <1>6
  <2>4. Debts([f EXCEPT !.cursor = s], d)
    BY <2>1, <2>2, <2>3, FactDebts
  <2> QED
    BY <1>3, <2>4
<1>7. CASE s > Len(Inherited) /\ log[s].kind # "fact"
  <2>1. f = FoldRelationship(proj, s, log[s])
    BY <1>2, <1>3, <1>7
  <2>2. PICK q \in Participant : q = log[s].p
    <3>1. Owned(log[s])
      BY <1>1, <1>7, NextEvent DEF IInv
    <3> QED
      BY <1>7, <3>1 DEF Owned
  <2>3. \A p \in Participant :
          Recorded[s][p] = IF p = q THEN After(Recorded[s - 1][p], s, log[s]) ELSE Recorded[s - 1][p]
    BY <1>2, <1>7, <2>2, RecordedAt
  <2>4. OnlyTells(q, s) /\ Recorded[s][q] = After(Recorded[s - 1][q], s, log[s])
    BY <1>7, <2>3 DEF OnlyTells
  <2>5. EventOK(s, d) /\ Agrees(proj.rel[q], Recorded[s - 1][q])
    BY <1>4, <1>7
  <2>6. CASE ~Follows(proj.rel[q], log[s])
    <3>1. PICK n : n = [proj EXCEPT !.cursor = s]
      OBVIOUS
    <3>2. n.rel = proj.rel /\ n.box = proj.box /\ n.cursor = s
      BY <1>2, <3>1 DEF Projection
    <3>3. Recorded[s][q] = Recorded[s - 1][q]
      <4>1. log[s].kind \in Subscription \cup {"detached", "ended"}
        BY <1>2, <1>7 DEF LedgerEvent
      <4>2. After(Recorded[s - 1][q], s, log[s]) = Recorded[s - 1][q]
        BY <2>5, <2>6, <4>1 DEF Agrees, Follows, After, Subscription
      <4> QED
        BY <2>4, <4>2
    <3>4. ASSUME q \in Agent PROVE RelOK(n, d, q)
      <4>1. RelOK(proj, d, q) /\ proj.rel[q].at \in Nat
        BY <1>2, <3>4, LimitAssumption DEF Debts, Projection, Relationship
      <4>2. \A i : Covered(proj, d, i, q) => Covered(n, d, i, q)
        BY <3>2 DEF Covered
      <4>3. proj.rel[q].active => \A i \in Recorded[s - 1][q].since + 1 .. s : Addressed(i, q) => Covered(n, d, i, q)
        BY <1>1, <1>7, <3>4, <4>2, StillCovered
      <4> QED
        BY <1>2, <3>2, <3>3, <4>1, <4>3 DEF RelOK
    <3>5. \A x \in n.box : RowOK(n, d, x)
      BY <3>2 DEF Debts, RowOK
    <3>6. TakesIn(n, d, q, s)
      BY <3>2, <3>4, <3>5 DEF TakesIn
    <3>7. f = proj
      BY <2>1, <2>2, <2>6 DEF FoldRelationship
    <3> QED
      BY <1>1, <1>3, <2>4, <3>1, <3>6, <3>7, OthersOwed
  <2>7. CASE Follows(proj.rel[q], log[s])
    <3>1. CASE log[s].kind = "detached"
      <4>1. f = Detached(proj, log[s])
        BY <2>1, <2>2, <2>7, <3>1 DEF FoldRelationship
      <4>2. log[s].after < s /\ Declares(log[s], s - 1, d)
        BY <2>5, <3>1 DEF EventOK
      <4> QED
        BY <1>1, <1>3, <2>2, <2>4, <2>5, <2>7, <3>1, <4>1, <4>2, DetachedDebts
    <3>2. CASE log[s].kind = "ended"
      <4>1. f = Ended(proj, log[s])
        BY <2>1, <2>2, <2>7, <3>2 DEF FoldRelationship
      <4> QED
        BY <1>1, <1>3, <2>2, <2>4, <2>7, <3>2, <4>1, EndedDebts
    <3>3. CASE log[s].kind \in Subscription
      <4>1. f = Opened(proj, s, log[s])
        BY <2>1, <2>2, <2>7, <3>3 DEF FoldRelationship, Subscription
      <4>2. Routed(log[s])
        BY <2>5 DEF EventOK
      <4>3. Quiet /\ s = proj.cursor + 1
        BY <1>1
      <4>4. Debts([f EXCEPT !.cursor = s], d)
        BY <2>2, <2>4, <2>5, <2>7, <3>3, <4>1, <4>2, <4>3, OpenedDebts
      <4> QED
        BY <1>3, <4>4
    <3>4. log[s].kind \in Subscription \cup {"detached", "ended"}
      BY <1>2, <1>7 DEF LedgerEvent
    <3> QED
      BY <3>1, <3>2, <3>3, <3>4
  <2> QED
    BY <2>6, <2>7
<1> QED
  BY <1>2, <1>5, <1>6, <1>7

\* after an upgrade nobody is in the channel
LEMMA EmptyDebts ==
  ASSUME NEW d PROVE Debts(Empty(Len(Inherited)), d)
<1>1. PICK n : n = Empty(Len(Inherited))
  OBVIOUS
<1>2. n.box = {} /\ \A p \in Participant : n.rel[p] = NoRel
  BY <1>1 DEF Empty
<1>3. NoRel.active = FALSE /\ NoRel.gap = <<>>
  BY DEF NoRel
<1>4. \A p \in Agent : RelOK(n, d, p)
  BY <1>2, <1>3 DEF RelOK, Agent
<1> QED
  BY <1>1, <1>2, <1>4 DEF Debts

-----------------------------------------------------------------------------
(* The ledger *)

\* a revision names one state of a relationship
LEMMA AfterRises ==
  ASSUME NEW h \in Past, NEW s, NEW e
  PROVE  After(h, s, e) = h \/ After(h, s, e).rev = h.rev + 1
<1>1. CASE e.rev # h.rev + 1
  BY <1>1 DEF After
<1>2. CASE e.rev = h.rev + 1
  <2>1. [h EXCEPT !.rev = e.rev, !.attached = FALSE].rev = e.rev
        /\ [h EXCEPT !.rev = e.rev, !.active = FALSE, !.attached = FALSE].rev = e.rev
    BY DEF Past
  <2> QED
    BY <1>2, <2>1 DEF After, Subscription
<1> QED
  BY <1>1, <1>2

LEMMA RecordRises ==
  ASSUME IInv, NEW p \in Participant, NEW n \in 1 .. Len(log)
  PROVE  Recorded[n][p] = Recorded[n - 1][p] \/ Recorded[n][p].rev = Recorded[n - 1][p].rev + 1
<1>1. n \in 0 .. Len(log) /\ n - 1 \in 0 .. Len(log) /\ Len(Inherited) \in Nat
  BY Kept, InheritedAssumption
<1>2. Recorded[n - 1][p] \in Past
  BY <1>1, RecordedTyped
<1>3. CASE n <= Len(Inherited)
  BY <1>1, <1>3, RecordedAt
<1>4. CASE n > Len(Inherited)
  BY <1>1, <1>2, <1>4, RecordedAt, AfterRises
<1> QED
  BY <1>1, <1>3, <1>4

LEMMA RevDecides ==
  ASSUME IInv, NEW p \in Participant, NEW m \in 0 .. Len(log)
  PROVE  \A n \in m .. Len(log) :
           /\ Recorded[m][p].rev <= Recorded[n][p].rev
           /\ Recorded[m][p].rev = Recorded[n][p].rev => Recorded[m][p] = Recorded[n][p]
<1> DEFINE Good(n) == /\ Recorded[m][p].rev <= Recorded[n][p].rev
                      /\ Recorded[m][p].rev = Recorded[n][p].rev => Recorded[m][p] = Recorded[n][p]
           S == {n \in m .. Len(log) : ~Good(n)}
<1>1. SUFFICES ASSUME S # {} PROVE FALSE
  OBVIOUS
<1>2. PICK n \in S : \A x \in S : n <= x
  <2>1. S \in SUBSET Nat
    OBVIOUS
  <2> QED
    BY <1>1, <2>1, MinFact
<1>3. n \in m .. Len(log) /\ ~Good(n) /\ \A x \in S : ~(x < n)
  BY <1>2
<1>4. n # m
  <2>1. Recorded[m][p].rev \in Nat
    BY RecordedTyped DEF Past
  <2> QED
    BY <1>3, <2>1
<1>5. n - 1 \in m .. Len(log) /\ n - 1 < n /\ n \in 1 .. Len(log) /\ n - 1 \in 0 .. Len(log)
  BY <1>3, <1>4, Kept
<1>6. Good(n - 1)
  BY <1>3, <1>5
<1>7. Recorded[n][p] = Recorded[n - 1][p] \/ Recorded[n][p].rev = Recorded[n - 1][p].rev + 1
  BY <1>5, RecordRises
<1>8. Recorded[m][p].rev \in Nat /\ Recorded[n - 1][p].rev \in Nat
  BY <1>5, RecordedTyped DEF Past
<1> QED
  BY <1>3, <1>6, <1>7, <1>8

LEMMA EveryRecordRises ==
  IInv => \A p \in Participant : \A n \in 1 .. Len(log) :
            Recorded[n][p] = Recorded[n - 1][p] \/ Recorded[n][p].rev = Recorded[n - 1][p].rev + 1
BY RecordRises

LEMMA EveryRevDecides ==
  IInv => \A p \in Participant : \A m \in 0 .. Len(log) : \A n \in m .. Len(log) :
            /\ Recorded[m][p].rev <= Recorded[n][p].rev
            /\ Recorded[m][p].rev = Recorded[n][p].rev => Recorded[m][p] = Recorded[n][p]
BY RevDecides

\* a step that leaves the ledger or appends to it, and takes back no mark
Extends ==
  /\ log' = log \/ \E e : log' = Append(log, e)
  /\ Given \subseteq Given'

LEMMA LedgerStays ==
  ASSUME IInv, IInv', Extends
  PROVE  /\ Len(log) \in Nat /\ Len(log') \in Nat /\ Len(log') \in {Len(log), Len(log) + 1}
         /\ \A n \in 0 .. Len(log) : Recorded'[n] = Recorded[n]
         /\ \A i \in 1 .. Len(log) : log'[i] = log[i]
         /\ \A i \in 1 .. Len(log) : \A p : Addressed(i, p)' <=> Addressed(i, p)
<1>1. log \in Seq(LedgerEvent) /\ Len(log) \in Nat
  BY Kept
<1>2. \A i \in 1 .. Len(log) : log'[i] = log[i]
  BY <1>1 DEF Extends
<1>3. Len(log') \in Nat /\ Len(log') \in {Len(log), Len(log) + 1}
  BY <1>1 DEF Extends
<1>4. \A i \in 1 .. Len(log) : \A p : Addressed(i, p)' <=> Addressed(i, p)
  BY <1>2 DEF Addressed
<1> QED
  BY <1>1, <1>2, <1>3, <1>4, RecordedStays DEF Extends

\* what is owed does not depend on the events to come
LEMMA DebtsCarry ==
  ASSUME IInv, IInv', Extends, Debts(proj', Given'), proj'.cursor <= Len(log)
  PROVE  Debts(proj, Given)'
<1>1. proj'.cursor \in 0 .. Len(log)
  <2>1. proj'.cursor \in Nat
    BY DEF IInv, TypeOK, Projection
  <2> QED
    BY <2>1, Kept
<1>2. Recorded'[proj'.cursor] = Recorded[proj'.cursor]
  BY <1>1, LedgerStays
<1>3. ASSUME NEW p \in Agent PROVE RelOK(proj, Given, p)'
  <2>1. RelOK(proj', Given', p) /\ Recorded[proj'.cursor][p].since \in Nat
    <3>1. Recorded[proj'.cursor][p] \in Past
      BY <1>1, RecordedTyped DEF Agent
    <3> QED
      BY <3>1 DEF Past, Debts
  <2>2. ASSUME NEW s \in Recorded[proj'.cursor][p].since + 1 .. proj'.cursor, Addressed(s, p)'
        PROVE  Addressed(s, p)
    <3>1. s \in 1 .. Len(log)
      BY <1>1, <2>1
    <3> QED
      BY <2>2, <3>1, LedgerStays
  <2>3. \A s : Covered(proj', Given', s, p) <=> Covered(proj, Given, s, p)'
    BY DEF Covered
  <2> QED
    BY <1>2, <2>1, <2>2, <2>3 DEF RelOK
<1>4. \A r \in proj'.box : RowOK(proj, Given, r)'
  BY DEF Debts, RowOK
<1> QED
  BY <1>3, <1>4 DEF Debts

\* ... and neither does what a detachment declared
LEMMA DeclaresCarry ==
  ASSUME IInv, IInv', Extends, NEW e \in LedgerEvent, NEW n \in 0 .. Len(log), e.after <= Len(log),
         NEW d, d \subseteq Given', Declares(e, n, d)
  PROVE  Declares(e, n, Given)'
<1>1. Recorded'[n] = Recorded[n] /\ Len(log) \in Nat /\ e.after \in Nat
  BY LedgerStays, LimitAssumption DEF LedgerEvent
<1>2. SUFFICES ASSUME e.kind = "detached", e.p \in Agent, e.rev = Recorded[n][e.p].rev + 1,
                      NEW s \in Recorded[n][e.p].since + 1 .. e.after, Addressed(s, e.p)'
               PROVE  Mark(s, e.p) \in Given'
  BY <1>1 DEF Declares, Mark
<1>3. Recorded[n][e.p].since \in Nat
  BY <1>2, RecordedTyped DEF Past, Agent
<1>4. s \in 1 .. Len(log)
  BY <1>1, <1>2, <1>3
<1>5. Addressed(s, e.p)
  BY <1>2, <1>4, LedgerStays
<1> QED
  BY <1>2, <1>5 DEF Declares

LEMMA EventsCarry ==
  ASSUME IInv, IInv', Extends, NEW i \in 1 .. Len(log), EventOK(i, Given)
  PROVE  EventOK(i, Given)'
<1>1. log'[i] = log[i] /\ log[i] \in LedgerEvent /\ Len(log) \in Nat /\ i - 1 \in 0 .. Len(log)
  BY LedgerStays, Kept
<1>2. CASE log[i].kind = "detached"
  <2>1. log[i].after \in Nat /\ log[i].after < i
    BY <1>1, <1>2, LimitAssumption DEF EventOK, LedgerEvent
  <2>2. log[i].after <= Len(log)
    BY <1>1, <2>1
  <2>3. PICK e \in LedgerEvent : e = log[i]
    BY <1>1
  <2>4. Declares(e, i - 1, Given)'
    BY <1>1, <2>2, <2>3, DeclaresCarry DEF EventOK, Extends
  <2> QED
    BY <1>1, <2>1, <2>3, <2>4 DEF EventOK, Routed, Declares
<1>3. CASE log[i].kind # "detached"
  BY <1>1, <1>3 DEF EventOK, Routed, Declares
<1> QED
  BY <1>2, <1>3

\* a handler whose event is no detachment
Harmless(e) == e.kind # "detached" /\ Routed(e)

LEMMA TaskCarry ==
  ASSUME IInv, IInv', Extends, NEW h \in Running, NEW d, d \subseteq Given', TaskOK(h, d)
  PROVE  TaskOK(h, Given)'
<1>1. h.ev \in LedgerEvent /\ h.ev.rev \in Nat
  BY DEF Running, LedgerEvent
<1>2. CASE h.ev.kind # "detached"
  BY <1>2 DEF TaskOK, Routed, Declares
<1>3. CASE h.ev.kind = "detached"
  <2>1. h.ev.after \in Nat /\ h.ev.after <= Len(log) /\ Len(log) \in Nat /\ Len(log') \in Nat /\ Len(log) <= Len(log')
    BY <1>1, <1>3, LedgerStays, LimitAssumption DEF TaskOK, LedgerEvent
  <2>2. Declares(h.ev, Len(log), Given)'
    <3>1. CASE Len(log') = Len(log)
      <4>1. Len(log) \in 0 .. Len(log) /\ Declares(h.ev, Len(log), d)
        BY <2>1 DEF TaskOK
      <4>2. PICK n, e : n = Len(log) /\ e = h.ev
        OBVIOUS
      <4>3. Declares(e, n, Given)'
        BY <1>1, <2>1, <4>1, <4>2, DeclaresCarry
      <4> QED
        BY <3>1, <4>2, <4>3 DEF Declares
    <3>2. CASE Len(log') = Len(log) + 1
      <4>1. SUFFICES ASSUME h.ev.p \in Agent, h.ev.rev = Recorded'[Len(log')][h.ev.p].rev + 1
                     PROVE  Declares(h.ev, Len(log), Given)'
        BY DEF Declares
      <4>2. h.ev.p \in Participant /\ h.ev.rev <= Recorded[Len(log)][h.ev.p].rev + 1
        BY <1>3, <4>1 DEF TaskOK, Agent
      <4>3. Recorded'[Len(log)] = Recorded[Len(log)]
        BY <2>1, LedgerStays
      <4>4. (IInv => \A p \in Participant : \A n \in 1 .. Len(log) :
               Recorded[n][p] = Recorded[n - 1][p] \/ Recorded[n][p].rev = Recorded[n - 1][p].rev + 1)'
        BY EveryRecordRises, PTL
      <4>5. \/ Recorded'[Len(log')][h.ev.p] = Recorded'[Len(log') - 1][h.ev.p]
            \/ Recorded'[Len(log')][h.ev.p].rev = Recorded'[Len(log') - 1][h.ev.p].rev + 1
        <5>1. Len(log') \in 1 .. Len(log')
          BY <2>1, <3>2
        <5> QED
          BY <4>2, <4>4, <5>1
      <4>6. Recorded[Len(log)][h.ev.p].rev \in Nat
        BY <2>1, <4>2, RecordedTyped DEF Past
      <4>7. Recorded'[Len(log')][h.ev.p] = Recorded[Len(log)][h.ev.p]
        <5>1. Len(log') - 1 = Len(log)
          BY <2>1, <3>2
        <5>2. Recorded'[Len(log') - 1][h.ev.p] = Recorded[Len(log)][h.ev.p]
          BY <4>3, <5>1
        <5>3. Recorded'[Len(log')][h.ev.p].rev # Recorded[Len(log)][h.ev.p].rev + 1
          <6>1. PICK a \in Nat : a = Recorded[Len(log)][h.ev.p].rev
            BY <4>6
          <6>2. SUFFICES ASSUME Recorded'[Len(log')][h.ev.p].rev = a + 1 PROVE FALSE
            BY <6>1
          <6>3. h.ev.rev = (a + 1) + 1 /\ h.ev.rev <= a + 1
            BY <4>1, <4>2, <6>1, <6>2
          <6> QED
            BY <6>3
        <5> QED
          BY <4>5, <5>2, <5>3
      <4>8. Declares(h.ev, Len(log), d) /\ Len(log) \in 0 .. Len(log)
        BY <2>1 DEF TaskOK
      <4>9. PICK n, e : n = Len(log) /\ e = h.ev
        OBVIOUS
      <4>10. Declares(e, n, Given)'
        BY <1>1, <2>1, <4>8, <4>9, DeclaresCarry
      <4> QED
        BY <4>3, <4>7, <4>9, <4>10 DEF Declares
    <3> QED
      BY <3>1, <3>2, LedgerStays
  <2>3. h.ev.p \in Agent => h.ev.rev <= Recorded'[Len(log')][h.ev.p].rev + 1
    <3>1. SUFFICES ASSUME h.ev.p \in Agent PROVE h.ev.rev <= Recorded'[Len(log')][h.ev.p].rev + 1
      OBVIOUS
    <3>2. h.ev.rev <= Recorded[Len(log)][h.ev.p].rev + 1 /\ Recorded'[Len(log)] = Recorded[Len(log)] /\ h.ev.p \in Participant
      BY <1>3, <2>1, <3>1, LedgerStays DEF TaskOK, Agent
    <3>3. (IInv => \A p \in Participant : \A m \in 0 .. Len(log) : \A n \in m .. Len(log) :
             /\ Recorded[m][p].rev <= Recorded[n][p].rev
             /\ Recorded[m][p].rev = Recorded[n][p].rev => Recorded[m][p] = Recorded[n][p])'
      BY EveryRevDecides, PTL
    <3>4. Recorded'[Len(log)][h.ev.p].rev <= Recorded'[Len(log')][h.ev.p].rev
      BY <2>1, <3>2, <3>3
    <3>5. (IInv => \A n \in 0 .. Len(log) : \A p \in Participant : Recorded[n][p] \in Past)'
      BY RecordedTyped, PTL
    <3>6. Recorded'[Len(log)][h.ev.p].rev \in Nat /\ Recorded'[Len(log')][h.ev.p].rev \in Nat
      BY <2>1, <3>2, <3>5 DEF Past
    <3> QED
      BY <1>1, <3>2, <3>4, <3>6
  <2> QED
    BY <1>3, <2>1, <2>2, <2>3 DEF TaskOK, Routed
<1> QED
  BY <1>2, <1>3

-----------------------------------------------------------------------------
(* What handlers are about to append *)

Speaks == \A u \in Task : task'[u].ev = task[u].ev \/ Harmless(task'[u].ev)

LEMMA SpeakOne ==
  ASSUME IInv, NEW t \in Task, NEW h, task' = [task EXCEPT ![t] = h],
         h.ev = task[t].ev \/ Harmless(h.ev)
  PROVE  Speaks
BY Kept DEF Speaks

LEMMA FactHarmless ==
  ASSUME NEW to PROVE Harmless(Fact(to))
BY DEF Harmless, Routed, Fact, Subscription

LEMMA IdleHarmless ==
  Idle.ev = Fact({}) /\ Harmless(Idle.ev)
BY FactHarmless DEF Idle

LEMMA FinishSpeaks ==
  ASSUME IInv, NEW t \in Task, Finish(t) PROVE Speaks
BY SpeakOne, IdleHarmless DEF Finish

LEMMA QueueSpeaks ==
  ASSUME IInv, NEW t \in Task, NEW e, Queues(t, e), Harmless(e) PROVE Speaks
<1>1. PICK h : h = [task[t] EXCEPT !.pc = "queued", !.ev = e,
                                   !.rev = IF task[t].kind = "join" THEN e.rev ELSE @]
  OBVIOUS
<1>2. task' = [task EXCEPT ![t] = h] /\ h.ev = e
  BY <1>1, MyTask DEF Queues, Running
<1> QED
  BY <1>2, SpeakOne

LEMMA PublishedSpeaks ==
  ASSUME IInv, NEW t \in Task, Published(t) PROVE Speaks
<1>1. CASE Finish(t)
  BY <1>1, FinishSpeaks
<1>2. ASSUME NEW pc, task' = [task EXCEPT ![t].pc = pc] PROVE Speaks
  <2>1. PICK h : h = [task[t] EXCEPT !.pc = pc]
    OBVIOUS
  <2>2. task' = [task EXCEPT ![t] = h] /\ h.ev = task[t].ev
    BY <1>2, <2>1, MyTask DEF Running
  <2> QED
    BY <2>2, SpeakOne
<1> QED
  BY <1>1, <1>2 DEF Published

\* a step that leaves the ledger, the projection and what is settled
Quietly == UNCHANGED <<log, proj, done, slipped>> /\ Speaks

LEMMA ArriveQuietly ==
  ASSUME IInv, NEW t \in Task, Arrive(t)
  PROVE  Quietly
<1>1. ASSUME NEW rec, Begin(t, rec), Harmless(rec.ev) PROVE Quietly
  BY <1>1, SpeakOne DEF Begin, Quietly
<1>2. ASSUME NEW kind, NEW p PROVE Handling(kind, p).ev = Fact({}) /\ Waiting(kind, p).ev = Fact({})
  BY DEF Waiting, Handling, Idle
<1>3. ASSUME NEW p, NEW op, Join(t, p, op) PROVE Quietly
  <2>1. [Waiting("join", p) EXCEPT !.op = op].ev = Fact({})
    BY DEF Waiting, Handling, Idle
  <2> QED
    BY <1>1, <1>3, <2>1, FactHarmless DEF Join
<1>4. ASSUME NEW p, NEW rev, Leave(t, p, rev) PROVE Quietly
  <2>1. [Waiting("leave", p) EXCEPT !.rev = rev].ev = Fact({})
    BY DEF Waiting, Handling, Idle
  <2> QED
    BY <1>1, <1>4, <2>1, FactHarmless DEF Leave
<1>5. ASSUME NEW p, Detach(t, p) PROVE Quietly
  BY <1>1, <1>2, <1>5, FactHarmless DEF Detach
<1>6. ASSUME NEW kind, NEW p PROVE Deriving(Handling(kind, p), 0).ev = Fact({})
  BY DEF Deriving, Handling, Idle
<1>7. ASSUME NEW p, UpdateMetadata(t, p) \/ Subscribe(t, p) PROVE Quietly
  BY <1>1, <1>6, <1>7, FactHarmless DEF UpdateMetadata, Subscribe
<1>8. ASSUME NEW p, Unsubscribe(t, p) PROVE Quietly
  <2>1. [Handling("close", p) EXCEPT !.pc = "closing"].ev = Fact({})
    BY DEF Handling, Idle
  <2>2. task' = task \/ task' = [task EXCEPT ![t] = [Handling("close", p) EXCEPT !.pc = "closing"]]
    BY <1>8 DEF Unsubscribe
  <2>3. Speaks
    <3>1. CASE task' = task
      BY <3>1 DEF Speaks
    <3>2. CASE task' = [task EXCEPT ![t] = [Handling("close", p) EXCEPT !.pc = "closing"]]
      BY <2>1, <3>2, FactHarmless, SpeakOne
    <3> QED
      BY <2>2, <3>1, <3>2
  <2> QED
    BY <1>8, <2>3 DEF Unsubscribe, history, Quietly
<1>9. ASSUME NEW to, Publish(t, to) PROVE Quietly
  <2>1. [Idle EXCEPT !.pc = "queued", !.kind = "publish", !.ev = Fact(to)].ev = Fact(to)
    BY DEF Idle
  <2> QED
    BY <1>1, <1>9, <2>1, FactHarmless DEF Publish
<1>10. ASSUME Derivation(t) PROVE Quietly
  BY <1>1, <1>6, <1>10, FactHarmless DEF Derivation
<1> QED
  BY <1>3, <1>4, <1>5, <1>7, <1>8, <1>9, <1>10 DEF Arrive

LEMMA WaitsQuietly ==
  ASSUME IInv, NEW t \in Task,
         \/ Acquire(t) \/ CountsResponses(t) \/ ReadEvents(t) \/ SkipFolded(t) \/ DeriveThrows(t)
         \/ Committed(t) \/ Answer(t) \/ OpenSubscriptionResponse(t)
         \/ CommitExisting(t) \/ CommitRejects(t) \/ WaitFails(t)
  PROVE  Quietly
<1>1. ASSUME Ends(t) PROVE Quietly
  BY <1>1, FinishSpeaks DEF Ends, history, Quietly
<1>2. ASSUME task' = [task EXCEPT ![t] = Deriving(@, 0)] PROVE Speaks
  <2>1. Deriving(task[t], 0).ev = task[t].ev
    BY MyTask DEF Deriving, Running
  <2> QED
    BY <1>2, <2>1, SpeakOne
<1>3. CASE Acquire(t)
  BY <1>2, <1>3 DEF Acquire, history, Quietly
<1>4. CASE CountsResponses(t)
  BY <1>1, <1>2, <1>4 DEF CountsResponses, history, Quietly
<1>5. CASE ReadEvents(t)
  <2>1. PICK h : h = [task[t] EXCEPT !.batch = Len(log), !.next = proj.cursor + 1]
    OBVIOUS
  <2>2. task' = [task EXCEPT ![t] = h] /\ h.ev = task[t].ev
    BY <1>5, <2>1, MyTask DEF ReadEvents, Running
  <2> QED
    BY <1>5, <2>2, SpeakOne DEF ReadEvents, history, Quietly
<1>6. CASE SkipFolded(t)
  <2>1. PICK h : h = [task[t] EXCEPT !.next = proj.cursor + 1, !.snap = Pending(proj)]
    OBVIOUS
  <2>2. task' = [task EXCEPT ![t] = h] /\ h.ev = task[t].ev
    BY <1>6, <2>1, MyTask DEF SkipFolded, Running
  <2> QED
    BY <1>6, <2>2, SpeakOne DEF SkipFolded, history, Quietly
<1>7. CASE DeriveThrows(t) \/ CommitRejects(t)
  BY <1>1, <1>7 DEF DeriveThrows, CommitRejects
<1>8. CASE Committed(t) \/ CommitExisting(t)
  BY <1>8, PublishedSpeaks DEF Committed, CommitExisting, history, Quietly
<1>9. CASE Answer(t) \/ WaitFails(t)
  BY <1>9, FinishSpeaks DEF Answer, WaitFails, history, Quietly
<1>10. CASE OpenSubscriptionResponse(t)
  BY <1>10, SpeakOne, IdleHarmless DEF OpenSubscriptionResponse, history, Quietly
<1> QED
  BY <1>3, <1>4, <1>5, <1>6, <1>7, <1>8, <1>9, <1>10

LEMMA DecidesQuietly ==
  ASSUME IInv, Debts(proj, Given), NEW t \in Task,
         \/ JoinDecides(t) \/ LeaveDecides(t) \/ UpdateDecides(t)
         \/ OpenDecides(t) \/ CloseDecides(t) \/ DerivationEnds(t)
  PROVE  Quietly
<1>1. ASSUME Ends(t) PROVE Quietly
  BY <1>1, FinishSpeaks DEF Ends, history, Quietly
<1>2. ASSUME NEW e, Queue(t, e), Harmless(e) PROVE Quietly
  BY <1>2, QueueSpeaks DEF Queue, Queues, Quietly
<1>3. CASE JoinDecides(t)
  <2>1. task[t].kind = "join" /\ task[t].p \in Participant /\ task[t].op \in Op
    BY <1>3, MyTask, MySubject DEF JoinDecides, Decides, Sound
  <2>2. CASE \E o \in Retained(t) :
               /\ task' = [task EXCEPT ![t].pc = "rejoined", ![t].rev = o.rev]
               /\ UNCHANGED <<log, proj, held, writer, streams, history, bounds>>
    <3>1. PICK o : task' = [task EXCEPT ![t].pc = "rejoined", ![t].rev = o.rev]
      BY <2>2
    <3>2. PICK h : h = [task[t] EXCEPT !.pc = "rejoined", !.rev = o.rev]
      OBVIOUS
    <3>3. task' = [task EXCEPT ![t] = h] /\ h.ev = task[t].ev
      BY <3>1, <3>2, MyTask DEF Running
    <3> QED
      BY <2>2, <3>3, SpeakOne DEF history, Quietly
  <2>3. CASE Queue(t, [Change(t, IF Me(t).active THEN "revised" ELSE "opened")
                         EXCEPT !.op = task[t].op, !.route = RouteOf[task[t].op]])
    <3>1. PICK kind \in Subscription : kind = IF Me(t).active THEN "revised" ELSE "opened"
      BY DEF Subscription
    <3>2. PICK c : c = Change(t, kind)
      OBVIOUS
    <3>3. c \in LedgerEvent /\ c.kind = kind
      BY <2>1, <3>1, <3>2, ChangeOK
    <3>4. PICK e : e = [c EXCEPT !.op = task[t].op, !.route = RouteOf[task[t].op]]
      OBVIOUS
    <3>5. e.kind \in Subscription /\ e.route = RouteOf[task[t].op]
      BY <3>1, <3>3, <3>4 DEF LedgerEvent
    <3>6. Harmless(e)
      BY <2>1, <3>5, OpAssumption DEF Harmless, Routed, Subscription
    <3>7. Queue(t, e)
      BY <2>3, <3>1, <3>2, <3>4
    <3> QED
      BY <1>2, <3>6, <3>7
  <2> QED
    BY <1>3, <2>2, <2>3 DEF JoinDecides
<1>4. ASSUME task[t].p \in Participant, Queue(t, Change(t, "ended")) PROVE Quietly
  <2>1. Harmless(Change(t, "ended"))
    BY <1>4, ChangeOK DEF Harmless, Routed, Subscription
  <2> QED
    BY <1>2, <1>4, <2>1
<1>5. CASE LeaveDecides(t) \/ CloseDecides(t)
  <2>1. task[t].p \in Participant
    BY <1>5, MySubject DEF LeaveDecides, CloseDecides, Decides
  <2> QED
    BY <1>1, <1>4, <1>5, <2>1 DEF LeaveDecides, CloseDecides
<1>6. CASE UpdateDecides(t)
  <2>1. task[t].p \in Participant
    BY <1>6, MySubject DEF UpdateDecides, Decides
  <2>2. PICK c : c = Change(t, "revised")
    OBVIOUS
  <2>3. c \in LedgerEvent /\ c.kind = "revised" /\ c.p = task[t].p
    BY <2>1, <2>2, ChangeOK DEF Subscription
  <2>4. PICK e : e = [c EXCEPT !.route = Me(t).route]
    OBVIOUS
  <2>5. e.kind = "revised" /\ e.p = task[t].p /\ e.route = Me(t).route
    BY <2>3, <2>4 DEF LedgerEvent
  <2>6. CASE Me(t).active /\ Queue(t, e)
    <3>1. task[t].p \in Agent => Me(t).route # "session"
      BY <2>6 DEF Debts, RelOK, Me
    <3>2. Harmless(e)
      BY <2>5, <3>1 DEF Harmless, Routed
    <3> QED
      BY <1>2, <2>6, <3>2
  <2> QED
    BY <1>1, <1>6, <2>2, <2>4, <2>6 DEF UpdateDecides
<1>7. CASE OpenDecides(t)
  <2>1. task[t].p \in Participant /\ task[t].p \notin Agent
    BY <1>7, MySubject, MyTask DEF OpenDecides, Decides, Sound, Agent
  <2>2. CASE Goes(t, "opening")
    <3>1. PICK h : h = [task[t] EXCEPT !.pc = "opening"]
      OBVIOUS
    <3>2. task' = [task EXCEPT ![t] = h] /\ h.ev = task[t].ev
      BY <2>2, <3>1, MyTask DEF Goes, Running
    <3> QED
      BY <2>2, <3>2, SpeakOne DEF Goes, history, Quietly
  <2>3. ASSUME NEW kind \in Subscription, Queue(t, Change(t, kind)) PROVE Quietly
    <3>1. Harmless(Change(t, kind))
      BY <2>1, <2>3, ChangeOK DEF Harmless, Routed, Subscription
    <3> QED
      BY <1>2, <2>3, <3>1
  <2> QED
    BY <1>7, <2>2, <2>3 DEF OpenDecides, Subscription
<1>8. CASE DerivationEnds(t)
  BY <1>1, <1>8 DEF DerivationEnds
<1> QED
  BY <1>3, <1>5, <1>6, <1>7, <1>8

\* a boundary lies below every open delivery
LEMMA BoundaryBelow ==
  ASSUME NEW pr \in Projection, NEW p \in Participant, NEW b, b = DetachRecoveryBoundary(pr, p, pr.cursor)
  PROVE  b \in Nat /\ b <= pr.cursor /\ \A r \in pr.box : r.p = p /\ r.st = "open" => r.seq > b
<1>1. PICK open : open = {r.seq : r \in {x \in pr.box : x.p = p /\ x.st = "open"}}
  OBVIOUS
<1>2. open \in SUBSET Nat /\ \A s \in open : s \in 1 .. MaxLog
  BY <1>1 DEF Projection
<1>3. pr.cursor \in Nat
  BY LimitAssumption DEF Projection
<1>4. \A r \in pr.box : r.p = p /\ r.st = "open" => r.seq \in open
  BY <1>1
<1>5. b = IF open = {} \/ pr.cursor < Min(open) THEN pr.cursor ELSE Min(open) - 1
  BY <1>1 DEF DetachRecoveryBoundary
<1>6. CASE open = {}
  BY <1>3, <1>4, <1>5, <1>6
<1>7. CASE open # {}
  <2>1. PICK m \in 1 .. MaxLog : m = Min(open) /\ \A x \in open : m <= x
    BY <1>2, <1>7, MinFact
  <2>2. b \in Nat /\ b <= pr.cursor /\ b < m
    BY <1>3, <1>5, <1>7, <2>1, LimitAssumption
  <2>3. \A x \in open : x \in Nat /\ m <= x
    BY <1>2, <2>1
  <2>4. \A x \in open : x > b
    BY <2>1, <2>2, <2>3, LimitAssumption
  <2> QED
    BY <1>4, <2>2, <2>4
<1> QED
  BY <1>6, <1>7

\* what a detachment declares is settled, or passed over and marked
LEMMA DetachDecidesOK ==
  ASSUME IInv, ProjectionIsFold, Debts(proj, Given), NEW t \in Task,
         NEW e, e = [Change(t, "detached") EXCEPT !.after = Boundary(t)],
         task[t].p \in Participant, Me(t).active, Me(t).attached, NEW h, h.ev = e
  PROVE  TaskOK(h, Given \cup StillOwed(t))
<1>0. PICK p \in Participant : p = task[t].p
  OBVIOUS
<1>1. PICK b, c : p = task[t].p /\ b = Boundary(t) /\ c = Change(t, "detached")
  BY <1>0
<1>2. b \in Nat /\ b <= proj.cursor /\ \A r \in proj.box : r.p = p /\ r.st = "open" => r.seq > b
  BY <1>1, Kept, BoundaryBelow DEF Boundary
<1>3. c \in LedgerEvent /\ c.kind = "detached" /\ c.p = p /\ c.rev = Me(t).rev + 1 /\ Me(t) \in Relationship
  BY <1>1, ChangeOK
<1>4. e.kind = "detached" /\ e.p = p /\ e.rev = Me(t).rev + 1 /\ e.after = b
  BY <1>1, <1>3 DEF LedgerEvent
<1>5. proj.cursor \in 0 .. Len(log) /\ Len(log) \in Nat /\ Len(log) \in proj.cursor .. Len(log) /\ Len(log) \in 0 .. Len(log)
  BY Kept
<1>6. PICK m : m = Recorded[proj.cursor][p]
  OBVIOUS
<1>7. m.rev = Me(t).rev /\ m \in Past
  BY <1>1, <1>5, <1>6, FoldIsAgreement, RecordedTyped DEF Agrees, Me
<1>8. /\ m.rev <= Recorded[Len(log)][p].rev
      /\ m.rev = Recorded[Len(log)][p].rev => m = Recorded[Len(log)][p]
  BY <1>5, <1>6, RevDecides
<1>9. m.rev \in Nat /\ m.since \in Nat /\ Recorded[Len(log)][p].rev \in Nat
  BY <1>5, <1>7, RecordedTyped DEF Past
<1>10. ASSUME p \in Agent, NEW s \in m.since + 1 .. b, Addressed(s, p)
       PROVE  Mark(s, p) \in Given \cup StillOwed(t)
  <2>1. s \in m.since + 1 .. proj.cursor /\ s \in Nat /\ s <= b
    BY <1>2, <1>5, <1>9
  <2>2. proj.rel[p] = Me(t) /\ RelOK(proj, Given, p)
    BY <1>1, <1>10 DEF Me, Debts
  <2>3. Covered(proj, Given, s, p)
    BY <1>6, <1>10, <2>1, <2>2 DEF RelOK
  <2>4. CASE \E r \in proj.box : r.seq = s /\ r.p = p /\ r.st = "open"
    BY <1>2, <2>1, <2>4
  <2>5. CASE Me(t).gap # <<>> /\ s \in Me(t).gap[1] + 1 .. Me(t).gap[2]
    <3>1. StillOwed(t) = {[seq |-> i, p |-> task[t].p] :
                            i \in {n \in Me(t).gap[1] + 1 .. Me(t).gap[2] : n <= Boundary(t)}}
      BY <2>5 DEF StillOwed
    <3> QED
      BY <1>1, <2>1, <2>5, <3>1 DEF Mark
  <2> QED
    BY <2>2, <2>3, <2>4, <2>5 DEF Covered
<1>11. Declares(e, Len(log), Given \cup StillOwed(t))
  <2>1. SUFFICES ASSUME p \in Agent, e.rev = Recorded[Len(log)][p].rev + 1,
                        NEW s \in Recorded[Len(log)][p].since + 1 .. b, Addressed(s, p)
                 PROVE  Mark(s, p) \in Given \cup StillOwed(t)
    BY <1>4 DEF Declares
  <2>2. m = Recorded[Len(log)][p]
    BY <1>4, <1>7, <1>8, <1>9, <2>1
  <2> QED
    BY <1>10, <2>1, <2>2
<1>12. e.rev <= Recorded[Len(log)][p].rev + 1 /\ b <= Len(log)
  BY <1>2, <1>4, <1>5, <1>7, <1>8, <1>9
<1> QED
  BY <1>4, <1>11, <1>12 DEF TaskOK, Routed, Subscription

LEMMA DeclaresGrows ==
  ASSUME NEW e, NEW n, NEW d, NEW D, d \subseteq D, Declares(e, n, d)
  PROVE  Declares(e, n, D)
BY DEF Declares

LEMMA TasksSpeak ==
  ASSUME GInv, NEW D, Given \subseteq D, Speaks
  PROVE  \A u \in Task : TaskOK(task'[u], D)
<1>1. TAKE u \in Task
<1>2. CASE task'[u].ev = task[u].ev
  <2>1. TaskOK(task[u], Given)
    BY DEF GInv
  <2> QED
    BY <1>2, <2>1, DeclaresGrows DEF TaskOK
<1>3. CASE Harmless(task'[u].ev)
  BY <1>3 DEF Harmless, TaskOK, Declares
<1> QED
  BY <1>2, <1>3 DEF Speaks

\* the invariant carries over a step
LEMMA GStep ==
  ASSUME IInv, IInv', GInv, Given \subseteq Given',
         log' = log \/ \E t \in Task : log' = Append(log, task[t].ev),
         Debts(proj', Given'), proj'.cursor <= Len(log), \A u \in Task : TaskOK(task'[u], Given')
  PROVE  GInv'
<1>1. Extends
  BY DEF Extends
<1>2. Debts(proj, Given)'
  BY <1>1, DebtsCarry
<1>3. \A u \in Task : TaskOK(task[u], Given)'
  <2>1. \A u \in Task : task'[u] \in Running
    BY DEF IInv, TypeOK
  <2>2. ASSUME NEW u \in Task PROVE TaskOK(task[u], Given)'
    <3>1. PICK h, d : h = task'[u] /\ d = Given'
      OBVIOUS
    <3>2. h \in Running /\ TaskOK(h, d) /\ d \subseteq Given'
      BY <2>1, <3>1
    <3>3. TaskOK(h, Given)'
      BY <1>1, <3>2, TaskCarry
    <3> QED
      BY <3>1, <3>3 DEF TaskOK, Declares, Routed, Addressed
  <2> QED
    BY <2>2
<1>4. ASSUME NEW i \in DOMAIN log', i > Len(Inherited) PROVE EventOK(i, Given)'
  <2>1. log \in Seq(LedgerEvent) /\ Len(log) \in Nat /\ log' \in Seq(LedgerEvent) /\ i \in 1 .. Len(log')
    BY Kept, <1>4 DEF IInv, TypeOK
  <2>2. CASE i \in 1 .. Len(log)
    <3>1. EventOK(i, Given)
      BY <1>4, <2>1, <2>2 DEF GInv
    <3> QED
      BY <1>1, <2>2, <3>1, EventsCarry
  <2>3. CASE i \notin 1 .. Len(log)
    <3>1. PICK t \in Task : log' = Append(log, task[t].ev)
      BY <2>1, <2>3
    <3>2. i = Len(log) + 1 /\ i - 1 = Len(log) /\ log'[i] = task[t].ev /\ Len(log) \in 0 .. Len(log)
      BY <2>1, <2>3, <3>1
    <3>3. PICK e \in LedgerEvent : e = task[t].ev
      BY MyTask DEF Running
    <3>4. TaskOK(task[t], Given)
      BY DEF GInv
    <3>5. CASE e.kind = "detached"
      <4>1. e.after \in Nat /\ e.after <= Len(log) /\ Declares(e, Len(log), Given)
        BY <3>3, <3>4, <3>5, LimitAssumption DEF TaskOK, LedgerEvent
      <4>2. Declares(e, i - 1, Given)'
        <5>1. PICK n : n = Len(log)
          OBVIOUS
        <5>2. Declares(e, n, Given)'
          BY <1>1, <3>2, <4>1, <5>1, DeclaresCarry
        <5> QED
          BY <3>2, <5>1, <5>2
      <4>3. log'[i] = e /\ e.after < i /\ Routed(e)
        BY <2>1, <3>2, <3>3, <3>4, <4>1 DEF TaskOK
      <4> QED
        BY <4>2, <4>3 DEF EventOK, Routed, Declares, Addressed
    <3>6. CASE e.kind # "detached"
      BY <3>2, <3>3, <3>4, <3>6 DEF EventOK, TaskOK, Routed, Declares
    <3> QED
      BY <3>5, <3>6
  <2> QED
    BY <2>2, <2>3
<1> QED
  BY <1>2, <1>3, <1>4 DEF GInv

LEMMA QuietOwes ==
  ASSUME IInv, IInv', GInv, Quietly
  PROVE  GInv'
<1>1. Given' = Given /\ proj' = proj /\ log' = log /\ Speaks
  BY DEF Quietly, Given
<1>2. Debts(proj', Given') /\ proj'.cursor <= Len(log)
  BY <1>1, Kept DEF GInv
<1>3. \A u \in Task : TaskOK(task'[u], Given')
  BY <1>1, TasksSpeak
<1> QED
  BY <1>1, <1>2, <1>3, GStep

\* a step of the projection on the ledger as it is
LEMMA DerivesOwes ==
  ASSUME IInv, IInv', GInv, UNCHANGED log, Speaks, NEW D, Given' = D, Given \subseteq D,
         Debts(proj', D)
  PROVE  GInv'
<1>1. proj'.cursor <= Len(log)
  <2>1. proj'.cursor <= Len(log')
    BY DEF IInv, TypeOK
  <2> QED
    BY <2>1
<1>2. \A u \in Task : TaskOK(task'[u], Given')
  BY TasksSpeak
<1> QED
  BY <1>1, <1>2, GStep

LEMMA ResumeOwes ==
  ASSUME IInv, IInv', GInv, NEW t \in Task, ResumeBackfill(t)
  PROVE  GInv'
<1>0. PICK x \in task[t].snap :
        /\ proj' = IF x.after >= x.through
                     THEN CompleteEmptyReattachBackfill(proj, x.p)
                     ELSE AdvanceReattachBackfill(proj, log, PageOf(x))
        /\ slipped' = slipped \cup Skipped(x)
        /\ \E s : task' = [task EXCEPT ![t].snap = s]
        /\ UNCHANGED <<log, done>>
  BY DEF ResumeBackfill
<1>1. PICK s : task' = [task EXCEPT ![t].snap = s] /\ UNCHANGED <<log, done>>
  BY <1>0
<1>2. x \in [p : Participant, after : 0 .. MaxLog, through : 0 .. MaxLog]
  BY MyPages DEF Pages
<1>3. Speaks
  <2>1. PICK h : h = [task[t] EXCEPT !.snap = s]
    OBVIOUS
  <2>2. task' = [task EXCEPT ![t] = h] /\ h.ev = task[t].ev
    BY <1>1, <2>1, MyTask DEF Running
  <2> QED
    BY <2>2, SpeakOne
<1>4. PICK D : D = Given \cup Skipped(x)
  OBVIOUS
<1>5. Given' = D /\ Given \subseteq D
  BY <1>0, <1>1, <1>4 DEF Given
<1>6. Debts(proj', D)
  <2>1. x.after \in Nat /\ x.through \in Nat /\ x.p \in Participant
    BY <1>2, LimitAssumption
  <2>2. CASE x.after >= x.through
    <3>1. Skipped(x) = {}
      BY <2>2 DEF Skipped
    <3>2. D = Given
      BY <1>4, <3>1
    <3> QED
      BY <1>0, <1>1, <2>1, <2>2, <3>2, CompleteEmptyDebts DEF GInv
  <2>3. CASE x.after < x.through
    <3>1. ~(x.after >= x.through)
      BY <2>1, <2>3
    <3>2. Debts(AdvanceReattachBackfill(proj, log, PageOf(x)), Given \cup Skipped(x))
      BY <1>2, <2>3, AdvanceDebts DEF GInv
    <3> QED
      BY <1>0, <1>1, <1>4, <3>1, <3>2
  <2> QED
    BY <2>1, <2>2, <2>3
<1> QED
  BY <1>0, <1>1, <1>3, <1>5, <1>6, DerivesOwes

LEMMA FoldsNextOwes ==
  ASSUME IInv, IInv', ProjectionIsFold, GInv, NEW t \in Task, NEW s, s <= Len(log), FoldsNext(t, s)
  PROVE  GInv'
<1>1. /\ CanFold(proj, s) /\ proj' = Fold(proj, log, s) /\ UNCHANGED <<log, done, slipped>>
      /\ task' = [task EXCEPT ![t].next = s + 1, ![t].snap = Pending(proj')]
  BY DEF FoldsNext, history
<1>2. Speaks
  <2>1. PICK h : h = [task[t] EXCEPT !.next = s + 1, !.snap = Pending(proj')]
    OBVIOUS
  <2>2. task' = [task EXCEPT ![t] = h] /\ h.ev = task[t].ev
    BY <1>1, <2>1, MyTask DEF Running
  <2> QED
    BY <2>2, SpeakOne
<1>3. s > Len(Inherited) => EventOK(s, Given)
  <2>1. s \in DOMAIN log
    BY <1>1, NextEvent DEF CanFold
  <2> QED
    BY <2>1 DEF GInv
<1>4. Debts(proj', Given)
  BY <1>1, <1>3, FoldDebts DEF GInv
<1>5. Given' = Given
  BY <1>1 DEF Given
<1> QED
  BY <1>1, <1>2, <1>4, <1>5, DerivesOwes

LEMMA FoldsOwes ==
  ASSUME IInv, IInv', ProjectionIsFold, GInv, NEW t \in Task, FoldAppended(t) \/ FoldReplayed(t)
  PROVE  GInv'
<1>1. CASE FoldAppended(t)
  BY <1>1, MyPages, FoldsNextOwes DEF FoldAppended
<1>2. CASE FoldReplayed(t)
  <2>1. task[t].next <= task[t].batch /\ task[t].batch <= Len(log) /\ task[t].next \in Nat
        /\ task[t].batch \in Nat /\ Len(log) \in Nat
    BY <1>2, MyPages, Kept DEF FoldReplayed, Replaying
  <2>2. task[t].next <= Len(log)
    BY <2>1
  <2> QED
    BY <1>2, <2>2, FoldsNextOwes DEF FoldReplayed
<1> QED
  BY <1>1, <1>2

LEMMA CommitOwes ==
  ASSUME IInv, IInv', GInv, NEW t \in Task, Commit(t)
  PROVE  GInv'
<1>1. /\ log' = Append(log, task[t].ev) /\ UNCHANGED <<proj, done, slipped>>
      /\ task' = [task EXCEPT ![t] = Deriving(task[t], Len(log) + 1)]
  BY DEF Commit, history
<1>2. Speaks
  <2>1. Deriving(task[t], Len(log) + 1).ev = task[t].ev
    BY MyTask DEF Deriving, Running
  <2> QED
    BY <1>1, <2>1, SpeakOne
<1>3. Given' = Given /\ Debts(proj', Given) /\ proj'.cursor <= Len(log)
  BY <1>1, Kept DEF Given, GInv
<1>4. \A u \in Task : TaskOK(task'[u], Given')
  BY <1>2, <1>3, TasksSpeak
<1>5. \E u \in Task : log' = Append(log, task[u].ev)
  BY <1>1
<1> QED
  BY <1>3, <1>4, <1>5, GStep

LEMMA DetachOwes ==
  ASSUME IInv, IInv', ProjectionIsFold, GInv, NEW t \in Task, DetachDecides(t)
  PROVE  GInv'
<1>1. CASE Ends(t)
  BY <1>1, FinishSpeaks, QuietOwes DEF Ends, history, Quietly
<1>2. CASE /\ Me(t).active /\ Me(t).attached
           /\ Queues(t, [Change(t, "detached") EXCEPT !.after = Boundary(t)])
           /\ slipped' = slipped \cup StillOwed(t)
  <2>1. task[t].p \in Participant
    BY MySubject DEF DetachDecides, Decides
  <2>2. PICK e : e = [Change(t, "detached") EXCEPT !.after = Boundary(t)]
    OBVIOUS
  <2>3. PICK h : h = [task[t] EXCEPT !.pc = "queued", !.ev = e,
                                     !.rev = IF task[t].kind = "join" THEN e.rev ELSE @]
    OBVIOUS
  <2>4. task' = [task EXCEPT ![t] = h] /\ h.ev = e /\ UNCHANGED <<log, proj, done>>
    <3>1. Queues(t, e)
      BY <1>2, <2>2
    <3>2. h.ev = e
      BY <2>3, MyTask DEF Running
    <3>3. task' = [task EXCEPT ![t] = h]
      BY <2>3, <3>1 DEF Queues
    <3>4. UNCHANGED <<log, proj, done>>
      BY <3>1 DEF Queues
    <3> QED
      BY <3>2, <3>3, <3>4
  <2>5. PICK D : D = Given \cup StillOwed(t)
    OBVIOUS
  <2>6. Given' = D /\ Given \subseteq D
    BY <1>2, <2>4, <2>5 DEF Given
  <2>7. TaskOK(h, D)
    BY <1>2, <2>1, <2>2, <2>4, <2>5, DetachDecidesOK DEF GInv
  <2>8. ASSUME NEW u \in Task PROVE TaskOK(task'[u], D)
    <3>1. CASE u = t
      BY <2>4, <2>7, <3>1, Kept
    <3>2. CASE u # t
      <4>1. task'[u] = task[u] /\ TaskOK(task[u], Given)
        BY <2>4, <3>2, Kept DEF GInv
      <4> QED
        BY <2>6, <4>1, DeclaresGrows DEF TaskOK
    <3> QED
      BY <3>1, <3>2
  <2>9. Debts(proj', D) /\ proj'.cursor <= Len(log)
    BY <2>4, <2>6, Kept, DebtsGrow DEF GInv
  <2> QED
    BY <2>4, <2>6, <2>8, <2>9, GStep
<1> QED
  BY <1>1, <1>2 DEF DetachDecides

LEMMA RedeliverOwes ==
  ASSUME IInv, IInv', GInv, NEW t \in Task, RedeliverPendingCall(t)
  PROVE  GInv'
<1>1. PICK s \in 1 .. proj.cursor : proj' = Derive(proj, log, {s}, {task[t].p}, TRUE)
  BY DEF RedeliverPendingCall
<1>2. task[t].p \in Participant /\ UNCHANGED <<log, task, done, slipped>>
  BY MyTask DEF RedeliverPendingCall, At, Sound, resident, history
<1>3. Debts(proj', Given) /\ Given' = Given /\ Speaks
  BY <1>1, <1>2, RedeliverDebts DEF GInv, Given, Speaks
<1> QED
  BY <1>2, <1>3, DerivesOwes

LEMMA AcknowledgeOwes ==
  ASSUME IInv, IInv', GInv, Acknowledge
  PROVE  GInv'
<1>1. PICK r \in proj.box : /\ r.st = "open" /\ proj' = Complete(proj, r)
                            /\ done' = done \cup {[seq |-> r.seq, p |-> r.p]}
                            /\ UNCHANGED <<log, resident, slipped>>
  BY DEF Acknowledge
<1>2. PICK D : D = Given \cup {Mark(r.seq, r.p)}
  OBVIOUS
<1>3. Given' = D /\ Given \subseteq D /\ Speaks /\ UNCHANGED log
  BY <1>1, <1>2 DEF Given, Mark, Speaks, resident
<1>4. Debts(proj', D)
  BY <1>1, <1>2, CompleteDebts DEF GInv
<1> QED
  BY <1>3, <1>4, DerivesOwes

LEMMA CrashOwes ==
  ASSUME IInv, IInv', GInv, Crash
  PROVE  GInv'
<1>1. /\ UNCHANGED <<log, done, slipped>> /\ task' = [t \in Task |-> Idle]
      /\ proj' = proj \/ proj' = EnsureProjectionVersion(proj)
  BY DEF Crash, history
<1>2. Speaks /\ Given' = Given
  BY <1>1, IdleHarmless DEF Speaks, Given
<1>3. Debts(proj', Given)
  <2>1. proj.boundary = Len(Inherited)
    BY Kept DEF Fits
  <2>2. CASE proj' = EnsureProjectionVersion(proj)
    BY <2>1, <2>2, EmptyDebts DEF EnsureProjectionVersion
  <2> QED
    BY <1>1, <2>2 DEF GInv
<1> QED
  BY <1>1, <1>2, <1>3, DerivesOwes

LEMMA NextOwes ==
  ASSUME IInv, IInv', ProjectionIsFold, GInv, [Next]_vars
  PROVE  GInv'
<1>1. CASE UNCHANGED vars
  BY <1>1, QuietOwes DEF vars, resident, history, Quietly, Speaks
<1>2. Debts(proj, Given)
  BY DEF GInv
<1>3. ASSUME NEW t \in Task, Step(t) PROVE GInv'
  <2>1. CASE ResumeBackfill(t)
    BY <2>1, ResumeOwes
  <2>2. CASE FoldAppended(t) \/ FoldReplayed(t)
    BY <2>2, FoldsOwes
  <2>3. CASE DetachDecides(t)
    BY <2>3, DetachOwes
  <2>4. CASE \/ CountsResponses(t) \/ ReadEvents(t) \/ SkipFolded(t) \/ DeriveThrows(t)
             \/ Committed(t) \/ Answer(t) \/ OpenSubscriptionResponse(t)
    BY <2>4, WaitsQuietly, QuietOwes
  <2>5. CASE \/ JoinDecides(t) \/ LeaveDecides(t) \/ UpdateDecides(t)
             \/ OpenDecides(t) \/ CloseDecides(t) \/ DerivationEnds(t)
    BY <1>2, <2>5, DecidesQuietly, QuietOwes
  <2> QED
    BY <1>3, <2>1, <2>2, <2>3, <2>4, <2>5 DEF Step
<1>4. ASSUME NEW t \in Task, Queued(t) PROVE GInv'
  BY <1>4, CommitOwes, WaitsQuietly, QuietOwes DEF Queued
<1>5. ASSUME NEW t \in Task, Arrive(t) PROVE GInv'
  BY <1>5, ArriveQuietly, QuietOwes
<1>6. ASSUME NEW t \in Task, Acquire(t) \/ WaitFails(t) PROVE GInv'
  BY <1>6, WaitsQuietly, QuietOwes
<1>7. ASSUME NEW p \in Session, Disconnect(p) PROVE GInv'
  BY <1>7, QuietOwes DEF Disconnect, history, Quietly, Speaks
<1> QED
  BY <1>1, <1>3, <1>4, <1>5, <1>6, <1>7, RedeliverOwes, AcknowledgeOwes, CrashOwes DEF Next

LEMMA InitOwes ==
  ASSUME Init, IInv PROVE GInv
<1>1. Debts(proj, Given)
  BY EmptyDebts DEF Init
<1>2. \A i \in DOMAIN log : ~(i > Len(Inherited))
  BY InheritedAssumption DEF Init
<1>3. ASSUME NEW t \in Task PROVE TaskOK(task[t], Given)
  <2>1. task[t] = Idle /\ Harmless(Idle.ev)
    BY IdleHarmless DEF Init
  <2> QED
    BY <2>1 DEF Harmless, TaskOK, Declares
<1> QED
  BY <1>1, <1>2, <1>3 DEF GInv

LEMMA OwedIsKept ==
  ASSUME IInv, ProjectionIsFold, GInv PROVE NothingLost
<1>1. SUFFICES ASSUME NEW p \in Agent, Recorded[proj.cursor][p].active,
                      NEW s \in Recorded[proj.cursor][p].since + 1 .. proj.cursor,
                      log[s].kind = "fact", p \in log[s].to
               PROVE  \/ [seq |-> s, p |-> p] \in done
                      \/ \E r \in proj.box : r.seq = s /\ r.p = p /\ r.st = "open"
                      \/ ~proj.rel[p].attached /\ s > proj.rel[p].at
                      \/ proj.rel[p].gap # <<>> /\ s \in proj.rel[p].gap[1] + 1 .. proj.rel[p].gap[2]
                      \/ [seq |-> s, p |-> p] \in slipped
  BY DEF NothingLost
<1>2. p \in Participant /\ RelOK(proj, Given, p)
  BY DEF GInv, Debts, Agent
<1>3. proj.rel[p].active
  BY <1>1, <1>2, FoldIsAgreement DEF Agrees
<1>4. Covered(proj, Given, s, p)
  BY <1>1, <1>2, <1>3 DEF RelOK, Addressed
<1> QED
  BY <1>4 DEF Covered, Given, Mark

\* A fact addressed to an agent while its relationship lasts is never lost: it
\* was acknowledged, a delivery of it is open, a reattachment owes it or will
\* owe it, or it was passed over through one of the two windows of the code,
\* with any participants, handlers, pages, crashes and upgrades
\* (detachRecoveryBoundary, foldRelationship, resumeReattachBackfills;
\* NothingLost).
THEOREM NothingIsLost == Spec => []NothingLost
<1>1. IInv /\ Init => GInv
  BY InitOwes
<1>2. IInv /\ IInv' /\ ProjectionIsFold /\ GInv /\ [Next]_vars => GInv'
  BY NextOwes
<1>3. IInv /\ ProjectionIsFold /\ GInv => NothingLost
  BY OwedIsKept
<1> QED
  BY <1>1, <1>2, <1>3, Invariant, FoldsLedger, PTL DEF Spec
===========================================================================
