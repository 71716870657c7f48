----------------------- MODULE ChannelDeliveryProofs ------------------------
(***************************************************************************)
(* What the mailbox promises, for any number of events, work drivers and   *)
(* faults: an event is admitted once, none is dropped before it is taken,  *)
(* and a join is not undone by a claim that predates it.  The invariant    *)
(* ties each claim of the present work driver to the one lease it holds.   *)
(***************************************************************************)
EXTENDS ChannelDelivery, Integers, TLAPS, WellFoundedInduction

\* a delivery has one row
Sole == \A r, n \in box : r.seq = n.seq /\ r.rev = n.rev => r = n

\* between a join and its backfill nothing is owed under the new revision
GapIsNew ==
  rel.gap # <<>> => /\ rel.gap[2] <= len /\ lock.by # "detach"
                    /\ \A r \in box : r.rev < rel.rev

\* a claim of the present work driver holds its lease until it reports, unless
\* the relationship it was made under has ended; and it is the only such claim
Lost(c) == c.rev < rel.rev /\ \A r \in Row(c) : r.st \notin Open
ClaimsHold == \A c \in going : c.by = owner => Held(c) # {} \/ Lost(c)
SoleClaim ==
  \A c, d \in going : c.by = owner /\ d.by = owner /\ c.seq = d.seq /\ c.rev = d.rev => c = d

\* a claim under the present revision that found no session: none joined since
Unreached ==
  \A c \in going : c.by # 0 /\ c.pc \in {"unavailable", "detaching"} =>
    \A r \in Held(c) : r.crev = rel.rev => session # "joined" /\ lock.by # "join"

Locks ==
  /\ lock.by \in {"join", "rejoin"} => session = "opening"
  /\ lock.by = "join" => rel.attached
  /\ lock.by = "detach" => session # "joined"

\* what a detachment is about to declare delivered
Given(s) == Taken(s) \/ \E r \in box : r.seq = s /\ r.st = "integrity"
DetachKnows == lock.by = "detach" => lock.at <= len /\ \A s \in 1 .. lock.at : Given(s)

Answers_ == \A c \in going : Acknowledged(c) => Taken(c.seq)
Once == \A s \in 1 .. MaxEvent : taken[s] <= 1

IInv ==
  /\ TypeOK /\ Sole /\ GapIsNew /\ ClaimsHold /\ SoleClaim /\ Unreached /\ Locks
  /\ DetachKnows /\ Answers_ /\ rel.at <= len
  /\ Once /\ OwedIsKept /\ JoinStaysAttached

-----------------------------------------------------------------------------
LEMMA MinFact ==
  ASSUME NEW S \in SUBSET Nat, S # {}
  PROVE  Min(S) \in S /\ \A x \in S : Min(S) <= x
<1>1. PICK m \in S : \A x \in S : ~(<<x, m>> \in OpToRel(<, Nat))
  BY WFMin, NatLessThanWellFounded
<1>2. \A x \in S : ~(x < m)
  BY <1>1 DEF OpToRel
<1>3. \A x \in S : m <= x
  BY <1>2
<1> QED
  BY <1>3 DEF Min

LEMMA FreedOK ==
  ASSUME NEW r \in RowState, NEW st \in Open \cup {"completed", "integrity", "retired"}
  PROVE  LET n == Freed(r, st) IN
         n \in RowState /\ n.seq = r.seq /\ n.rev = r.rev /\ n.st = st /\ n.owner = 0 /\ n.crev = 0
<1>1. 0 \in Nat
  OBVIOUS
<1> QED
  BY <1>1 DEF Freed, RowState

LEMMA LeaseOK ==
  ASSUME NEW r \in RowState, NEW w \in Nat, rel.rev \in Nat
  PROVE  LET n == Lease(r, w) IN
         n \in RowState /\ n.seq = r.seq /\ n.rev = r.rev /\ n.st = "leased" /\ n.owner = w
         /\ n.crev = rel.rev /\ n.gen = r.gen + 1
<1>1. PICK k \in Nat : k = r.gen + 1
  BY DEF RowState
<1>2. Lease(r, w) = [r EXCEPT !.st = "leased", !.owner = w, !.gen = k, !.crev = rel.rev]
  BY <1>1 DEF Lease
<1> QED
  BY <1>1, <1>2 DEF RowState, Open

LEMMA MarkedOK ==
  ASSUME NEW r \in RowState, NEW b \in BOOLEAN
  PROVE  LET n == [r EXCEPT !.failed = b] IN
         n \in RowState /\ n.seq = r.seq /\ n.rev = r.rev /\ n.st = r.st /\ n.owner = r.owner
         /\ n.crev = r.crev /\ n.gen = r.gen
BY DEF RowState

LEMMA CompletedOK ==
  ASSUME NEW r \in RowState
  PROVE  LET n == Completed(r) IN
         n \in RowState /\ n.seq = r.seq /\ n.rev = r.rev /\ n.st = "completed" /\ n.owner = 0
         /\ n.crev = 0
<1>1. PICK f : f = Freed(r, "completed")
  OBVIOUS
<1>2. f \in RowState /\ f.seq = r.seq /\ f.rev = r.rev /\ f.st = "completed" /\ f.owner = 0
      /\ f.crev = 0
  BY <1>1, FreedOK
<1> QED
  BY <1>1, <1>2, MarkedOK DEF Completed

LEMMA NewRowOK ==
  ASSUME NEW s \in Nat, NEW v \in Nat, NEW b \in BOOLEAN
  PROVE  LET n == [NewRow(s, v) EXCEPT !.failed = b] IN
         n \in RowState /\ n.seq = s /\ n.rev = v /\ n.st = "ready" /\ n.owner = 0 /\ n.crev = 0
BY DEF NewRow, RowState, Open

LEMMA PlainRowOK ==
  ASSUME NEW s \in Nat, NEW v \in Nat
  PROVE  LET n == NewRow(s, v) IN
         n \in RowState /\ n.seq = s /\ n.rev = v /\ n.st = "ready" /\ n.owner = 0 /\ n.crev = 0
BY DEF NewRow, RowState, Open

LEMMA ClaimOK ==
  ASSUME NEW c \in ClaimState, NEW pc \in Answer
  PROVE  LET n == [c EXCEPT !.pc = pc] IN
         n \in ClaimState /\ n.by = c.by /\ n.seq = c.seq /\ n.rev = c.rev /\ n.gen = c.gen /\ n.pc = pc
BY DEF ClaimState

LEMMA SentOK ==
  ASSUME NEW r \in RowState
  PROVE  LET n == Sent(r) IN
         n \in ClaimState /\ n.by = r.owner /\ n.seq = r.seq /\ n.rev = r.rev /\ n.gen = r.gen
         /\ n.pc = "sent"
BY DEF Sent, RowState, ClaimState, Answer

\* rows and claims, field by field
LEMMA Rows ==
  ASSUME IInv, NEW r \in box
  PROVE  /\ r \in RowState /\ r.seq \in Nat /\ r.seq \in 1 .. len /\ r.rev \in Nat /\ r.rev \in 1 .. rel.rev
         /\ r.crev \in Nat /\ r.crev \in 0 .. rel.rev /\ r.gen \in Nat
         /\ (r.st = "leased" => r.owner = owner) /\ (r.st # "leased" => r.owner = 0)
         /\ r.st \in Open \cup {"completed", "integrity", "retired"} /\ r.failed \in BOOLEAN
BY DEF IInv, TypeOK, RowState

LEMMA Claims ==
  ASSUME IInv, NEW c \in going
  PROVE  /\ c \in ClaimState /\ c.seq \in 1 .. len /\ c.seq \in 1 .. MaxEvent /\ c.rev \in 1 .. rel.rev
         /\ c.by \in 0 .. owner /\ c.by \in Nat /\ c.rev \in Nat /\ c.pc \in Answer
<1>1. len \in 0 .. MaxEvent /\ MaxEvent \in Nat
  BY LimitAssumption DEF IInv, TypeOK
<1>2. c \in ClaimState /\ c.seq \in 1 .. len /\ c.rev \in 1 .. rel.rev /\ c.by \in 0 .. owner
  BY DEF IInv, TypeOK
<1>3. c.seq \in 1 .. MaxEvent
  BY <1>1, <1>2
<1> QED
  BY <1>2, <1>3 DEF ClaimState

LEMMA Numbers ==
  ASSUME IInv
  PROVE  /\ len \in Nat /\ MaxEvent \in Nat /\ len <= MaxEvent
         /\ rel.rev \in Nat /\ rel.rev # 0 /\ rel.attached \in BOOLEAN /\ rel.at \in Nat /\ rel.at <= len
         /\ owner \in Nat /\ owner # 0 /\ host \in Nat /\ owner <= host
         /\ lock.at \in Nat
BY LimitAssumption DEF IInv, TypeOK

-----------------------------------------------------------------------------
\* A row that a step may only release, end or mark.
Eases(r, n) ==
  /\ n \in RowState /\ n.seq = r.seq /\ n.rev = r.rev
  /\ IF n.st = "leased" THEN r.st = "leased" /\ n.owner = r.owner /\ n.gen = r.gen /\ n.crev = r.crev
     ELSE n.owner = 0 /\ n.crev \in {r.crev, 0}
  /\ r.st \notin Open => n.st = r.st
  /\ r.st \in Open => n.st \in Open \cup {"integrity"} \/ Taken(r.seq)
\* A claim that goes on under its name.
Goes(d, c) ==
  /\ c \in ClaimState /\ c.by = d.by /\ c.seq = d.seq /\ c.rev = d.rev /\ c.gen = d.gen
SoldOut == {"unavailable", "detaching"}

\* A step under one relationship that leases nothing.
LEMMA Steady ==
  ASSUME IInv, TypeOK', UNCHANGED <<rel, len, owner>>,
         NEW f, NEW g, NEW G \in SUBSET going,
         box' = {f[r] : r \in box}, going' = {g[d] : d \in G},
         \A r \in box : Eases(r, f[r]),
         \A d \in G : Goes(d, g[d]),
         \A d \in G : d.by = owner => \A r \in Held(d) : f[r].st = "leased",
         \A d \in G : g[d].pc \in SoldOut => d.pc \in SoldOut \/ (session # "joined" /\ lock.by # "join"),
         \A d \in G : g[d].pc \in {"processed", "duplicate"} => taken'[d.seq] > 0,
         \A s \in 1 .. MaxEvent : taken[s] > 0 => taken'[s] > 0,
         session' = "joined" => session = "joined" \/ lock.by = "join",
         lock'.by = "join" => lock.by = "join",
         lock'.by = "detach" =>
           \/ lock' = lock
           \/ rel.gap = <<>> /\ lock'.at <= len /\ \A s \in 1 .. lock'.at : Given(s),
         Locks', Once'
  PROVE  IInv'
<1>1. \A n \in box' : \E r \in box : n = f[r] /\ Eases(r, n)
  OBVIOUS
<1>2. \A r \in box : f[r] \in box' /\ Eases(r, f[r])
  OBVIOUS
<1>3. Sole'
  BY <1>1 DEF IInv, Sole, Eases
<1>4. GapIsNew'
  <2>1. ASSUME rel.gap # <<>> PROVE \A n \in box' : n.rev < rel.rev
    BY <1>1, <2>1 DEF IInv, GapIsNew, Eases
  <2> QED
    BY <2>1 DEF IInv, GapIsNew
<1>5. ClaimsHold'
  <2>1. SUFFICES ASSUME NEW c \in going', c.by = owner PROVE Held(c)' # {} \/ Lost(c)'
    BY DEF ClaimsHold
  <2>2. PICK d \in G : c = g[d] /\ Goes(d, c)
    BY <2>1
  <2>3. Held(d) # {} \/ Lost(d)
    BY <2>1, <2>2 DEF IInv, ClaimsHold, Goes
  <2>4. ASSUME NEW r \in Held(d) PROVE f[r] \in Held(c)'
    BY <1>2, <2>1, <2>2, <2>4 DEF Held, Row, Eases, Goes
  <2>5. ASSUME Lost(d) PROVE Lost(c)'
    BY <1>1, <2>2, <2>5 DEF Lost, Row, Eases, Goes
  <2> QED
    BY <2>3, <2>4, <2>5
<1>6. SoleClaim'
  BY DEF IInv, SoleClaim, Goes
<1>7. Unreached'
  <2>1. SUFFICES ASSUME NEW c \in going', c.by # 0, c.pc \in {"unavailable", "detaching"},
                        NEW n \in box', n \in Held(c)', n.crev = rel.rev
                 PROVE  session' # "joined" /\ lock'.by # "join"
    BY DEF Unreached, Held, Row
  <2>2. PICK d \in G : c = g[d] /\ Goes(d, c)
    BY <2>1
  <2>3. PICK r \in box : n = f[r] /\ Eases(r, n)
    BY <1>1
  <2>4. n.st = "leased" /\ n.owner = c.by /\ n.gen = c.gen /\ n.seq = c.seq /\ n.rev = c.rev
    BY <2>1 DEF Held, Row
  <2>5. r \in Held(d) /\ r.crev = rel.rev
    BY <2>1, <2>2, <2>3, <2>4 DEF Held, Row, Eases, Goes
  <2>6. d.by # 0 /\ (d.pc \in SoldOut \/ (session # "joined" /\ lock.by # "join"))
    BY <2>1, <2>2 DEF SoldOut, Goes
  <2>7. session # "joined" /\ lock.by # "join"
    BY <2>5, <2>6 DEF IInv, Unreached, SoldOut
  <2> QED
    BY <2>7
<1>8. \A s \in 1 .. len : Taken(s) => Taken(s)'
  BY Numbers DEF Taken
<1>9. ASSUME NEW s \in 1 .. len, Given(s) PROVE Given(s)'
  BY <1>2, <1>8, <1>9 DEF Given, Eases, Open
<1>10. DetachKnows'
  <2>1. SUFFICES ASSUME lock'.by = "detach"
                 PROVE  lock'.at <= len /\ \A s \in 1 .. lock'.at : Given(s)'
    BY DEF DetachKnows
  <2>2. lock'.at <= len /\ \A s \in 1 .. lock'.at : Given(s)
    BY <2>1 DEF IInv, DetachKnows
  <2>3. \A s \in 1 .. lock'.at : s \in 1 .. len
    BY <2>2, Numbers DEF TypeOK
  <2> QED
    BY <1>9, <2>2, <2>3
<1>11. Answers_'
  <2>1. SUFFICES ASSUME NEW c \in going', c.pc \in {"processed", "duplicate"} PROVE taken'[c.seq] > 0
    BY DEF Answers_, Acknowledged, Taken
  <2> QED
    BY <2>1 DEF Goes
<1>12. OwedIsKept'
  <2>1. SUFFICES ASSUME NEW s \in 1 .. len, ~Taken(s)' PROVE Owed(s)'
    BY DEF OwedIsKept
  <2>2. ~Taken(s) /\ Owed(s)
    BY <1>8, <2>1 DEF IInv, OwedIsKept
  <2>3. ASSUME NEW r \in box, r.seq = s, r.st \in Open \cup {"integrity"}
        PROVE  f[r] \in box' /\ f[r].seq = s /\ f[r].st \in Open \cup {"integrity"}
    BY <1>2, <2>2, <2>3 DEF Eases, Open
  <2> QED
    BY <2>2, <2>3 DEF Owed
<1>13. JoinStaysAttached'
  BY DEF IInv, JoinStaysAttached, Locks
<1>14. GapIsNew' /\ (rel.at <= len)'
  BY <1>4 DEF IInv
<1> QED
  BY <1>3, <1>5, <1>6, <1>7, <1>10, <1>11, <1>12, <1>13, <1>14 DEF IInv

LEMMA SteadyTypes ==
  ASSUME IInv, UNCHANGED <<rel, len, owner>>, NEW f, NEW g, NEW G \in SUBSET going,
         box' = {f[r] : r \in box}, going' = {g[d] : d \in G},
         \A r \in box : Eases(r, f[r]), \A d \in G : Goes(d, g[d]),
         route' = route, host' \in owner .. MaxWorker, host' >= host,
         lock' \in [by : {"nobody", "detach", "join", "rejoin", "orphan"}, at : Nat],
         waiter' \in 0 .. len, op' \in 0 .. rel.rev,
         session' \in {"none", "opening", "joined", "retried"},
         taken' \in [1 .. MaxEvent -> Nat], faults' \in 0 .. MaxFault
  PROVE  TypeOK'
<1>1. /\ box' \subseteq RowState
      /\ \A r \in box' : /\ r.seq \in 1 .. len /\ r.rev \in 1 .. rel.rev /\ r.crev \in 0 .. rel.rev
                         /\ IF r.st = "leased" THEN r.owner = owner ELSE r.owner = 0
  <2>1. SUFFICES ASSUME NEW r \in box
                 PROVE  /\ f[r] \in RowState
                        /\ f[r].seq \in 1 .. len /\ f[r].rev \in 1 .. rel.rev /\ f[r].crev \in 0 .. rel.rev
                        /\ IF f[r].st = "leased" THEN f[r].owner = owner ELSE f[r].owner = 0
    OBVIOUS
  <2>2. 0 \in 0 .. rel.rev
    BY Numbers
  <2>3. /\ r.seq \in 1 .. len /\ r.rev \in 1 .. rel.rev /\ r.crev \in 0 .. rel.rev
        /\ (r.st = "leased" => r.owner = owner)
    BY Rows
  <2> QED
    BY <2>2, <2>3 DEF Eases
<1>2. /\ going' \subseteq ClaimState
      /\ \A c \in going' : c.by \in 0 .. owner /\ c.seq \in 1 .. len /\ c.rev \in 1 .. rel.rev
  BY DEF Goes, IInv, TypeOK
<1>3. host' \in 1 .. MaxWorker /\ owner' \in 1 .. host'
  BY LimitAssumption, Numbers
<1> QED
  BY <1>1, <1>2, <1>3 DEF IInv, TypeOK

LEMMA Itself ==
  ASSUME IInv, NEW G \in SUBSET going
  PROVE  /\ box = {[n \in box |-> n][r] : r \in box} /\ G = {[e \in G |-> e][d] : d \in G}
         /\ \A r \in box : [n \in box |-> n][r] = r /\ Eases(r, r)
         /\ \A d \in G : [e \in G |-> e][d] = d /\ Goes(d, d)
         /\ \A d \in G : d.pc \in {"processed", "duplicate"} => taken[d.seq] > 0
<1>1. \A r \in box : Eases(r, r)
  BY Rows DEF Eases
<1>2. \A d \in G : Goes(d, d)
  BY Claims DEF Goes
<1>3. \A d \in G : d.pc \in {"processed", "duplicate"} => taken[d.seq] > 0
  BY DEF IInv, Answers_, Acknowledged, Taken
<1> QED
  BY <1>1, <1>2, <1>3

\* A claim comes to another point; the mailbox stays.
LEMMA BecomesStep ==
  ASSUME IInv, NEW c \in going, NEW pc \in Answer, Becomes(c, pc),
         faults' \in 0 .. MaxFault, taken' \in [1 .. MaxEvent -> Nat],
         \A s \in 1 .. MaxEvent : taken[s] > 0 => taken'[s] > 0,
         \A s \in 1 .. MaxEvent : taken'[s] <= 1,
         pc \in {"processed", "duplicate"} => taken'[c.seq] > 0,
         pc \in SoldOut => session # "joined" /\ lock.by # "join"
  PROVE  IInv'
<1>1. UNCHANGED <<route, len, rel, box, owner, lock, waiter, host, session, op>>
  BY DEF Becomes, channel
<1>2. PICK n : n = [c EXCEPT !.pc = pc]
  OBVIOUS
<1>3. Goes(c, n) /\ n.pc = pc
  BY <1>2, Claims, ClaimOK DEF Goes
<1>4. PICK g : g = [d \in going |-> IF d = c THEN n ELSE d]
  OBVIOUS
<1>5. \A d \in going : g[d] = (IF d = c THEN n ELSE d)
  BY <1>4
<1>6. going' = {g[d] : d \in going}
  <2>1. going' = (going \ {c}) \cup {n}
    BY <1>2 DEF Becomes
  <2> QED
    BY <1>5, <2>1
<1>7. PICK f : f = [r \in box |-> r]
  OBVIOUS
<1>8. box' = {f[r] : r \in box} /\ \A r \in box : f[r] = r /\ Eases(r, f[r])
  BY <1>1, <1>7, Itself
<1>9. \A d \in going : Goes(d, g[d])
  BY <1>3, <1>5, Itself
<1>10. TypeOK'
  <2>1. host' \in owner .. MaxWorker /\ host' >= host /\ waiter' \in 0 .. len /\ op' \in 0 .. rel.rev
    BY <1>1, Numbers, LimitAssumption DEF IInv, TypeOK
  <2>2. lock' \in [by : {"nobody", "detach", "join", "rejoin", "orphan"}, at : Nat]
        /\ session' \in {"none", "opening", "joined", "retried"}
    BY <1>1 DEF IInv, TypeOK
  <2> QED
    BY <1>1, <1>6, <1>8, <1>9, <2>1, <2>2, SteadyTypes
<1>11. \A d \in going : d.by = owner => \A r \in Held(d) : f[r].st = "leased"
  BY <1>8 DEF Held, Row
<1>12. \A d \in going : g[d].pc \in SoldOut => d.pc \in SoldOut \/ (session # "joined" /\ lock.by # "join")
  BY <1>3, <1>5
<1>13. \A d \in going : g[d].pc \in {"processed", "duplicate"} => taken'[d.seq] > 0
  <2>1. \A d \in going : d.seq \in 1 .. MaxEvent
    BY Claims
  <2> QED
    BY <1>3, <1>5, <2>1, Itself
<1>14. Locks' /\ Once'
  BY <1>1 DEF IInv, Locks, Once
<1> QED
  BY <1>1, <1>6, <1>8, <1>9, <1>10, <1>11, <1>12, <1>13, <1>14, Steady

LEMMA TakenTypes ==
  ASSUME IInv
  PROVE  /\ taken \in [1 .. MaxEvent -> Nat] /\ \A s \in 1 .. MaxEvent : taken[s] <= 1
         /\ faults \in 0 .. MaxFault /\ (Fault => faults' \in 0 .. MaxFault)
BY LimitAssumption DEF IInv, TypeOK, Once, Fault

LEMMA ParticipatesStep ==
  ASSUME IInv, NEW c \in going, Participates(c) PROVE IInv'
<1>1. c.seq \in 1 .. MaxEvent /\ {"verified", "duplicate", "processed", "unavailable"} \subseteq Answer
  BY Claims DEF Answer
<1>2. CASE AgentVerifies(c)
  BY <1>1, <1>2, TakenTypes, BecomesStep DEF AgentVerifies, Taken, SoldOut
<1>3. CASE Admit(c)
  <2>1. CASE Taken(c.seq)
    BY <1>1, <1>3, <2>1, TakenTypes, BecomesStep DEF Admit, Taken, SoldOut
  <2>2. CASE ~Taken(c.seq)
    <3>1. taken' = [taken EXCEPT ![c.seq] = taken[c.seq] + 1] /\ Becomes(c, "processed") /\ faults' = faults
      BY <1>3, <2>2 DEF Admit
    <3>2. taken[c.seq] = 0
      BY <1>1, <2>2, TakenTypes DEF Taken
    <3>3. /\ taken' \in [1 .. MaxEvent -> Nat] /\ taken'[c.seq] = 1
          /\ \A s \in 1 .. MaxEvent : s # c.seq => taken'[s] = taken[s]
      BY <1>1, <3>1, <3>2, TakenTypes
    <3> QED
      BY <1>1, <3>1, <3>3, TakenTypes, BecomesStep DEF SoldOut
  <2> QED
    BY <2>1, <2>2
<1>4. CASE SessionTakes(c)
  <2>1. CASE session = "none" /\ UNCHANGED taken /\ Becomes(c, "unavailable")
    BY <1>1, <1>4, <2>1, TakenTypes, BecomesStep DEF SessionTakes, IInv, Locks
  <2>2. CASE taken' = [taken EXCEPT ![c.seq] = 1] /\ Becomes(c, "processed")
    <3>1. /\ taken' \in [1 .. MaxEvent -> Nat] /\ taken'[c.seq] = 1
          /\ \A s \in 1 .. MaxEvent : s # c.seq => taken'[s] = taken[s]
      BY <1>1, <2>2, TakenTypes
    <3> QED
      BY <1>1, <1>4, <2>2, <3>1, TakenTypes, BecomesStep DEF SoldOut, SessionTakes
  <2> QED
    BY <1>4, <2>1, <2>2 DEF SessionTakes
<1> QED
  BY <1>2, <1>3, <1>4 DEF Participates

LEMMA FailingStep ==
  ASSUME IInv, NEW c \in going, Defers(c) \/ Fails(c) \/ Refuses(c) PROVE IInv'
<1>1. PICK pc \in {"failed", "permanent"} : Becomes(c, pc) /\ Fault /\ UNCHANGED taken
  BY DEF Defers, Fails, Refuses
<1>2. pc \in Answer
  BY DEF Answer
<1> QED
  BY <1>1, <1>2, TakenTypes, BecomesStep DEF SoldOut

-----------------------------------------------------------------------------
LEMMA WaiterTypes ==
  ASSUME IInv, SettleDeliveryWaiters PROVE waiter' \in 0 .. len
<1>1. waiter' \in {waiter, 0} /\ waiter \in 0 .. len /\ 0 \in 0 .. len
  BY Numbers DEF SettleDeliveryWaiters, IInv, TypeOK
<1> QED
  BY <1>1

\* The channel hears of a claim: no other claim loses its lease.
LEMMA AnswersStep ==
  ASSUME IInv, NEW c \in going, NEW f, box' = {f[r] : r \in box}, Answers(c), UNCHANGED <<rel, lock>>,
         \A r \in box : Eases(r, f[r]),
         \A r \in box : r.st = "leased" => f[r].st = "leased" \/ r \in Held(c)
  PROVE  IInv'
<1>1. UNCHANGED <<route, len, rel, lock, owner, host, session, op, taken, faults>>
      /\ going' = going \ {c} /\ waiter' \in 0 .. len
  BY WaiterTypes DEF Answers
<1>2. PICK G \in SUBSET going : G = going \ {c}
  OBVIOUS
<1>3. PICK g : g = [d \in G |-> d]
  OBVIOUS
<1>4. going' = {g[d] : d \in G} /\ \A d \in G : g[d] = d /\ Goes(d, g[d])
  <2>1. \A d \in G : g[d] = d
    BY <1>3
  <2> QED
    BY <1>1, <1>2, <2>1, Itself
<1>5. TypeOK'
  <2>1. host' \in owner .. MaxWorker /\ host' >= host /\ op' \in 0 .. rel.rev
    BY <1>1, Numbers, LimitAssumption DEF IInv, TypeOK
  <2>2. /\ lock' \in [by : {"nobody", "detach", "join", "rejoin", "orphan"}, at : Nat]
        /\ session' \in {"none", "opening", "joined", "retried"}
        /\ taken' \in [1 .. MaxEvent -> Nat] /\ faults' \in 0 .. MaxFault
    BY <1>1 DEF IInv, TypeOK
  <2> QED
    BY <1>1, <1>4, <2>1, <2>2, SteadyTypes
<1>6. ASSUME NEW d \in G, d.by = owner, NEW r \in Held(d) PROVE f[r].st = "leased"
  <2>1. r \in box /\ r.st = "leased" /\ r.seq = d.seq /\ r.rev = d.rev /\ r.owner = owner
    BY <1>6 DEF Held, Row
  <2>2. ASSUME r \in Held(c) PROVE FALSE
    <3>1. c.by = owner /\ c.seq = d.seq /\ c.rev = d.rev
      BY <2>1, <2>2 DEF Held, Row
    <3> QED
      BY <1>2, <1>6, <3>1 DEF IInv, SoleClaim
  <2> QED
    BY <2>1, <2>2
<1>7. Locks' /\ Once'
  BY <1>1 DEF IInv, Locks, Once
<1>8. \A d \in G : g[d].pc \in {"processed", "duplicate"} => taken'[d.seq] > 0
  BY <1>1, <1>4, Itself
<1> QED
  BY <1>1, <1>4, <1>5, <1>6, <1>7, <1>8, Steady

\* A completed row: its event was taken.
LEMMA CompletedEases ==
  ASSUME NEW r \in RowState, r.st \in Open, Taken(r.seq) PROVE Eases(r, Completed(r))
BY CompletedOK DEF Eases, Open

LEMMA SettledStep ==
  ASSUME IInv, NEW c \in going, SettleOwned(c) \/ SettleReadyWork(c) PROVE IInv'
<1>1. PICK Z \in {{r \in Row(c) : r.st = "ready"}, Held(c)} :
        /\ box' = {IF r \in Z THEN Completed(r) ELSE r : r \in box}
        /\ Acknowledged(c) /\ Answers(c) /\ UNCHANGED <<rel, lock>>
  BY DEF SettleOwned, SettleReadyWork, Row
<1>2. PICK f : f = [r \in box |-> IF r \in Z THEN Completed(r) ELSE r]
  OBVIOUS
<1>3. box' = {f[r] : r \in box}
  BY <1>1, <1>2
<1>4. Taken(c.seq)
  BY <1>1 DEF IInv, Answers_
<1>5. \A r \in Z : r.st \in Open /\ r.seq = c.seq /\ (r.st = "leased" => r \in Held(c))
  BY <1>1 DEF Held, Row, Open
<1>6. ASSUME NEW r \in box
      PROVE  Eases(r, f[r]) /\ (r.st = "leased" => f[r].st = "leased" \/ r \in Held(c))
  BY <1>2, <1>4, <1>5, Rows, Itself, CompletedEases
<1> QED
  BY <1>1, <1>3, <1>6, AnswersStep

LEMMA RecordOwnedFailureStep ==
  ASSUME IInv, NEW c \in going, RecordOwnedFailure(c) PROVE IInv'
<1>1. PICK f : f = [r \in box |-> IF r \in Row(c) /\ r.st \in Open THEN [r EXCEPT !.failed = TRUE] ELSE r]
  OBVIOUS
<1>2. box' = {f[r] : r \in box} /\ Answers(c) /\ UNCHANGED <<rel, lock>>
  BY <1>1 DEF RecordOwnedFailure
<1>3. ASSUME NEW r \in box PROVE Eases(r, f[r]) /\ (r.st = "leased" => f[r].st = "leased")
  <2>1. LET n == [r EXCEPT !.failed = TRUE] IN Eases(r, n) /\ n.st = r.st
    BY Rows, MarkedOK DEF Eases
  <2> QED
    BY <1>1, <2>1, Itself
<1> QED
  BY <1>2, <1>3, AnswersStep

LEMMA FailReadyWorkStep ==
  ASSUME IInv, NEW c \in going, FailReadyWork(c) PROVE IInv'
<1>1. PICK st \in {"retrying", "integrity"} : st = IF c.pc = "failed" THEN "retrying" ELSE "integrity"
  OBVIOUS
<1>2. PICK f : f = [r \in box |-> IF r \in Held(c) THEN [Freed(r, st) EXCEPT !.failed = TRUE] ELSE r]
  OBVIOUS
<1>3. box' = {f[r] : r \in box} /\ Answers(c) /\ UNCHANGED <<rel, lock>>
  BY <1>1, <1>2 DEF FailReadyWork
<1>4. ASSUME NEW r \in box
      PROVE  Eases(r, f[r]) /\ (r.st = "leased" => f[r].st = "leased" \/ r \in Held(c))
  <2>1. CASE r \in Held(c)
    <3>1. PICK m : m = Freed(r, st)
      OBVIOUS
    <3>2. m \in RowState /\ m.seq = r.seq /\ m.rev = r.rev /\ m.st = st /\ m.owner = 0 /\ m.crev = 0
      BY <3>1, Rows, FreedOK DEF Open
    <3>3. PICK n : n = [m EXCEPT !.failed = TRUE]
      OBVIOUS
    <3>4. n \in RowState /\ n.seq = r.seq /\ n.rev = r.rev /\ n.st = st /\ n.owner = 0 /\ n.crev = 0
      BY <3>2, <3>3, MarkedOK
    <3>5. f[r] = n /\ r.st \in Open
      BY <1>2, <2>1, <3>1, <3>3 DEF Held, Open
    <3> QED
      BY <2>1, <3>4, <3>5 DEF Eases, Open
  <2>2. CASE r \notin Held(c)
    BY <1>2, <2>2, Itself
  <2> QED
    BY <2>1, <2>2
<1> QED
  BY <1>3, <1>4, AnswersStep

LEMMA StaleStep ==
  ASSUME IInv, NEW c \in going, Stale(c) PROVE IInv'
<1>1. PICK f : f = [r \in box |-> r]
  OBVIOUS
<1>2. box' = {f[r] : r \in box} /\ \A r \in box : Eases(r, f[r]) /\ f[r] = r
  BY <1>1, Itself DEF Stale
<1> QED
  BY <1>2, AnswersStep DEF Stale

-----------------------------------------------------------------------------
\* Steps of the session, the host and the lock beside the mailbox: its rows
\* may be rearmed, claims may be lost.
LEMMA BesideStep ==
  ASSUME IInv, UNCHANGED <<route, rel, len, owner, taken>>,
         NEW f, NEW g, NEW G \in SUBSET going,
         box' = {f[r] : r \in box}, going' = {g[d] : d \in G},
         \A r \in box : Eases(r, f[r]) /\ (r.st = "leased" => f[r].st = "leased"),
         \A d \in G : /\ Goes(d, g[d]) /\ (g[d].pc \in SoldOut => d.pc \in SoldOut)
                      /\ g[d].pc \in {"processed", "duplicate"} => d.pc \in {"processed", "duplicate"},
         host' \in Nat, host' >= host, host' <= MaxWorker,
         lock' \in [by : {"nobody", "detach", "join", "rejoin", "orphan"}, at : Nat],
         waiter' \in 0 .. len, op' \in 0 .. rel.rev,
         session' \in {"none", "opening", "joined", "retried"}, faults' \in 0 .. MaxFault,
         session' = "joined" => session = "joined" \/ lock.by = "join",
         lock'.by = "join" => lock.by = "join",
         lock'.by = "detach" =>
           \/ lock' = lock
           \/ rel.gap = <<>> /\ lock'.at <= len /\ \A s \in 1 .. lock'.at : Given(s),
         Locks'
  PROVE  IInv'
<1>1. TypeOK'
  <2>1. taken' \in [1 .. MaxEvent -> Nat] /\ host' \in owner .. MaxWorker
    BY TakenTypes, Numbers, LimitAssumption
  <2> QED
    BY <2>1, SteadyTypes
<1>2. \A d \in G : d.by = owner => \A r \in Held(d) : f[r].st = "leased"
  BY DEF Held, Row
<1>3. \A d \in G : g[d].pc \in {"processed", "duplicate"} => taken'[d.seq] > 0
  BY Itself
<1>4. Once'
  BY DEF IInv, Once
<1> QED
  BY <1>1, <1>2, <1>3, <1>4, Steady

LEMMA OldTypes ==
  ASSUME IInv
  PROVE  /\ host \in Nat /\ host <= MaxWorker /\ host >= host
         /\ lock \in [by : {"nobody", "detach", "join", "rejoin", "orphan"}, at : Nat]
         /\ waiter \in 0 .. len /\ op \in 0 .. rel.rev /\ 0 \in 0 .. len /\ 0 \in 0 .. rel.rev
         /\ session \in {"none", "opening", "joined", "retried"} /\ faults \in 0 .. MaxFault
         /\ NoLock \in [by : {"nobody", "detach", "join", "rejoin", "orphan"}, at : Nat]
         /\ NoLock.by = "nobody"
BY Numbers, LimitAssumption DEF IInv, TypeOK, NoLock

\* The same of a step that leaves the rows, and loses some claims.
LEMMA LosesStep ==
  ASSUME IInv, UNCHANGED <<route, rel, len, owner, taken, box>>,
         NEW G \in SUBSET going, going' = G,
         host' \in Nat, host' >= host, host' <= MaxWorker,
         lock' \in [by : {"nobody", "detach", "join", "rejoin", "orphan"}, at : Nat],
         waiter' \in 0 .. len, op' \in 0 .. rel.rev,
         session' \in {"none", "opening", "joined", "retried"}, faults' \in 0 .. MaxFault,
         session' = "joined" => session = "joined" \/ lock.by = "join",
         lock'.by = "join" => lock.by = "join",
         lock'.by = "detach" =>
           \/ lock' = lock
           \/ rel.gap = <<>> /\ lock'.at <= len /\ \A s \in 1 .. lock'.at : Given(s),
         Locks'
  PROVE  IInv'
<1>1. PICK f : f = [r \in box |-> r]
  OBVIOUS
<1>2. PICK g : g = [d \in G |-> d]
  OBVIOUS
<1>3. box' = {f[r] : r \in box} /\ \A r \in box : Eases(r, f[r]) /\ f[r] = r
  BY <1>1, Itself
<1>4. \A d \in G : g[d] = d
  BY <1>2
<1>5. going' = {g[d] : d \in G}
  BY <1>4
<1>6. \A d \in G : /\ Goes(d, g[d]) /\ (g[d].pc \in SoldOut => d.pc \in SoldOut)
                   /\ g[d].pc \in {"processed", "duplicate"} => d.pc \in {"processed", "duplicate"}
  <2>1. \A d \in G : Goes(d, d)
    BY Claims DEF Goes
  <2> QED
    BY <1>4, <2>1
<1>7. \A r \in box : Eases(r, f[r]) /\ (r.st = "leased" => f[r].st = "leased")
  BY <1>3
<1>8. UNCHANGED <<route, rel, len, owner, taken>>
  OBVIOUS
<1> QED
  BY <1>3, <1>5, <1>6, <1>7, <1>8, BesideStep

LEMMA HostRestartsStep ==
  ASSUME IInv, HostRestarts PROVE IInv'
<1>1. PICK G \in SUBSET going : going' = G
  BY DEF HostRestarts
<1>2. UNCHANGED <<route, rel, len, owner, taken, box, lock, waiter, session, op, faults>>
  BY DEF HostRestarts, channel
<1>3. host' \in Nat /\ host' >= host /\ host' <= MaxWorker
  BY Numbers, LimitAssumption DEF HostRestarts
<1>4. Locks'
  BY <1>2 DEF IInv, Locks
<1> QED
  BY <1>1, <1>2, <1>3, <1>4, OldTypes, LosesStep

LEMMA OpensStep ==
  ASSUME IInv, Opens PROVE IInv'
<1>1. UNCHANGED <<route, rel, len, owner, taken, box, lock, waiter, op, faults, host, going>>
      /\ session = "none" /\ session' = "opening"
  BY DEF Opens, channel
<1>2. Locks'
  BY <1>1 DEF IInv, Locks
<1> QED
  BY <1>1, <1>2, OldTypes, LosesStep

LEMMA WaitDeliveryThroughStep ==
  ASSUME IInv, WaitDeliveryThrough PROVE IInv'
<1>1. UNCHANGED <<route, rel, len, owner, taken, box, lock, session, op, faults, host, going>>
      /\ waiter' = len
  BY DEF WaitDeliveryThrough
<1>2. Locks' /\ len \in 0 .. len
  BY <1>1, Numbers DEF IInv, Locks
<1> QED
  BY <1>1, <1>2, OldTypes, LosesStep

LEMMA SessionEndsStep ==
  ASSUME IInv, SessionEnds PROVE IInv'
<1>1. UNCHANGED <<route, rel, len, owner, taken, box, waiter, host, going>>
      /\ session' = "none" /\ op' = 0 /\ Fault
      /\ lock' = IF lock.by \in {"join", "rejoin"} THEN [lock EXCEPT !.by = "orphan"] ELSE lock
  BY DEF SessionEnds
<1>2. /\ lock' \in [by : {"nobody", "detach", "join", "rejoin", "orphan"}, at : Nat]
      /\ lock'.by \notin {"join", "rejoin"} /\ (lock'.by = "detach" => lock' = lock)
  BY <1>1, OldTypes
<1>3. Locks'
  BY <1>1, <1>2 DEF Locks
<1> QED
  BY <1>1, <1>2, <1>3, OldTypes, TakenTypes, LosesStep

LEMMA JoinAnsweredStep ==
  ASSUME IInv, JoinAnswered PROVE IInv'
<1>1. UNCHANGED <<route, rel, len, owner, taken, box, waiter, host, going>> /\ lock' = NoLock
  BY DEF JoinAnswered
<1>2. /\ session' \in {session, "none", "joined", "retried"} /\ op' \in {op, 0}
      /\ faults' = faults \/ Fault
      /\ session' = "joined" => session = "joined" \/ lock.by = "join"
  BY DEF JoinAnswered
<1>3. Locks'
  BY <1>1, OldTypes DEF Locks
<1> QED
  BY <1>1, <1>2, <1>3, OldTypes, TakenTypes, LosesStep

LEMMA RearmRetryingForStep ==
  ASSUME IInv, RearmRetryingFor PROVE IInv'
<1>1. UNCHANGED <<route, rel, len, owner, taken, waiter, host, going, session, op, faults>>
      /\ lock' = [lock EXCEPT !.at = 1] /\ lock.by \in {"join", "rejoin", "orphan"}
  BY DEF RearmRetryingFor, Joining
<1>2. PICK f : f = [r \in box |-> IF r.st = "retrying" THEN Freed(r, "ready") ELSE r]
  OBVIOUS
<1>3. box' = {f[r] : r \in box}
  BY <1>2 DEF RearmRetryingFor
<1>4. ASSUME NEW r \in box PROVE Eases(r, f[r]) /\ (r.st = "leased" => f[r].st = "leased")
  <2>1. LET n == Freed(r, "ready") IN
        n \in RowState /\ n.seq = r.seq /\ n.rev = r.rev /\ n.st = "ready" /\ n.owner = 0 /\ n.crev = 0
    BY Rows, FreedOK DEF Open
  <2>2. CASE r.st = "retrying"
    BY <1>2, <2>1, <2>2 DEF Eases, Open
  <2>3. CASE r.st # "retrying"
    BY <1>2, <2>3, Itself
  <2> QED
    BY <2>2, <2>3
<1>10. PICK G \in SUBSET going : G = going
  OBVIOUS
<1>5. PICK g : g = [d \in G |-> d]
  OBVIOUS
<1>9. \A d \in G : g[d] = d
  BY <1>5
<1>6. /\ going' = {g[d] : d \in G}
      /\ \A d \in G : /\ Goes(d, g[d]) /\ (g[d].pc \in SoldOut => d.pc \in SoldOut)
                      /\ g[d].pc \in {"processed", "duplicate"} => d.pc \in {"processed", "duplicate"}
  <2>1. going' = {g[d] : d \in G}
    BY <1>1, <1>9, <1>10
  <2>2. \A d \in G : Goes(d, g[d])
    BY <1>9, Claims DEF Goes
  <2> QED
    BY <1>9, <2>1, <2>2
<1>7. lock' \in [by : {"nobody", "detach", "join", "rejoin", "orphan"}, at : Nat] /\ lock'.by = lock.by
  BY <1>1, OldTypes
<1>8. Locks'
  BY <1>1, <1>7 DEF IInv, Locks
<1> QED
  <2>1. UNCHANGED <<route, rel, len, owner, taken>> /\ UNCHANGED <<waiter, host, session, op, faults>>
    BY <1>1
  <2>2. /\ host' \in Nat /\ host' >= host /\ host' <= MaxWorker
        /\ waiter' \in 0 .. len /\ op' \in 0 .. rel.rev
        /\ session' \in {"none", "opening", "joined", "retried"} /\ faults' \in 0 .. MaxFault
    BY <2>1, OldTypes
  <2>3. (lock'.by = "join" => lock.by = "join") /\ (session' = "joined" => session = "joined" \/ lock.by = "join")
    BY <1>7, <2>1
  <2>4. lock'.by # "detach"
    BY <1>1, <1>7
  <2>5. lock'.by = "detach" =>
           \/ lock' = lock
           \/ rel.gap = <<>> /\ lock'.at <= len /\ \A s \in 1 .. lock'.at : Given(s)
    BY <2>4
  <2>6. UNCHANGED <<route, rel, len, owner, taken>>
    BY <2>1
  <2> QED
    BY <1>3, <1>4, <1>6, <1>7, <1>8, <1>10, <2>2, <2>3, <2>5, <2>6, BesideStep

\* What the activation had in memory goes; a detachment it had begun is over.
LEMMA ActivationEndsStep ==
  ASSUME IInv, ActivationEnds PROVE IInv'
<1>1. UNCHANGED <<route, rel, len, owner, taken>> /\ UNCHANGED <<box, host, op>> /\ Fault
      /\ lock' = NoLock /\ waiter' = 0
      /\ session' = (IF lock.by \in {"join", "rejoin"} THEN "none" ELSE session)
      /\ going' = {IF c.pc = "detaching" THEN [c EXCEPT !.pc = "unavailable"] ELSE c :
                    c \in {d \in going : d.by # 0}}
  BY DEF ActivationEnds
<1>2. PICK G \in SUBSET going : G = {d \in going : d.by # 0}
  OBVIOUS
<1>3. PICK g : g = [d \in G |-> IF d.pc = "detaching" THEN [d EXCEPT !.pc = "unavailable"] ELSE d]
  OBVIOUS
<1>4. \A d \in G : g[d] = IF d.pc = "detaching" THEN [d EXCEPT !.pc = "unavailable"] ELSE d
  BY <1>3
<1>5. going' = {g[d] : d \in G}
  BY <1>1, <1>2, <1>4
<1>6. \A d \in G : /\ Goes(d, g[d]) /\ (g[d].pc \in SoldOut => d.pc \in SoldOut)
                   /\ g[d].pc \in {"processed", "duplicate"} => d.pc \in {"processed", "duplicate"}
  <2>1. TAKE d \in G
  <2>2. d \in ClaimState
    BY <1>2, Claims
  <2>3. PICK n : n = [d EXCEPT !.pc = "unavailable"]
    OBVIOUS
  <2>4. Goes(d, n) /\ n.pc = "unavailable" /\ Goes(d, d)
    BY <2>2, <2>3, ClaimOK DEF Goes, Answer
  <2> QED
    BY <1>4, <2>3, <2>4 DEF SoldOut
<1>7. PICK f : f = [r \in box |-> r]
  OBVIOUS
<1>8. box' = {f[r] : r \in box}
      /\ \A r \in box : Eases(r, f[r]) /\ (r.st = "leased" => f[r].st = "leased")
  <2>1. \A r \in box : f[r] = r
    BY <1>7
  <2>2. box' = {f[r] : r \in box}
    BY <1>1, <2>1
  <2>3. \A r \in box : Eases(r, r)
    BY Rows DEF Eases
  <2> QED
    BY <2>1, <2>2, <2>3
<1>9. lock' \in [by : {"nobody", "detach", "join", "rejoin", "orphan"}, at : Nat] /\ lock'.by = "nobody"
  BY <1>1, OldTypes
<1>10. Locks'
  BY <1>9 DEF Locks
<1>11. session' \in {session, "none"} /\ faults' \in 0 .. MaxFault
  BY <1>1, TakenTypes
<1>12. /\ host' \in Nat /\ host' >= host /\ host' <= MaxWorker
       /\ waiter' \in 0 .. len /\ op' \in 0 .. rel.rev
       /\ session' \in {"none", "opening", "joined", "retried"}
  BY <1>1, <1>11, OldTypes
<1>13. UNCHANGED <<route, rel, len, owner, taken>>
  BY <1>1
<1> QED
  BY <1>2, <1>5, <1>6, <1>8, <1>9, <1>10, <1>11, <1>12, <1>13, BesideStep

-----------------------------------------------------------------------------
\* Below the boundary of a detachment everything is taken or given up.
LEMMA BoundaryGiven ==
  ASSUME IInv, NEW upper \in Nat, upper <= len, rel.attached, rel.gap = <<>>
  PROVE  /\ DetachRecoveryBoundary(upper) \in Nat /\ DetachRecoveryBoundary(upper) <= upper
         /\ \A s \in 1 .. DetachRecoveryBoundary(upper) : Given(s)
<1> DEFINE S == {r.seq : r \in OpenRows}
<1>1. S \in SUBSET Nat /\ \A m \in S : m # 0
  BY Rows DEF OpenRows
<1>2. ASSUME NEW s \in 1 .. len, \A m \in S : s < m PROVE Given(s)
  <2>1. ASSUME ~Taken(s) PROVE \E r \in box : r.seq = s /\ r.st = "integrity"
    <3>1. PICK r \in box : r.seq = s /\ r.st \in Open \cup {"integrity"}
      BY <2>1 DEF IInv, OwedIsKept, Owed
    <3>2. ASSUME r.st \in Open PROVE FALSE
      <4>1. s \in S
        BY <3>1, <3>2 DEF OpenRows
      <4>2. s < s
        BY <1>2, <4>1
      <4> QED
        BY <4>2
    <3> QED
      BY <3>1, <3>2
  <2> QED
    BY <2>1 DEF Given
<1>3. CASE S = {}
  <2>1. DetachRecoveryBoundary(upper) = upper
    BY <1>3 DEF DetachRecoveryBoundary
  <2>2. \A s \in 1 .. upper : s \in 1 .. len
    BY Numbers
  <2>3. \A s \in 1 .. upper : Given(s)
    BY <1>2, <1>3, <2>2
  <2> HIDE DEF S
  <2> QED
    BY <2>1, <2>3
<1>4. CASE S # {}
  <2>1. PICK m \in S : m = Min(S) /\ m \in Nat /\ m # 0 /\ \A x \in S : m <= x
    BY <1>1, <1>4, MinFact
  <2>2. DetachRecoveryBoundary(upper) = IF upper < m THEN upper ELSE m - 1
    BY <1>4, <2>1 DEF DetachRecoveryBoundary
  <2>3. PICK b \in Nat : b = (IF upper < m THEN upper ELSE m - 1) /\ b <= upper /\ b < m
    <3>1. CASE upper < m
      BY <3>1
    <3>2. CASE ~(upper < m)
      <4>1. m \in Nat /\ m # 0
        BY <2>1
      <4>2. m - 1 \in Nat /\ m - 1 <= upper /\ m - 1 < m
        BY <3>2, <4>1
      <4> QED
        BY <3>2, <4>2
    <3> QED
      BY <3>1, <3>2
  <2>4. ASSUME NEW s \in 1 .. b PROVE s \in 1 .. len /\ \A x \in S : s < x
    <3>1. s \in 1 .. len /\ s < m
      BY <2>1, <2>3, Numbers
    <3>2. ASSUME NEW x \in S PROVE s < x
      <4>1. x \in Nat /\ m <= x /\ m \in Nat
        BY <1>1, <2>1
      <4> QED
        BY <3>1, <4>1
    <3> QED
      BY <3>1, <3>2
  <2> HIDE DEF S
  <2> QED
    BY <1>2, <2>2, <2>3, <2>4
<1> QED
  BY <1>3, <1>4

LEMMA LockedOK ==
  ASSUME NEW b \in Nat
  PROVE  LET l == [by |-> "detach", at |-> b] IN
         l \in [by : {"nobody", "detach", "join", "rejoin", "orphan"}, at : Nat]
         /\ l.by = "detach" /\ l.at = b
OBVIOUS

LEMMA DetachRequestedStep ==
  ASSUME IInv, DetachRequested PROVE IInv'
<1>1. UNCHANGED <<route, len, rel, box, owner, waiter, host, going, op, taken>>
      /\ session' = "none" /\ lock.by = "nobody" /\ rel.gap = <<>> /\ Fault
  BY OldTypes DEF DetachRequested
<1>2. CASE rel.attached
  <2>1. PICK b \in Nat : b = DetachRecoveryBoundary(len) /\ b <= len /\ \A s \in 1 .. b : Given(s)
    BY <1>1, <1>2, BoundaryGiven, Numbers
  <2>2. /\ lock' \in [by : {"nobody", "detach", "join", "rejoin", "orphan"}, at : Nat]
        /\ lock'.by = "detach" /\ lock'.at = b
    BY <1>2, <2>1, LockedOK DEF DetachRequested
  <2>3. Locks'
    BY <1>1, <2>2 DEF Locks
  <2> QED
    BY <1>1, <2>1, <2>2, <2>3, OldTypes, TakenTypes, LosesStep
<1>3. CASE ~rel.attached
  <2>1. lock' = NoLock
    BY <1>3 DEF DetachRequested
  <2>2. Locks'
    BY <2>1, OldTypes DEF Locks
  <2> QED
    BY <1>1, <2>1, <2>2, OldTypes, TakenTypes, LosesStep
<1> QED
  BY <1>2, <1>3

LEMMA FailUnavailableStep ==
  ASSUME IInv, NEW c \in going, FailUnavailable(c) PROVE IInv'
<1>1. PICK r \in Held(c) :
       \/ /\ box' = (box \ {r}) \cup {Freed(r, "ready")}
          /\ UNCHANGED <<rel, lock>> /\ Answers(c)
       \/ /\ r.crev = rel.rev /\ rel.attached /\ rel.gap = <<>>
          /\ lock' = [by |-> "detach", at |-> DetachRecoveryBoundary(c.seq - 1)]
          /\ going' = (going \ {c}) \cup {[c EXCEPT !.pc = "detaching"]}
          /\ UNCHANGED <<route, len, rel, box, owner, waiter, host, session, op, taken, faults>>
  BY DEF FailUnavailable, Requeued, Predates
<1>2. r \in box /\ r.st = "leased" /\ c.by # 0 /\ c.pc = "unavailable" /\ lock.by = "nobody"
  BY <1>1, OldTypes DEF Held, Row, FailUnavailable
<1>3. CASE box' = (box \ {r}) \cup {Freed(r, "ready")} /\ UNCHANGED <<rel, lock>> /\ Answers(c)
  <2>1. PICK n : n = Freed(r, "ready")
    OBVIOUS
  <2>2. Eases(r, n)
    BY <1>2, <2>1, Rows, FreedOK DEF Eases, Open
  <2>3. PICK f : f = [x \in box |-> IF x = r THEN n ELSE x]
    OBVIOUS
  <2>4. \A x \in box : f[x] = IF x = r THEN n ELSE x
    BY <2>3
  <2>5. box' = {f[x] : x \in box}
    BY <1>2, <1>3, <2>1, <2>4
  <2>6. \A x \in box : Eases(x, f[x])
    BY <2>2, <2>4, Itself
  <2>7. \A x \in box : x.st = "leased" => f[x].st = "leased" \/ x \in Held(c)
    BY <1>1, <2>4
  <2> QED
    BY <1>3, <2>5, <2>6, <2>7, AnswersStep
<1>4. CASE /\ r.crev = rel.rev /\ rel.attached /\ rel.gap = <<>>
           /\ lock' = [by |-> "detach", at |-> DetachRecoveryBoundary(c.seq - 1)]
           /\ going' = (going \ {c}) \cup {[c EXCEPT !.pc = "detaching"]}
           /\ UNCHANGED <<route, len, rel, box, owner, waiter, host, session, op, taken, faults>>
  <2>1. session # "joined"
    BY <1>1, <1>2, <1>4 DEF IInv, Unreached
  <2>2. c.seq - 1 \in Nat /\ c.seq - 1 <= len
    BY Claims, Numbers
  <2>3. PICK b \in Nat : b = DetachRecoveryBoundary(c.seq - 1) /\ b <= len /\ \A s \in 1 .. b : Given(s)
    BY <1>4, <2>2, BoundaryGiven, Numbers
  <2>4. /\ lock' \in [by : {"nobody", "detach", "join", "rejoin", "orphan"}, at : Nat]
        /\ lock'.by = "detach" /\ lock'.at = b
    BY <1>4, <2>3, LockedOK
  <2>5. Locks'
    BY <1>4, <2>1, <2>4 DEF Locks
  <2>6. PICK n : n = [c EXCEPT !.pc = "detaching"]
    OBVIOUS
  <2>7. Goes(c, n) /\ n.pc = "detaching"
    BY <2>6, Claims, ClaimOK DEF Goes, Answer
  <2>8. PICK G \in SUBSET going : G = going
    OBVIOUS
  <2>9. PICK g : g = [d \in G |-> IF d = c THEN n ELSE d]
    OBVIOUS
  <2>10. \A d \in G : g[d] = IF d = c THEN n ELSE d
    BY <2>9
  <2>11. going' = {g[d] : d \in G}
    BY <1>4, <2>6, <2>8, <2>10
  <2>12. \A d \in G : /\ Goes(d, g[d]) /\ (g[d].pc \in SoldOut => d.pc \in SoldOut)
                      /\ g[d].pc \in {"processed", "duplicate"} => d.pc \in {"processed", "duplicate"}
    <3>1. \A d \in G : Goes(d, d)
      BY Claims DEF Goes
    <3> QED
      BY <1>2, <2>7, <2>10, <3>1 DEF SoldOut
  <2>13. PICK f : f = [x \in box |-> x]
    OBVIOUS
  <2>14. \A x \in box : f[x] = x
    BY <2>13
  <2>15. box' = {f[x] : x \in box}
    BY <1>4, <2>14
  <2>16. \A x \in box : Eases(x, f[x]) /\ (x.st = "leased" => f[x].st = "leased")
    BY <2>14, Itself
  <2>17. UNCHANGED <<route, rel, len, owner, taken>> /\ UNCHANGED <<waiter, host, session, op, faults>>
    BY <1>4
  <2>18. /\ host' \in Nat /\ host' >= host /\ host' <= MaxWorker
         /\ waiter' \in 0 .. len /\ op' \in 0 .. rel.rev
         /\ session' \in {"none", "opening", "joined", "retried"} /\ faults' \in 0 .. MaxFault
    BY <2>17, OldTypes
  <2>19. UNCHANGED <<route, rel, len, owner, taken>>
    BY <1>4
  <2>20. lock'.by = "detach" =>
           \/ lock' = lock
           \/ rel.gap = <<>> /\ lock'.at <= len /\ \A s \in 1 .. lock'.at : Given(s)
    BY <1>4, <2>3, <2>4
  <2>21. /\ session' = "joined" => session = "joined" \/ lock.by = "join"
         /\ lock'.by = "join" => lock.by = "join"
    BY <2>4, <2>17
  <2>22. lock' \in [by : {"nobody", "detach", "join", "rejoin", "orphan"}, at : Nat]
    BY <2>4
  <2> QED
    BY <2>5, <2>8, <2>11, <2>12, <2>15, <2>16, <2>18, <2>19, <2>20, <2>21, <2>22, BesideStep
<1> QED
  BY <1>1, <1>3, <1>4

-----------------------------------------------------------------------------
\* The relationship ends: what its boundary declares delivered was.
LEMMA DetachedStep ==
  ASSUME IInv, Detached PROVE IInv'
<1>1. /\ UNCHANGED <<route, len, owner, host, session, op, taken, faults>>
      /\ lock.by = "detach" /\ lock' = NoLock
      /\ rel' = [rev |-> rel.rev + 1, attached |-> FALSE, at |-> lock.at, gap |-> <<>>]
      /\ box' = {Retired(r) : r \in box} /\ going' \subseteq going /\ SettleDeliveryWaiters
  BY DEF Detached
<1>2. /\ rel'.rev = rel.rev + 1 /\ rel'.attached = FALSE /\ rel'.at = lock.at /\ rel'.gap = <<>>
      /\ rel' \in [rev : Nat \ {0}, attached : BOOLEAN, at : Nat, gap : {<<>>} \cup (Nat \X Nat)]
  <2>1. rel.rev + 1 \in Nat \ {0} /\ lock.at \in Nat
    BY Numbers
  <2> QED
    BY <1>1, <2>1
<1>3. ASSUME NEW r \in box
      PROVE  LET n == Retired(r) IN
             /\ n \in RowState /\ n.seq = r.seq /\ n.rev = r.rev /\ n.st \notin Open
             /\ n.owner = 0 /\ n.crev \in {r.crev, 0} /\ (r.st = "integrity" => n = r)
  BY Rows, FreedOK DEF Retired, Open
<1>4. \A n \in box' : \E r \in box : n = Retired(r)
  BY <1>1
<1>5. TypeOK'
  <2>1. \A n \in box' : n \in RowState /\ n.seq \in 1 .. len /\ n.rev \in 1 .. rel'.rev
                        /\ n.crev \in 0 .. rel'.rev /\ n.st # "leased" /\ n.owner = 0
    <3>1. TAKE n \in box'
    <3>2. PICK r \in box : n = Retired(r)
      BY <1>4
    <3>3. /\ n \in RowState /\ n.seq = r.seq /\ n.rev = r.rev /\ n.st # "leased" /\ n.owner = 0
          /\ n.crev \in {r.crev, 0}
      BY <1>3, <3>2 DEF Open
    <3>4. r.rev \in 1 .. rel'.rev /\ r.crev \in 0 .. rel'.rev /\ 0 \in 0 .. rel'.rev /\ r.seq \in 1 .. len
      BY <1>2, Rows, Numbers
    <3> QED
      BY <3>3, <3>4
  <2>2. going' \subseteq ClaimState
        /\ \A c \in going' : c.by \in 0 .. owner /\ c.seq \in 1 .. len /\ c.rev \in 1 .. rel'.rev
    BY <1>1, <1>2, Claims, Numbers
  <2>3. waiter' \in 0 .. len /\ lock' \in [by : {"nobody", "detach", "join", "rejoin", "orphan"}, at : Nat]
    BY <1>1, WaiterTypes, OldTypes
  <2>4. op' \in 0 .. rel'.rev
    BY <1>1, <1>2, OldTypes, Numbers
  <2> QED
    BY <1>1, <1>2, <2>1, <2>2, <2>3, <2>4 DEF IInv, TypeOK
<1>6. Sole'
  BY <1>3, <1>4 DEF IInv, Sole
<1>7. GapIsNew' /\ Locks' /\ DetachKnows' /\ Once'
  BY <1>1, <1>2, OldTypes DEF GapIsNew, Locks, DetachKnows, Once, IInv
<1>8. ClaimsHold'
  <2>1. SUFFICES ASSUME NEW c \in going' PROVE Lost(c)'
    BY DEF ClaimsHold
  <2>2. c.rev < rel'.rev
    BY <1>1, <1>2, Claims, Numbers
  <2>3. \A n \in box' : n.st \notin Open
    BY <1>3, <1>4
  <2> QED
    BY <2>2, <2>3 DEF Lost, Row, Open
<1>9. SoleClaim' /\ Answers_'
  BY <1>1 DEF IInv, SoleClaim, Answers_, Acknowledged, Taken
<1>10. Unreached'
  BY <1>3, <1>4 DEF Unreached, Held, Row, Open
<1>11. (rel.at <= len)'
  BY <1>1, <1>2 DEF IInv, DetachKnows
<1>12. OwedIsKept'
  <2>1. SUFFICES ASSUME NEW s \in 1 .. len, ~Taken(s) PROVE Owed(s)'
    BY <1>1 DEF OwedIsKept, Taken
  <2>2. CASE s > lock.at
    BY <1>2, <2>2 DEF Owed
  <2>3. CASE s <= lock.at
    <3>1. PICK r \in box : r.seq = s /\ r.st = "integrity"
      BY <1>1, <2>1, <2>3, Numbers DEF IInv, DetachKnows, Given
    <3>2. r \in box'
      BY <1>1, <1>3, <3>1
    <3> QED
      BY <3>1, <3>2 DEF Owed
  <2> QED
    BY <2>2, <2>3, Numbers
<1>13. JoinStaysAttached'
  BY <1>1 DEF IInv, JoinStaysAttached, Locks
<1> QED
  BY <1>5, <1>6, <1>7, <1>8, <1>9, <1>10, <1>11, <1>12, <1>13 DEF IInv

-----------------------------------------------------------------------------
\* Rows that are added beside the others, under a claim of nobody.
LEMMA PublishStep ==
  ASSUME IInv, Publish PROVE IInv'
<1>1. /\ len < MaxEvent /\ rel.gap = <<>> /\ len' = len + 1 /\ SettleDeliveryWaiters
      /\ UNCHANGED <<route, rel, owner, lock, host, session, op, taken, faults>>
  BY DEF Publish
<1>2. PICK row : row = NewRow(len + 1, rel.rev)
  OBVIOUS
<1>3. /\ row \in RowState /\ row.seq = len + 1 /\ row.rev = rel.rev /\ row.st = "ready"
      /\ row.owner = 0 /\ row.crev = 0
  <2>1. len + 1 \in Nat /\ rel.rev \in Nat
    BY Numbers
  <2>2. PICK s : s = len + 1
    OBVIOUS
  <2> QED
    BY <1>2, <2>1, <2>2, PlainRowOK
<1>4. PICK m : m = Sent(row)
  OBVIOUS
<1>5. m \in ClaimState /\ m.by = 0 /\ m.seq = len + 1 /\ m.rev = rel.rev /\ m.pc = "sent"
  BY <1>3, <1>4, SentOK
<1>6. \/ rel.attached /\ box' = box \cup {row} /\ going' = going \cup {m}
      \/ ~rel.attached /\ box' = box /\ going' = going
  BY <1>2, <1>4 DEF Publish
<1>7. box \subseteq box' /\ box' \subseteq box \cup {row}
      /\ going \subseteq going' /\ going' \subseteq going \cup {m}
  BY <1>6
<1>8. len' \in Nat /\ len' \in 0 .. MaxEvent
  BY <1>1, Numbers
<1>9. TypeOK'
  <2>1. \A n \in box' : n \in RowState /\ n.seq \in 1 .. len' /\ n.rev \in 1 .. rel.rev
                        /\ n.crev \in 0 .. rel.rev /\ (IF n.st = "leased" THEN n.owner = owner ELSE n.owner = 0)
    <3>1. TAKE n \in box'
    <3>2. CASE n \in box
      <4>1. n.seq \in 1 .. len' /\ n \in RowState /\ n.rev \in 1 .. rel.rev /\ n.crev \in 0 .. rel.rev
        BY <1>1, <3>2, Rows, Numbers
      <4>2. IF n.st = "leased" THEN n.owner = owner ELSE n.owner = 0
        BY <3>2, Rows
      <4> QED
        BY <4>1, <4>2
    <3>3. CASE n = row
      BY <1>1, <1>3, <3>3, Numbers
    <3> QED
      BY <1>7, <3>2, <3>3
  <2>2. \A c \in going' : c \in ClaimState /\ c.by \in 0 .. owner /\ c.seq \in 1 .. len' /\ c.rev \in 1 .. rel.rev
    BY <1>1, <1>5, <1>7, Claims, Numbers
  <2>3. waiter' \in 0 .. len'
    <3>1. waiter' \in {waiter, 0} /\ waiter \in 0 .. len
      BY <1>1 DEF SettleDeliveryWaiters, IInv, TypeOK
    <3> QED
      BY <1>1, <3>1, Numbers
  <2> QED
    BY <1>1, <1>8, <2>1, <2>2, <2>3 DEF IInv, TypeOK
<1>10. Sole'
  <2>1. \A r \in box : r.seq # row.seq
    BY <1>3, Rows, Numbers
  <2> QED
    BY <1>7, <2>1 DEF IInv, Sole
<1>11. GapIsNew' /\ Locks' /\ Once' /\ (rel.at <= len)'
  BY <1>1, Numbers DEF GapIsNew, Locks, Once, IInv
<1>12. \A c \in going : Row(c)' = Row(c) /\ Held(c)' = Held(c) /\ Lost(c)' = Lost(c)
  <2>1. TAKE c \in going
  <2>2. row \notin Row(c)'
    BY <1>3, Claims, Numbers DEF Row
  <2>3. Row(c)' = Row(c)
    BY <1>7, <2>2 DEF Row
  <2> QED
    BY <1>1, <2>3 DEF Held, Lost, Open
<1>13. ClaimsHold' /\ SoleClaim'
  BY <1>1, <1>5, <1>7, <1>12, Numbers DEF IInv, ClaimsHold, SoleClaim
<1>14. Unreached'
  BY <1>1, <1>5, <1>7, <1>12 DEF IInv, Unreached
<1>15. DetachKnows'
  <2>1. \A s : Given(s) => Given(s)'
    BY <1>1, <1>7 DEF Given, Taken
  <2> QED
    BY <1>1, <2>1, Numbers DEF IInv, DetachKnows
<1>16. Answers_'
  BY <1>1, <1>5, <1>7 DEF IInv, Answers_, Acknowledged, Taken
<1>17. OwedIsKept'
  <2>1. SUFFICES ASSUME NEW s \in 1 .. len', ~Taken(s) PROVE Owed(s)'
    BY <1>1 DEF OwedIsKept, Taken
  <2>2. CASE s \in 1 .. len
    <3>1. Owed(s)
      BY <2>1, <2>2 DEF IInv, OwedIsKept
    <3> QED
      BY <1>1, <1>7, <3>1 DEF Owed
  <2>3. CASE s = len + 1
    <3>1. CASE rel.attached
      <4>1. row \in box'
        BY <1>6, <3>1
      <4> QED
        BY <1>3, <2>3, <4>1 DEF Owed, Open
    <3>2. CASE ~rel.attached
      BY <1>1, <2>3, <3>2, Numbers DEF Owed
    <3> QED
      BY <3>1, <3>2
  <2> QED
    BY <1>1, <2>2, <2>3, Numbers
<1>18. JoinStaysAttached'
  BY <1>1 DEF IInv, JoinStaysAttached
<1> QED
  BY <1>9, <1>10, <1>11, <1>13, <1>14, <1>15, <1>16, <1>17, <1>18 DEF IInv

-----------------------------------------------------------------------------
\* The work driver claims: what it leases no claim of it held.
LEMMA ReleasedOK ==
  ASSUME IInv, NEW q \in Released(host)
  PROVE  \E r \in box : /\ q \in RowState /\ q.seq = r.seq /\ q.rev = r.rev /\ q.crev \in {r.crev, 0}
                        /\ q.gen \in Nat
                        /\ host = owner => q = r
                        /\ host # owner => q.st # "leased"
                        /\ q.st \in Open <=> r.st \in Open
                        /\ q.st \notin Open => q = r
                        /\ IF q.st = "leased" THEN q.owner = owner ELSE q.owner = 0
<1>1. CASE host = owner
  BY <1>1, Rows DEF Released
<1>2. CASE host # owner
  <2>1. PICK r \in box : q = IF r.st = "leased" /\ r.owner = owner THEN Freed(r, "ready") ELSE r
    BY <1>2 DEF Released
  <2>2. CASE r.st = "leased" /\ r.owner = owner
    BY <1>2, <2>1, <2>2, Rows, FreedOK DEF Open, RowState
  <2>3. CASE ~(r.st = "leased" /\ r.owner = owner)
    BY <1>2, <2>1, <2>3, Rows DEF RowState
  <2> QED
    BY <2>2, <2>3
<1> QED
  BY <1>1, <1>2

LEMMA ReleasedAll ==
  ASSUME IInv, NEW r \in box
  PROVE  \E q \in Released(host) : /\ q.seq = r.seq /\ q.rev = r.rev
                                   /\ r.st \in Open => q.st \in Open
                                   /\ r.st \notin Open => q = r
                                   /\ host = owner => q = r
<1>1. CASE host = owner
  BY <1>1 DEF Released
<1>2. CASE host # owner
  <2>1. PICK q : q = IF r.st = "leased" /\ r.owner = owner THEN Freed(r, "ready") ELSE r
    OBVIOUS
  <2>2. q \in Released(host)
    BY <1>2, <2>1 DEF Released
  <2>3. q.seq = r.seq /\ q.rev = r.rev /\ (r.st \in Open => q.st \in Open) /\ (r.st \notin Open => q = r)
    BY <2>1, Rows, FreedOK DEF Open
  <2> QED
    BY <1>2, <2>2, <2>3
<1> QED
  BY <1>1, <1>2

LEMMA ClaimStep ==
  ASSUME IInv, ClaimReadyWork(host) PROVE IInv'
<1> DEFINE rows == Released(host)
<1>1. PICK D \in SUBSET Candidates(rows) :
        /\ owner' = host
        /\ box' = (rows \ D) \cup {Lease(r, host) : r \in D}
        /\ going' = going \cup {Sent(Lease(r, host)) : r \in D}
        /\ SettleDeliveryWaiters
        /\ UNCHANGED <<route, len, rel, lock, host, session, op, taken, faults>>
  BY DEF ClaimReadyWork
<1>2. \A q \in D : q \in rows /\ q.st \in {"ready", "retrying"}
  BY <1>1 DEF Candidates
<1>3. \A q \in rows : q \in RowState /\ q.gen \in Nat
  BY ReleasedOK
<1>4. \A q \in rows, p \in rows : q.seq = p.seq /\ q.rev = p.rev => q = p
  <2>1. TAKE q \in rows, p \in rows
  <2>2. ASSUME q.seq = p.seq, q.rev = p.rev PROVE q = p
    <3>1. CASE host = owner
      BY <2>2, <3>1 DEF Released, IInv, Sole
    <3>2. CASE host # owner
      <4>1. PICK r \in box : q = IF r.st = "leased" /\ r.owner = owner THEN Freed(r, "ready") ELSE r
        BY <3>2 DEF Released
      <4>2. PICK o \in box : p = IF o.st = "leased" /\ o.owner = owner THEN Freed(o, "ready") ELSE o
        BY <3>2 DEF Released
      <4>3. q.seq = r.seq /\ q.rev = r.rev /\ p.seq = o.seq /\ p.rev = o.rev
        BY <4>1, <4>2, Rows, FreedOK DEF Open
      <4>4. r = o
        BY <2>2, <4>3 DEF IInv, Sole
      <4> QED
        BY <4>1, <4>2, <4>4
    <3> QED
      BY <3>1, <3>2
  <2> QED
    BY <2>2
<1>20. ASSUME NEW q \in D
       PROVE  LET n == Lease(q, host) IN
              /\ n \in RowState /\ n.seq = q.seq /\ n.rev = q.rev /\ n.st = "leased"
              /\ n.owner = host /\ n.crev = rel.rev /\ n.gen = q.gen + 1
  <2>1. q \in RowState /\ host \in Nat /\ rel.rev \in Nat
    BY <1>2, <1>3, Numbers
  <2> QED
    BY <2>1, LeaseOK
\* a row of the mailbox now: the one released, or leased
<1>5. ASSUME NEW n \in box'
      PROVE  \E q \in rows : /\ n \in RowState /\ n.seq = q.seq /\ n.rev = q.rev
                             /\ (q \notin D /\ n = q) \/ (q \in D /\ n = Lease(q, host))
  <2>1. CASE n \in rows \ D
    BY <1>3, <2>1
  <2>2. CASE n \in {Lease(r, host) : r \in D}
    <3>1. PICK q \in D : n = Lease(q, host)
      BY <2>2
    <3> QED
      BY <1>2, <1>20, <3>1
  <2> QED
    BY <1>1, <2>1, <2>2
<1>6. ASSUME NEW q \in D
      PROVE  LET n == Lease(q, host) IN
             /\ n \in box' /\ n \in RowState /\ n.seq = q.seq /\ n.rev = q.rev /\ n.st = "leased"
             /\ n.owner = host /\ n.crev = rel.rev /\ n.gen = q.gen + 1
  BY <1>1, <1>20
<1>7. ASSUME NEW c \in going' 
      PROVE  c \in going \/ \E q \in D : /\ c = Sent(Lease(q, host)) /\ c \in ClaimState /\ c.by = host
                                         /\ c.seq = q.seq /\ c.rev = q.rev /\ c.gen = q.gen + 1
                                         /\ c.pc = "sent"
  <2>1. CASE c \notin going
    <3>1. PICK q \in D : c = Sent(Lease(q, host))
      BY <1>1, <2>1
    <3> QED
      BY <1>6, <3>1, SentOK
  <2> QED
    BY <2>1
\* no claim of the work driver that goes on is for a row it leases now
<1>8. ASSUME NEW c \in going, c.by = host, NEW q \in D, q.seq = c.seq, q.rev = c.rev PROVE FALSE
  <2>1. host = owner
    BY <1>8, Claims, Numbers
  <2>2. q \in box /\ q.st \in Open /\ q.st # "leased"
    BY <1>2, <2>1 DEF Released, Open
  <2>3. q \in Row(c)
    BY <1>8, <2>2 DEF Row
  <2>4. Held(c) # {}
    BY <1>8, <2>1, <2>2, <2>3 DEF IInv, ClaimsHold, Lost
  <2>5. PICK r \in Held(c) : TRUE
    BY <2>4
  <2>6. r = q /\ r.st = "leased"
    BY <2>2, <2>3, <2>5 DEF IInv, Sole, Held, Row
  <2> QED
    BY <2>2, <2>6
<1>9. TypeOK'
  <2>1. ASSUME NEW n \in box'
        PROVE  /\ n \in RowState /\ n.seq \in 1 .. len /\ n.rev \in 1 .. rel.rev /\ n.crev \in 0 .. rel.rev
               /\ IF n.st = "leased" THEN n.owner = host ELSE n.owner = 0
    <3>1. PICK q \in rows : /\ n \in RowState /\ n.seq = q.seq /\ n.rev = q.rev
                            /\ (q \notin D /\ n = q) \/ (q \in D /\ n = Lease(q, host))
      BY <1>5
    <3>2. PICK r \in box : /\ q.seq = r.seq /\ q.rev = r.rev /\ q.crev \in {r.crev, 0}
                           /\ host # owner => q.st # "leased"
                           /\ IF q.st = "leased" THEN q.owner = owner ELSE q.owner = 0
      BY <3>1, ReleasedOK
    <3>3. r.seq \in 1 .. len /\ r.rev \in 1 .. rel.rev /\ r.crev \in 0 .. rel.rev /\ 0 \in 0 .. rel.rev
          /\ rel.rev \in 0 .. rel.rev
      BY Rows, Numbers
    <3>4. CASE q \in D
      BY <1>6, <3>1, <3>2, <3>3, <3>4
    <3>5. CASE q \notin D
      BY <3>1, <3>2, <3>3, <3>5
    <3> QED
      BY <3>4, <3>5
  <2>2. ASSUME NEW c \in going'
        PROVE  c \in ClaimState /\ c.by \in 0 .. host /\ c.seq \in 1 .. len /\ c.rev \in 1 .. rel.rev
    <3>1. CASE c \in going
      BY <3>1, Claims, Numbers
    <3>2. CASE c \notin going
      <4>1. PICK q \in D : c \in ClaimState /\ c.by = host /\ c.seq = q.seq /\ c.rev = q.rev
        BY <1>7, <3>2
      <4>2. q.seq \in 1 .. len /\ q.rev \in 1 .. rel.rev
        BY <1>2, ReleasedOK, Rows
      <4>3. host \in 0 .. host
        BY Numbers
      <4> QED
        BY <4>1, <4>2, <4>3
    <3> QED
      BY <3>1, <3>2
  <2>3. waiter' \in 0 .. len
    BY <1>1, WaiterTypes
  <2>4. host \in 1 .. host
    BY Numbers
  <2> QED
    BY <1>1, <2>1, <2>2, <2>3, <2>4 DEF IInv, TypeOK
<1>10. Sole'
  <2>1. SUFFICES ASSUME NEW n \in box', NEW m \in box', n.seq = m.seq, n.rev = m.rev PROVE n = m
    BY DEF Sole
  <2>2. PICK q \in rows : /\ n.seq = q.seq /\ n.rev = q.rev
                          /\ (q \notin D /\ n = q) \/ (q \in D /\ n = Lease(q, host))
    BY <1>5
  <2>3. PICK p \in rows : /\ m.seq = p.seq /\ m.rev = p.rev
                          /\ (p \notin D /\ m = p) \/ (p \in D /\ m = Lease(p, host))
    BY <1>5
  <2>4. q = p
    BY <1>4, <2>1, <2>2, <2>3
  <2> QED
    BY <2>2, <2>3, <2>4
<1>11. \A n \in box' : \E r \in box : n.seq = r.seq /\ n.rev = r.rev
  BY <1>5, ReleasedOK
<1>12. GapIsNew' /\ Locks' /\ Once' /\ (rel.at <= len)' /\ JoinStaysAttached'
  BY <1>1, <1>11 DEF GapIsNew, Locks, Once, JoinStaysAttached, IInv
<1>13. ASSUME NEW r \in box
       PROVE  /\ r.st \notin Open => r \in box'
              /\ r.st \in Open => \E n \in box' : n.seq = r.seq /\ n.st \in Open
  <2>1. PICK q \in rows : /\ q.seq = r.seq /\ q.rev = r.rev
                          /\ r.st \in Open => q.st \in Open
                          /\ r.st \notin Open => q = r
    BY ReleasedAll
  <2>2. CASE q \in D
    BY <1>2, <1>6, <2>1, <2>2 DEF Open
  <2>3. CASE q \notin D
    BY <1>1, <2>1, <2>3
  <2> QED
    BY <2>2, <2>3
<1>14. ClaimsHold'
  <2>1. SUFFICES ASSUME NEW c \in going', c.by = host PROVE Held(c)' # {} \/ Lost(c)'
    BY <1>1 DEF ClaimsHold
  <2>2. CASE c \notin going
    <3>1. PICK q \in D : c.by = host /\ c.seq = q.seq /\ c.rev = q.rev /\ c.gen = q.gen + 1
      BY <1>7, <2>2
    <3>2. Lease(q, host) \in Held(c)'
      BY <1>6, <3>1 DEF Held, Row
    <3> QED
      BY <3>2
  <2>3. CASE c \in going
    <3>1. host = owner
      BY <2>1, <2>3, Claims, Numbers
    <3>2. CASE Held(c) # {}
      <4>1. PICK r \in Held(c) : TRUE
        BY <3>2
      <4>2. r \in box /\ r.st = "leased" /\ r \in rows /\ r \notin D
        BY <1>2, <3>1, <4>1 DEF Held, Row, Released
      <4>3. r \in box'
        BY <1>1, <4>2
      <4> QED
        BY <4>1, <4>3 DEF Held, Row
    <3>3. CASE Lost(c)
      <4>1. ASSUME NEW n \in box', n.seq = c.seq, n.rev = c.rev PROVE n.st \notin Open
        <5>1. PICK q \in rows : /\ n.seq = q.seq /\ n.rev = q.rev
                                /\ (q \notin D /\ n = q) \/ (q \in D /\ n = Lease(q, host))
          BY <1>5
        <5>2. q \notin D
          BY <1>8, <2>1, <2>3, <4>1, <5>1
        <5>3. n \in Row(c)
          BY <3>1, <4>1, <5>1, <5>2 DEF Row, Released
        <5> QED
          BY <3>3, <5>3 DEF Lost
      <4> QED
        BY <1>1, <3>3, <4>1 DEF Lost, Row, Open
    <3> QED
      BY <2>1, <2>3, <3>1, <3>2, <3>3 DEF IInv, ClaimsHold
  <2> QED
    BY <2>2, <2>3
<1>15. SoleClaim'
  <2>1. SUFFICES ASSUME NEW c \in going', NEW d \in going', c.by = host, d.by = host,
                        c.seq = d.seq, c.rev = d.rev
                 PROVE  c = d
    BY <1>1 DEF SoleClaim
  <2>2. CASE c \in going /\ d \in going
    <3>1. host = owner
      BY <2>1, <2>2, Claims, Numbers
    <3> QED
      BY <2>1, <2>2, <3>1 DEF IInv, SoleClaim
  <2>3. CASE c \notin going /\ d \notin going
    <3>1. PICK q \in D : c = Sent(Lease(q, host)) /\ c.seq = q.seq /\ c.rev = q.rev
      BY <1>7, <2>3
    <3>2. PICK p \in D : d = Sent(Lease(p, host)) /\ d.seq = p.seq /\ d.rev = p.rev
      BY <1>7, <2>3
    <3>3. q = p
      BY <1>2, <1>4, <2>1, <3>1, <3>2
    <3> QED
      BY <3>1, <3>2, <3>3
  <2>4. CASE c \in going /\ d \notin going
    BY <1>7, <1>8, <2>1, <2>4
  <2>5. CASE c \notin going /\ d \in going
    BY <1>7, <1>8, <2>1, <2>5
  <2> QED
    BY <2>2, <2>3, <2>4, <2>5
<1>16. Unreached'
  <2>1. SUFFICES ASSUME NEW c \in going', c.by # 0, c.pc \in {"unavailable", "detaching"},
                        NEW n \in Held(c)', n.crev = rel.rev
                 PROVE  session # "joined" /\ lock.by # "join"
    BY <1>1 DEF Unreached
  <2>2. c \in going
    BY <1>7, <2>1
  <2>3. n \in box' /\ n.st = "leased" /\ n.seq = c.seq /\ n.rev = c.rev /\ n.owner = c.by /\ n.gen = c.gen
    BY <2>1 DEF Held, Row
  <2>4. PICK q \in rows : /\ n.seq = q.seq /\ n.rev = q.rev
                          /\ (q \notin D /\ n = q) \/ (q \in D /\ n = Lease(q, host))
    BY <1>5, <2>3
  <2>5. c.by = host
    BY <1>1, <1>9, <2>3 DEF TypeOK
  <2>8. q \notin D
    BY <1>8, <2>2, <2>3, <2>4, <2>5
  <2>9. host = owner
    BY <2>2, <2>5, Claims, Numbers
  <2>6. q \notin D /\ host = owner
    BY <2>8, <2>9
  <2>7. n \in Held(c)
    BY <2>3, <2>4, <2>6 DEF Held, Row, Released
  <2> QED
    BY <2>1, <2>2, <2>7 DEF IInv, Unreached
<1>17. DetachKnows'
  <2>1. \A s : Given(s) => Given(s)'
    BY <1>1, <1>13 DEF Given, Taken, Open
  <2> QED
    BY <1>1, <2>1 DEF IInv, DetachKnows
<1>18. Answers_'
  <2>1. \A c \in going' : c \in going \/ c.pc = "sent"
    BY <1>7
  <2> QED
    BY <1>1, <2>1 DEF IInv, Answers_, Acknowledged, Taken
<1>19. OwedIsKept'
  <2>1. SUFFICES ASSUME NEW s \in 1 .. len, ~Taken(s) PROVE Owed(s)'
    BY <1>1 DEF OwedIsKept, Taken
  <2>2. Owed(s)
    BY <2>1 DEF IInv, OwedIsKept
  <2>3. ASSUME NEW r \in box, r.seq = s, r.st \in Open \cup {"integrity"}
        PROVE  \E n \in box' : n.seq = s /\ n.st \in Open \cup {"integrity"}
    BY <1>13, <2>3 DEF Open
  <2> QED
    BY <1>1, <2>2, <2>3 DEF Owed
<1> QED
  BY <1>9, <1>10, <1>12, <1>14, <1>15, <1>16, <1>17, <1>18, <1>19 DEF IInv

-----------------------------------------------------------------------------
\* Deliveries that start afresh under the present revision; others have ended.
Refreshes(Z, F) ==
  /\ Z \in SUBSET box /\ box' = (box \ Z) \cup F
  /\ \A r \in Z : r.st \notin Open /\ r.rev = rel.rev
  /\ \A n \in F : /\ n \in RowState /\ n.seq \in 1 .. len /\ n.rev = rel.rev /\ n.st = "ready"
                  /\ n.owner = 0 /\ n.crev = 0
  /\ \A n, m \in F : n.seq = m.seq => n = m
  /\ \A n \in F : \A r \in box \ Z : ~(r.seq = n.seq /\ r.rev = rel.rev)
  /\ \A r \in Z : \E n \in F : n.seq = r.seq
  /\ rel' = [rel EXCEPT !.gap = <<>>]
  /\ rel.gap # <<>> => \A s \in rel.gap[1] + 1 .. rel.gap[2] : \E n \in F : n.seq = s
  /\ lock.by # "detach" /\ lock'.by = lock.by
  /\ lock' \in [by : {"nobody", "detach", "join", "rejoin", "orphan"}, at : Nat]
  /\ UNCHANGED <<route, len, owner, waiter, host, going, session, op, taken, faults>>

LEMMA FreshStep ==
  ASSUME IInv, NEW Z, NEW F, Refreshes(Z, F) PROVE IInv'
<1> USE DEF Refreshes
<1>1. rel'.rev = rel.rev /\ rel'.attached = rel.attached /\ rel'.at = rel.at /\ rel'.gap = <<>>
      /\ rel' \in [rev : Nat \ {0}, attached : BOOLEAN, at : Nat, gap : {<<>>} \cup (Nat \X Nat)]
  BY DEF IInv, TypeOK
<1>2. TypeOK'
  <2>1. ASSUME NEW n \in box'
        PROVE  /\ n \in RowState /\ n.seq \in 1 .. len /\ n.rev \in 1 .. rel.rev /\ n.crev \in 0 .. rel.rev
               /\ IF n.st = "leased" THEN n.owner = owner ELSE n.owner = 0
    <3>1. CASE n \in F
      <4>1. rel.rev \in 1 .. rel.rev /\ 0 \in 0 .. rel.rev
        BY Numbers
      <4> QED
        BY <3>1, <4>1
    <3>2. CASE n \in box
      BY <3>2, Rows
    <3> QED
      BY <3>1, <3>2
  <2> QED
    BY <1>1, <2>1 DEF IInv, TypeOK
<1>3. Sole'
  BY DEF IInv, Sole
<1>4. GapIsNew' /\ Locks' /\ Once' /\ (rel.at <= len)' /\ JoinStaysAttached' /\ DetachKnows'
  BY <1>1 DEF GapIsNew, Locks, Once, JoinStaysAttached, DetachKnows, IInv
<1>5. \A c \in going : Held(c)' = Held(c)
  BY DEF Held, Row, Open
<1>6. ASSUME NEW c \in going, Lost(c) PROVE Lost(c)'
  <2>1. c.rev < rel.rev
    BY <1>6 DEF Lost
  <2>2. \A n \in F : n.rev # c.rev
    BY <2>1, Claims, Numbers
  <2> QED
    BY <1>1, <1>6, <2>1, <2>2 DEF Lost, Row, Open
<1>7. ClaimsHold' /\ SoleClaim'
  BY <1>5, <1>6 DEF IInv, ClaimsHold, SoleClaim
<1>8. Unreached' /\ Answers_'
  BY <1>1, <1>5 DEF IInv, Unreached, Answers_, Acknowledged, Taken
<1>9. OwedIsKept'
  <2>1. SUFFICES ASSUME NEW s \in 1 .. len, ~Taken(s) PROVE Owed(s)'
    BY DEF OwedIsKept, Taken
  <2>2. Owed(s)
    BY <2>1 DEF IInv, OwedIsKept
  <2>3. ASSUME NEW n \in F, n.seq = s PROVE Owed(s)'
    BY <2>3 DEF Owed, Open
  <2>4. ASSUME NEW r \in box, r.seq = s, r.st \in Open \cup {"integrity"} PROVE Owed(s)'
    <3>1. CASE r \in Z
      BY <2>3, <2>4, <3>1
    <3>2. CASE r \notin Z
      BY <2>4, <3>2 DEF Owed
    <3> QED
      BY <3>1, <3>2
  <2> QED
    BY <1>1, <2>2, <2>3, <2>4 DEF Owed
<1> QED
  BY <1>2, <1>3, <1>4, <1>7, <1>8, <1>9 DEF IInv

LEMMA BackfillStep ==
  ASSUME IInv, Backfill PROVE IInv'
<1> DEFINE span == rel.gap[1] + 1 .. rel.gap[2]
<1>1. /\ rel.gap # <<>> /\ rel' = [rel EXCEPT !.gap = <<>>]
      /\ UNCHANGED <<route, len, owner, lock, waiter, host, going, session, op, taken, faults>>
  BY DEF Backfill
<1>2. PICK F : F = {NewRow(s, rel.rev) : s \in span}
  OBVIOUS
<1>12. PICK Z \in SUBSET box : Z = {}
  OBVIOUS
<1>3. box' = (box \ Z) \cup F
  BY <1>2, <1>12 DEF Backfill
<1>4. rel.gap[1] \in Nat /\ rel.gap[2] \in Nat /\ rel.gap[2] <= len /\ lock.by # "detach"
      /\ \A r \in box : r.rev < rel.rev
  BY <1>1 DEF IInv, TypeOK, GapIsNew
<1>5. \A s \in span : s \in Nat /\ s \in 1 .. len
  BY <1>4, Numbers
<1>6. \A s \in span : LET n == NewRow(s, rel.rev) IN
        n \in RowState /\ n.seq = s /\ n.rev = rel.rev /\ n.st = "ready" /\ n.owner = 0 /\ n.crev = 0
  BY <1>5, PlainRowOK, Numbers
<1>7. \A n \in F : /\ n \in RowState /\ n.seq \in 1 .. len /\ n.rev = rel.rev /\ n.st = "ready"
                   /\ n.owner = 0 /\ n.crev = 0
  BY <1>2, <1>5, <1>6
<1>8. \A n, m \in F : n.seq = m.seq => n = m
  BY <1>2, <1>6
<1>9. \A n \in F : \A r \in box \ Z : ~(r.seq = n.seq /\ r.rev = rel.rev)
  BY <1>4, Rows, Numbers
<1>10. rel.gap # <<>> => \A s \in span : \E n \in F : n.seq = s
  BY <1>2, <1>6
<1>11. lock' \in [by : {"nobody", "detach", "join", "rejoin", "orphan"}, at : Nat] /\ lock'.by = lock.by
  BY <1>1, OldTypes
<1>13. /\ \A r \in Z : r.st \notin Open /\ r.rev = rel.rev
       /\ \A r \in Z : \E n \in F : n.seq = r.seq
  BY <1>12
<1>14. lock.by # "detach" /\ lock'.by = lock.by
  BY <1>4, <1>11
<1>15. rel' = [rel EXCEPT !.gap = <<>>]
  BY <1>1
<1>16. UNCHANGED <<route, len, owner, waiter, host, going, session, op, taken, faults>>
  BY <1>1
<1> HIDE DEF span
<1>17. rel.gap # <<>> => \A s \in rel.gap[1] + 1 .. rel.gap[2] : \E n \in F : n.seq = s
  BY <1>10 DEF span
<1> QED
  BY <1>3, <1>7, <1>8, <1>9, <1>11, <1>13, <1>14, <1>15, <1>16, <1>17, <1>12, FreshStep DEF Refreshes

LEMMA RedeliverPendingCallsToStep ==
  ASSUME IInv, RedeliverPendingCallsTo PROVE IInv'
<1> DEFINE Old(s) == {r \in box : r.seq = s /\ r.rev = rel.rev}
           Fresh(s) == [NewRow(s, rel.rev) EXCEPT !.failed = \E r \in Old(s) : r.failed]
<1>1. /\ rel.gap = <<>> /\ lock.by \in {"join", "rejoin", "orphan"} /\ lock' = [lock EXCEPT !.at = 2]
      /\ UNCHANGED <<route, len, rel, owner, waiter, host, going, session, op, taken, faults>>
  BY DEF RedeliverPendingCallsTo, Joining
<1>2. PICK again \in SUBSET (1 .. len) :
        /\ \A s \in again : \A r \in Old(s) : r.st \notin Open
        /\ box' = (box \ UNION {Old(s) : s \in again}) \cup {Fresh(s) : s \in again}
  <2>1. PICK P \in SUBSET {s \in Call : s <= len} :
          LET again == {s \in P : /\ route = "mailbox" /\ rel.attached
                                  /\ \A r \in Old(s) : r.st \notin Open}
          IN box' = (box \ UNION {Old(s) : s \in again}) \cup {Fresh(s) : s \in again}
    BY DEF RedeliverPendingCallsTo
  <2>2. \A s \in P : s \in 1 .. len
    BY LimitAssumption, Numbers
  <2>3. PICK again : again = {s \in P : /\ route = "mailbox" /\ rel.attached
                                        /\ \A r \in Old(s) : r.st \notin Open}
    OBVIOUS
  <2> QED
    BY <2>1, <2>2, <2>3
<1>3. PICK Z : Z = UNION {Old(s) : s \in again}
  OBVIOUS
<1>4. PICK F : F = {Fresh(s) : s \in again}
  OBVIOUS
<1>5. \A r : r \in Z <=> r \in box /\ r.seq \in again /\ r.rev = rel.rev
  BY <1>3
<1>6. \A s \in again : LET n == Fresh(s) IN
        n \in RowState /\ n.seq = s /\ n.rev = rel.rev /\ n.st = "ready" /\ n.owner = 0 /\ n.crev = 0
  <2>1. TAKE s \in again
  <2>2. PICK b : b = \E r \in Old(s) : r.failed
    OBVIOUS
  <2>3. b \in BOOLEAN
    BY Zenon, <2>2
  <2>4. Fresh(s) = [NewRow(s, rel.rev) EXCEPT !.failed = b]
    BY Zenon, <2>2
  <2>5. s \in Nat /\ rel.rev \in Nat
    BY Numbers
  <2> HIDE DEF Fresh
  <2> QED
    BY <2>3, <2>4, <2>5, NewRowOK
<1> HIDE DEF Fresh, Old
<1>7. \A n \in F : /\ n \in RowState /\ n.seq \in 1 .. len /\ n.rev = rel.rev /\ n.st = "ready"
                   /\ n.owner = 0 /\ n.crev = 0
  BY <1>2, <1>4, <1>6
<1>8. \A n, m \in F : n.seq = m.seq => n = m
  BY <1>4, <1>6
<1>9. \A n \in F : n.seq \in again
  BY <1>4, <1>6
<1>10. \A n \in F : \A r \in box \ Z : ~(r.seq = n.seq /\ r.rev = rel.rev)
  BY <1>5, <1>9
<1>11. \A r \in Z : \E n \in F : n.seq = r.seq
  BY <1>4, <1>5, <1>6
<1>12. \A r \in Z : r.st \notin Open /\ r.rev = rel.rev
  BY <1>2, <1>5 DEF Old
<1>13. Z \in SUBSET box
  BY <1>5
<1>14. rel' = [rel EXCEPT !.gap = <<>>]
  <2>1. \A v \in [rev : Nat \ {0}, attached : BOOLEAN, at : Nat, gap : {<<>>} \cup (Nat \X Nat)] :
          v.gap = <<>> => v = [v EXCEPT !.gap = <<>>]
    OBVIOUS
  <2> QED
    BY <1>1, <2>1 DEF IInv, TypeOK
<1>15. /\ lock' \in [by : {"nobody", "detach", "join", "rejoin", "orphan"}, at : Nat]
       /\ lock'.by = lock.by /\ lock.by # "detach"
  BY <1>1, OldTypes
<1>16. box' = (box \ Z) \cup F
  BY <1>2, <1>3, <1>4
<1>17. UNCHANGED <<route, len, owner, waiter, host, going, session, op, taken, faults>>
  BY <1>1
<1>18. rel.gap # <<>> => \A s \in rel.gap[1] + 1 .. rel.gap[2] : \E n \in F : n.seq = s
  BY <1>1
<1>19. Z \in SUBSET box /\ box' = (box \ Z) \cup F
  BY <1>13, <1>16
<1>20. Refreshes(Z, F)
  BY <1>7, <1>8, <1>10, <1>11, <1>12, <1>14, <1>15, <1>17, <1>18, <1>19 DEF Refreshes
<1> QED
  BY <1>20, FreshStep

LEMMA JoinStep ==
  ASSUME IInv, Join PROVE IInv'
<1>1. /\ session = "opening" /\ lock = NoLock /\ rel.gap = <<>>
      /\ lock' = [by |-> IF op = 0 THEN "join" ELSE "rejoin", at |-> 0]
      /\ SettleDeliveryWaiters
      /\ UNCHANGED <<box, route, len, owner, host, going, session, taken, faults>>
  BY DEF Join
<1>2. waiter' \in 0 .. len
  BY <1>1, WaiterTypes
<1>3. lock' \in [by : {"nobody", "detach", "join", "rejoin", "orphan"}, at : Nat]
  BY <1>1
<1>4. CASE op # 0
  <2>1. UNCHANGED <<rel, op>> /\ lock'.by = "rejoin"
    BY <1>1, <1>4 DEF Join
  <2>2. Locks'
    BY <1>1, <2>1 DEF Locks
  <2>3. PICK G \in SUBSET going : G = going
    OBVIOUS
  <2> QED
    BY <1>1, <1>2, <1>3, <2>1, <2>2, <2>3, OldTypes, LosesStep
<1>5. CASE op = 0
  <2>1. PICK gap \in {<<>>} \cup (Nat \X Nat) :
          /\ rel' = [rev |-> rel.rev + 1, attached |-> TRUE, at |-> 0, gap |-> gap]
          /\ gap = IF rel.attached THEN <<>> ELSE <<rel.at, len>>
    <3>1. <<rel.at, len>> \in Nat \X Nat
      BY Numbers
    <3> QED
      BY <1>5, <3>1 DEF Join
  <2>2. op' = rel.rev + 1 /\ lock'.by = "join"
    BY <1>1, <1>5 DEF Join
  <2>3. rel'.rev = rel.rev + 1 /\ rel'.attached /\ rel'.at = 0 /\ rel'.gap = gap
    BY <2>1
  <2>4. TypeOK'
    <3>1. /\ rel.rev + 1 \in Nat \ {0} /\ rel.rev + 1 \in 0 .. rel.rev + 1 /\ 0 \in Nat
      BY Numbers
    <3>2. rel' \in [rev : Nat \ {0}, attached : BOOLEAN, at : Nat, gap : {<<>>} \cup (Nat \X Nat)]
      BY <2>1, <3>1
    <3>3. \A r \in box : r.rev \in 1 .. rel'.rev /\ r.crev \in 0 .. rel'.rev
      BY <2>3, Rows, Numbers
    <3>4. \A c \in going : c.rev \in 1 .. rel'.rev
      BY <2>3, Claims, Numbers
    <3>5. op' \in 0 .. rel'.rev
      BY <2>2, <2>3, <3>1
    <3> QED
      BY <1>1, <1>2, <1>3, <3>2, <3>3, <3>4, <3>5 DEF IInv, TypeOK
  <2>5. Sole' /\ SoleClaim' /\ Answers_' /\ Once' /\ DetachKnows' /\ JoinStaysAttached' /\ Locks'
    BY <1>1, <2>2, <2>3
       DEF IInv, Sole, SoleClaim, Answers_, Acknowledged, Taken, Once, DetachKnows, JoinStaysAttached, Locks
  <2>6. GapIsNew'
    <3>1. \A r \in box : r.rev < rel'.rev
      BY <2>3, Rows, Numbers
    <3>2. gap # <<>> => gap[2] <= len
      BY <2>1, Numbers
    <3> QED
      BY <1>1, <2>2, <2>3, <3>1, <3>2 DEF GapIsNew
  <2>7. ClaimsHold'
    <3>1. \A c \in going : Held(c)' = Held(c) /\ (Lost(c) => Lost(c)')
      BY <1>1, <2>3, Claims, Numbers DEF Held, Lost, Row, Open
    <3> QED
      BY <1>1, <3>1 DEF IInv, ClaimsHold
  <2>8. Unreached'
    <3>1. \A r \in box : r.crev # rel'.rev
      BY <2>3, Rows, Numbers
    <3> QED
      BY <1>1, <3>1 DEF Unreached, Held, Row
  <2>9. OwedIsKept'
    <3>1. SUFFICES ASSUME NEW s \in 1 .. len, ~Taken(s) PROVE Owed(s)'
      BY <1>1 DEF OwedIsKept, Taken
    <3>2. Owed(s)
      BY <3>1 DEF IInv, OwedIsKept
    <3>3. CASE \E r \in box : r.seq = s /\ r.st \in Open \cup {"integrity"}
      BY <1>1, <3>3 DEF Owed, Open
    <3>4. CASE ~rel.attached /\ s > rel.at
      <4>1. gap = <<rel.at, len>> /\ gap # <<>>
        BY <2>1, <3>4
      <4>2. s \in gap[1] + 1 .. gap[2]
        BY <3>4, <4>1, Numbers
      <4> QED
        BY <2>3, <4>1, <4>2 DEF Owed
    <3> QED
      BY <1>1, <3>2, <3>3, <3>4 DEF Owed
  <2>10. (rel.at <= len)'
    BY <1>1, <2>3, Numbers
  <2> QED
    BY <2>4, <2>5, <2>6, <2>7, <2>8, <2>9, <2>10 DEF IInv
<1> QED
  BY <1>4, <1>5

-----------------------------------------------------------------------------
LEMMA InitIInv ==
  ASSUME Init PROVE IInv
<1>1. /\ route \in Route /\ len = 0 /\ box = {} /\ owner = 1 /\ host = 1 /\ going = {}
      /\ rel = [rev |-> 1, attached |-> TRUE, at |-> 0, gap |-> <<>>]
      /\ lock = NoLock /\ waiter = 0 /\ session = "joined" /\ op = 0
      /\ taken = [s \in 1 .. MaxEvent |-> 0] /\ faults = 0
  BY DEF Init
<1>2. TypeOK
  BY <1>1, LimitAssumption DEF TypeOK, NoLock
<1>3. Sole /\ ClaimsHold /\ SoleClaim /\ Unreached /\ Answers_ /\ Once /\ JoinStaysAttached
  BY <1>1 DEF Sole, ClaimsHold, SoleClaim, Unreached, Answers_, Once, JoinStaysAttached
<1>4. GapIsNew /\ Locks /\ DetachKnows /\ rel.at <= len
  BY <1>1 DEF GapIsNew, Locks, DetachKnows, NoLock
<1>5. OwedIsKept
  BY <1>1 DEF OwedIsKept
<1> QED
  BY <1>2, <1>3, <1>4, <1>5 DEF IInv

LEMMA StutterStep ==
  ASSUME IInv, UNCHANGED vars PROVE IInv'
<1>1. UNCHANGED <<route, len, rel, box, owner, lock, waiter, host, going, session, op, taken, faults>>
  BY DEF vars, channel
<1>2. Locks'
  BY <1>1 DEF IInv, Locks
<1>3. PICK G \in SUBSET going : G = going
  OBVIOUS
<1> QED
  BY <1>1, <1>2, <1>3, OldTypes, LosesStep

LEMMA NextIInv ==
  ASSUME IInv, [Next]_vars PROVE IInv'
<1>1. CASE Publish \/ ClaimReadyWork(host) \/ HostRestarts
  BY <1>1, PublishStep, ClaimStep, HostRestartsStep
<1>2. ASSUME NEW c \in going, Participates(c) \/ Defers(c) \/ Fails(c) \/ Refuses(c) PROVE IInv'
  BY <1>2, ParticipatesStep, FailingStep
<1>3. ASSUME NEW c \in going, Reports(c) PROVE IInv'
  <2>1. CASE SettleOwned(c) \/ RecordOwnedFailure(c) \/ SettleReadyWork(c)
    BY <2>1, SettledStep, RecordOwnedFailureStep
  <2>2. CASE FailReadyWork(c) \/ Stale(c) \/ FailUnavailable(c)
    BY <2>2, FailReadyWorkStep, StaleStep, FailUnavailableStep
  <2> QED
    BY <1>3, <2>1, <2>2 DEF Reports
<1>4. CASE DetachRequested \/ Detached \/ Opens
  BY <1>4, DetachRequestedStep, DetachedStep, OpensStep
<1>5. CASE Joins
  BY <1>5, JoinStep, BackfillStep, RearmRetryingForStep, RedeliverPendingCallsToStep, JoinAnsweredStep
     DEF Joins
<1>6. CASE SessionEnds \/ WaitDeliveryThrough \/ ActivationEnds
  BY <1>6, SessionEndsStep, WaitDeliveryThroughStep, ActivationEndsStep
<1>7. CASE UNCHANGED vars
  BY <1>7, StutterStep
<1> QED
  BY <1>1, <1>2, <1>3, <1>4, <1>5, <1>6, <1>7 DEF Next

LEMMA Invariant == Spec => []IInv
<1>1. Init => IInv
  BY InitIInv
<1>2. IInv /\ [Next]_vars => IInv'
  BY NextIInv
<1> QED
  BY <1>1, <1>2, PTL DEF Spec

-----------------------------------------------------------------------------
(* The variables have their types: a lease is the adopted work driver's, and *)
(* no row, claim or answered operation is ahead of the ledger or of the      *)
(* relationship (channel-do.ts, the mailbox table).                          *)
THEOREM TypeCorrect == Spec => []TypeOK
<1>1. IInv => TypeOK
  BY DEF IInv
<1> QED
  BY <1>1, Invariant, PTL

(* However many work drivers, revisions and attempts carry an event at once, *)
(* an agent admits it once (submitNativeChannelDelivery).                    *)
THEOREM OnceAdmitted == Spec => []AdmittedOnce
<1>1. IInv => AdmittedOnce
  BY Numbers DEF IInv, Once, AdmittedOnce
<1> QED
  BY <1>1, Invariant, PTL

(* However many failures, restarts and detachments come between, an event    *)
(* the participant has not taken is owed to it (detachRecoveryBoundary).     *)
THEOREM OwedKept == Spec => []OwedIsKept
<1>1. IInv => OwedIsKept
  BY DEF IInv
<1> QED
  BY <1>1, Invariant, PTL

(* A session that joined is detached only when it asks: a claim that found   *)
(* no session is of another relationship by then (failReadyWork).            *)
THEOREM JoinKept == Spec => []JoinStaysAttached
<1>1. IInv => JoinStaysAttached
  BY DEF IInv
<1> QED
  BY <1>1, Invariant, PTL
=============================================================================
