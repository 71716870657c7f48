-------------------------- MODULE ChannelLedgerProofs -------------------------
(***************************************************************************)
(* The way of an envelope, proved: from the publication queue into the     *)
(* channel's ledger, for every set of publications, observers and every    *)
(* capacity; and from the ledger into the log authority, for any channels, *)
(* forks, events and generations of the driver.                            *)
(*                                                                         *)
(* HorizonHolds is not inductive: a captured head stays the head because   *)
(* the queue is sealed and has no receipt open, and a publication that     *)
(* could still store an envelope has one.                                  *)
(*                                                                         *)
(* Nor is GraphFollowsLedger: a request may be served when its driver is   *)
(* long replaced.  It carries a segment of a ledger that only grows and    *)
(* that begins no later than the log ended when it was made, so it only    *)
(* overlaps what is held; and an answer counts only for the claim it was   *)
(* made for, because every attempt is either past or does the work of the  *)
(* one claim there is.                                                     *)
(***************************************************************************)
EXTENDS PublicationQueue, ChannelObservation, Integers, TLAPS, FiniteSetTheorems,
        SequenceTheorems, WellFoundedInduction

(* The publication queue *)

Outside == {"new", "waiting", "refused"}
Unadmitted == {"queued", "admitting"}
UnderWay == Unadmitted \cup {"prepared", "unprepared"}

\* where each publication is listed, and what its stage says
Enrolled == \A p \in Pub :
  /\ stage[p] \notin Outside <=> p \in Range(order)
  /\ stage[p] \in UnderWay <=> p \in pending
  /\ stage[p] \in UnderWay \cup {"committed", "rejected"} <=> p \in completions
  /\ stage[p] = "failed" => faulted
  /\ stage[p] \in {"prepared", "committed", "completed", "failed"}
       => EnvelopeOf[p] \in Range(log)

\* the open receipts can be counted and fit
Fits == IsFiniteSet(pending) /\ Cardinality(pending) <= Capacity

\* admissions are serial
Serial == \A a, b \in DOMAIN order :
  a < b /\ stage[order[b]] # "queued" => stage[order[a]] \notin Unadmitted

\* what is stored was stored by an admission that has ended
Logged == \A i \in DOMAIN log : \E a \in DOMAIN order :
  Carries(a, log[i]) /\ stage[order[a]] \notin Unadmitted

\* envelopes are stored in the order in which their publications entered
Ordered == \A i, j \in DOMAIN log : i < j =>
  \E a, b \in DOMAIN order : a < b /\ Carries(a, log[i]) /\ Carries(b, log[j])

\* what an observation release knows while it waits and when it goes on
BarriersHold ==
  \A o \in Observer : observer[o].role = "observationBarrier" =>
    /\ sealed
    /\ observer[o].state = "resolved" => pending = {}

HorizonIsHead == horizon # NoHorizon => sealed /\ pending = {} /\ horizon = Len(log)

QInv == Enrolled /\ Fits /\ Serial /\ Logged /\ Ordered
IInv == TypeOK /\ QInv /\ BarriersHold /\ HorizonIsHead

-----------------------------------------------------------------------------
(* What the shared parts of the actions do *)

\* A free slot is typed and serves no request.
LEMMA FreeType == Free \in ObserverState /\ Free.role = "none" /\ Free.state = "free"
  BY DEF Free, ObserverState

\* Settling observers keeps their roles, and resolves an observation release only
\* when no receipt is open.
LEMMA Settling ==
  ASSUME TypeOK, NEW failed \in BOOLEAN, SettleObservers(failed), faulted' \in BOOLEAN
  PROVE  /\ observer' \in [Observer -> ObserverState]
         /\ \A o \in Observer :
              /\ observer'[o].role = observer[o].role
              /\ observer'[o].state = "resolved" =>
                   observer[o].state = "resolved" \/ pending' = {}
<1>1. SUFFICES ASSUME NEW o \in Observer
               PROVE  /\ observer'[o] \in ObserverState
                      /\ observer'[o].role = observer[o].role
                      /\ observer'[o].state = "resolved" =>
                           observer[o].state = "resolved" \/ pending' = {}
  BY DEF SettleObservers
<1> DEFINE s == observer[o]
           busy == pending' # {} \/ (s.role \in CompletionRole /\ completions' # {})
           bad == s.failed \/ failed \/ (s.role \in CompletionRole /\ faulted')
<1>2. s \in ObserverState
  BY DEF TypeOK
<1>3. CASE s.state # "open"
  BY <1>2, <1>3 DEF SettleObservers
<1>4. CASE s.state = "open"
  <2>1. /\ s = [role |-> s.role, state |-> s.state, failed |-> s.failed]
        /\ s.role \in CommitRole \cup CompletionRole /\ s.failed \in BOOLEAN
    BY <1>2, <1>4 DEF ObserverState, Free
  <2>2. CASE busy
    <3>1. observer'[o] = [s EXCEPT !.failed = @ \/ failed]
      BY <1>4, <2>2 DEF SettleObservers
    <3> QED BY <3>1, <2>1, <1>4 DEF ObserverState
  <2>3. CASE ~busy
    <3>1. observer'[o] = [s EXCEPT !.failed = @ \/ failed,
                                   !.state = IF bad THEN "rejected" ELSE "resolved"]
      BY <1>4, <2>3 DEF SettleObservers
    <3> QED BY <3>1, <2>1, <2>3 DEF ObserverState
  <2> QED BY <2>2, <2>3
<1> QED BY <1>3, <1>4

\* A new observer is typed; an observation release resolves at once only when no
\* receipt is open.
LEMMA Observing ==
  ASSUME TypeOK, NEW o \in Observer, NEW role \in CommitRole \cup CompletionRole,
         Observe(o, role)
  PROVE  /\ observer' \in [Observer -> ObserverState]
         /\ observer'[o].role = role
         /\ observer'[o].state = "resolved" => pending = {}
         /\ \A q \in Observer \ {o} : observer'[q] = observer[q]
<1> DEFINE busy == pending # {} \/ (role \in CompletionRole /\ completions # {})
           bad == role \in CompletionRole /\ faulted
           s == [role |-> role, failed |-> FALSE,
                 state |-> IF busy THEN "open" ELSE IF bad THEN "rejected" ELSE "resolved"]
<1>1. observer' = [observer EXCEPT ![o] = s]
  BY DEF Observe
<1>2. s \in ObserverState /\ s.role = role /\ s.state = "resolved" => pending = {}
  BY DEF ObserverState
<1> QED BY <1>1, <1>2 DEF TypeOK, ObserverState

\* Storing an envelope keeps the log a sequence of envelopes.
LEMMA StoredType ==
  ASSUME TypeOK, NEW e \in Envelope
  PROVE  Stored(e) \in Seq(Envelope)
  BY DEF TypeOK, Stored

\* A publication carries an envelope.
LEMMA EnvelopeType == \A p \in Pub : EnvelopeOf[p] \in Envelope
  BY PubAssumption

\* Publications without a receipt wait for one that is open: some entry of the
\* order is the first whose receipt is open.
LEMMA OldestType ==
  ASSUME TypeOK, Enrolled, Fits, Cardinality(pending) >= Capacity
  PROVE  Oldest(pending) \in Pub
<1> DEFINE open == {i \in DOMAIN order : order[i] \in pending}
           less == OpToRel(<, Nat)
<1>1. PICK p : p \in pending
  BY FS_EmptySet, CapacityAssumption DEF Fits
<1>2. \A q \in pending : \E i \in open : order[i] = q
  <2>1. SUFFICES ASSUME NEW q \in pending PROVE \E i \in open : order[i] = q
    OBVIOUS
  <2>2. q \in Pub /\ q \in Range(order)
    BY DEF TypeOK, Enrolled, UnderWay, Unadmitted, Outside
  <2> QED BY <2>2 DEF Range
<1>3. open \subseteq Nat /\ open # {}
  BY <1>1, <1>2 DEF TypeOK
<1>4. PICK i \in open : \A j \in open : ~(<<j, i>> \in less)
  <2> HIDE DEF open, less
  <2> QED BY <1>3, NatLessThanWellFounded, WFMin DEF less
<1>5. \A j \in open : ~(j < i)
  <2>1. SUFFICES ASSUME NEW j \in open, j < i PROVE FALSE
    OBVIOUS
  <2>2. <<j, i>> \in Nat \X Nat
    BY <1>3
  <2>3. <<j, i>> \in less
    BY <2>1, <2>2 DEF OpToRel
  <2> QED BY <2>3, <1>4
<1>6. \A q \in pending : q = order[i] \/ Before(order[i], q)
  BY <1>2, <1>3, <1>5 DEF Before
<1>7. order[i] \in pending
  OBVIOUS
<1>8. Oldest(pending) \in pending
  BY <1>6, <1>7 DEF Oldest
<1> QED BY <1>8 DEF TypeOK

\* What is listed in the order is a publication that entered.
LEMMA InOrder ==
  ASSUME TypeOK, Enrolled, NEW a \in DOMAIN order
  PROVE  order[a] \in Pub /\ stage[order[a]] \notin Outside /\ a \in Nat
<1>1. order[a] \in Pub /\ a \in Nat
  BY DEF TypeOK
<1>2. order[a] \in Range(order)
  BY DEF Range
<1> QED BY <1>1, <1>2 DEF Enrolled

-----------------------------------------------------------------------------
(* Steps of a publication *)

\* Giving a receipt back, or not, keeps the open ones countable.
LEMMA FitsShrinks ==
  ASSUME Fits, NEW p, pending' = pending \ {p}
  PROVE  Fits'
<1>1. IsFiniteSet(pending \ {p}) /\ Cardinality(pending \ {p}) <= Cardinality(pending)
  BY FS_Subset DEF Fits
<1>2. Cardinality(pending \ {p}) \in Nat /\ Cardinality(pending) \in Nat
  BY <1>1, FS_CardinalityType DEF Fits
<1> QED BY <1>1, <1>2, CapacityAssumption DEF Fits

\* A publication that waits or is refused changes nothing but its own stage.
LEMMA StaysOutside ==
  ASSUME TypeOK, QInv, NEW p \in Pub, stage[p] \in Outside,
         NEW s \in Outside, Goto(p, s),
         UNCHANGED <<order, pending, completions, faulted, log>>
  PROVE  QInv'
<1>1. \A q \in Pub : stage'[q] = IF q = p THEN s ELSE stage[q]
  BY DEF TypeOK, Goto
<1>2. Enrolled'
  BY <1>1 DEF QInv, Enrolled, UnderWay, Unadmitted, Outside
<1>3. \A a \in DOMAIN order : stage'[order[a]] = stage[order[a]]
  BY <1>1, InOrder DEF QInv
<1>4. Fits'
  BY DEF QInv, Fits
<1>5. Serial'
  BY <1>3 DEF QInv, Serial
<1>6. Logged' /\ Ordered'
  BY <1>3 DEF QInv, Logged, Ordered, Carries
<1> QED BY <1>2, <1>4, <1>5, <1>6 DEF QInv

\* A publication that enters is the last of the order and opens a receipt.
LEMMA Enters ==
  ASSUME TypeOK, QInv, NEW p \in Pub, stage[p] \in Outside,
         Cardinality(pending) < Capacity, Entered(p), UNCHANGED <<faulted, log>>
  PROVE  QInv'
<1> USE DEF QInv
<1>1. \A q \in Pub : stage'[q] = IF q = p THEN "queued" ELSE stage[q]
  BY DEF TypeOK, Entered
<1>2. /\ order' \in Seq(Pub) /\ DOMAIN order' = DOMAIN order \cup {Len(order) + 1}
      /\ order'[Len(order) + 1] = p /\ Len(order) \in Nat
      /\ \A a \in DOMAIN order : order'[a] = order[a] /\ a \in Nat /\ a < Len(order) + 1
  BY DEF TypeOK, Entered
<1>3. Range(order') = Range(order) \cup {p}
  BY <1>2 DEF Range
<1>4. \A a \in DOMAIN order : order[a] # p /\ stage'[order'[a]] = stage[order[a]]
  BY <1>1, <1>2, InOrder
<1>5. Enrolled'
  BY <1>1, <1>3 DEF Enrolled, Entered, UnderWay, Unadmitted, Outside
<1>6. Fits'
  <2>1. p \notin pending
    BY DEF Enrolled, UnderWay, Unadmitted, Outside
  <2>2. IsFiniteSet(pending \cup {p}) /\ Cardinality(pending \cup {p}) = Cardinality(pending) + 1
    BY <2>1, FS_AddElement DEF Fits
  <2>3. Cardinality(pending) \in Nat
    BY FS_CardinalityType DEF Fits
  <2> QED BY <2>2, <2>3, CapacityAssumption DEF Fits, Entered
<1>7. Serial'
  <2>1. SUFFICES ASSUME NEW a \in DOMAIN order', NEW b \in DOMAIN order',
                        a < b, stage'[order'[b]] # "queued"
                 PROVE  stage'[order'[a]] \notin Unadmitted
    BY DEF Serial
  <2>2. b \in DOMAIN order
    BY <2>1, <1>1, <1>2
  <2>3. a \in DOMAIN order
    BY <2>1, <2>2, <1>2
  <2> QED BY <2>1, <2>2, <2>3, <1>4 DEF Serial
<1>8. Logged'
  BY <1>2, <1>4 DEF Logged, Carries
<1>9. Ordered'
  BY <1>2 DEF Ordered, Carries
<1> QED BY <1>5, <1>6, <1>7, <1>8, <1>9

\* enqueue, first or again, waits, refuses or enters.
LEMMA EnqueueKeeps ==
  ASSUME TypeOK, QInv, NEW p \in Pub, stage[p] \in {"new", "waiting"}, Enqueue(p),
         UNCHANGED <<faulted, log>>
  PROVE  QInv' /\ stage' \in [Pub -> Stage] /\ waitsOn' \in [Pub -> Pub \cup {NoPub}]
         /\ order' \in Seq(Pub) /\ pending' \subseteq Pub /\ completions' \subseteq Pub
<1>1. CASE Cardinality(pending) >= Capacity /\ Waits(p, Oldest(pending))
  <2>1. QInv'
    BY <1>1, StaysOutside DEF Waits, Goto, Outside
  <2>2. Oldest(pending) \in Pub
    BY <1>1, OldestType DEF QInv
  <2> QED BY <2>1, <2>2, <1>1 DEF Waits, TypeOK, Stage
<1>2. CASE Cardinality(pending) < Capacity /\ sealed /\ Refused(p)
  <2>1. QInv'
    BY <1>2, StaysOutside DEF Refused, Goto, Outside
  <2> QED BY <2>1, <1>2 DEF Refused, TypeOK, Stage
<1>3. CASE Cardinality(pending) < Capacity /\ ~sealed /\ Entered(p)
  <2>1. QInv'
    BY <1>3, Enters DEF Outside
  <2> QED BY <2>1, <1>3 DEF Entered, TypeOK, Stage
<1> QED BY <1>1, <1>2, <1>3 DEF Enqueue

\* An admission begins when every publication that entered before has been admitted.
LEMMA AdmitKeeps ==
  ASSUME TypeOK, QInv, NEW p \in Pub, Admit(p)
  PROVE  QInv'
<1> USE DEF QInv
<1>1. /\ stage[p] = "queued"
      /\ \A q \in Pub : stage'[q] = IF q = p THEN "admitting" ELSE stage[q]
  BY DEF TypeOK, Admit, Goto
<1>2. UNCHANGED <<order, pending, completions, faulted, log>>
  BY DEF Admit
<1>3. Enrolled' /\ Fits'
  BY <1>1, <1>2 DEF Enrolled, Fits, UnderWay, Unadmitted, Outside
<1>4. Serial'
  <2>1. SUFFICES ASSUME NEW a \in DOMAIN order, NEW b \in DOMAIN order,
                        a < b, stage'[order[b]] # "queued"
                 PROVE  stage'[order[a]] \notin Unadmitted
    BY <1>2 DEF Serial
  <2>2. order[a] \in Pub /\ order[b] \in Pub
    BY InOrder
  <2>3. CASE order[b] = p
    <3>1. Before(order[a], p)
      BY <2>1, <2>3 DEF Before
    <3>2. stage[order[a]] \notin Unadmitted
      BY <3>1, <2>2 DEF Admit, Unadmitted
    <3> QED BY <3>2, <2>2, <1>1 DEF Unadmitted
  <2>4. CASE order[b] # p
    <3>1. stage[order[a]] \notin Unadmitted
      BY <2>1, <2>2, <2>4, <1>1 DEF Serial
    <3> QED BY <3>1, <2>2, <1>1 DEF Unadmitted
  <2> QED BY <2>3, <2>4
<1>5. Logged' /\ Ordered'
  <2>1. \A a \in DOMAIN order : stage[order[a]] \notin Unadmitted =>
          stage'[order[a]] \notin Unadmitted
    BY <1>1, InOrder DEF Unadmitted
  <2> QED BY <2>1, <1>2 DEF Logged, Ordered, Carries
<1> QED BY <1>3, <1>4, <1>5

\* Storing an envelope keeps the log typed and what it holds.
LEMMA StoredKeeps ==
  ASSUME TypeOK, NEW e \in Envelope, NEW t, t = Stored(e)
  PROVE  /\ t \in Seq(Envelope) /\ e \in Range(t) /\ Range(log) \subseteq Range(t)
         /\ DOMAIN log \subseteq DOMAIN t /\ \A i \in DOMAIN log : t[i] = log[i]
         /\ \A j \in DOMAIN t \ DOMAIN log : j = Len(log) + 1 /\ t[j] = e
<1>1. CASE e \in Range(log)
  BY <1>1 DEF Stored, TypeOK
<1>2. CASE e \notin Range(log)
  <2>1. t = Append(log, e) /\ log \in Seq(Envelope)
    BY <1>2 DEF Stored, TypeOK
  <2>2. /\ t \in Seq(Envelope) /\ DOMAIN t = DOMAIN log \cup {Len(log) + 1}
        /\ t[Len(log) + 1] = e /\ \A i \in DOMAIN log : t[i] = log[i]
    BY <2>1
  <2> QED BY <2>2 DEF Range
<1> QED BY <1>1, <1>2

\* The admission of p ends: it stored its envelope, or failed before or after.
LEMMA PrepareKeeps ==
  ASSUME TypeOK, QInv, NEW p \in Pub, stage[p] = "admitting",
         NEW s \in {"prepared", "unprepared"}, Goto(p, s),
         log' \in {log, Stored(EnvelopeOf[p])},
         s = "prepared" => log' = Stored(EnvelopeOf[p]),
         UNCHANGED <<order, pending, completions, faulted>>
  PROVE  QInv' /\ log' \in Seq(Envelope)
<1> USE DEF QInv
<1>1. \A q \in Pub : stage'[q] = IF q = p THEN s ELSE stage[q]
  BY DEF TypeOK, Goto
<1>2. EnvelopeOf[p] \in Envelope
  BY EnvelopeType
<1>3. /\ log' \in Seq(Envelope) /\ Range(log) \subseteq Range(log')
      /\ DOMAIN log \subseteq DOMAIN log' /\ \A i \in DOMAIN log : log'[i] = log[i]
      /\ \A j \in DOMAIN log' \ DOMAIN log : j = Len(log) + 1 /\ log'[j] = EnvelopeOf[p]
      /\ s = "prepared" => EnvelopeOf[p] \in Range(log')
  <2>1. CASE log' = log
    BY <2>1, <1>2, StoredKeeps DEF TypeOK
  <2>2. CASE log' = Stored(EnvelopeOf[p])
    BY <2>2, <1>2, StoredKeeps
  <2> QED BY <2>1, <2>2
<1>4. Enrolled' /\ Fits'
  BY <1>1, <1>3 DEF Enrolled, Fits, UnderWay, Unadmitted, Outside
<1>5. \A a \in DOMAIN order : stage[order[a]] \notin Unadmitted =>
        stage'[order[a]] \notin Unadmitted
  BY <1>1, InOrder DEF Unadmitted
<1>6. Serial'
  <2>1. SUFFICES ASSUME NEW a \in DOMAIN order, NEW b \in DOMAIN order,
                        a < b, stage'[order[b]] # "queued"
                 PROVE  stage'[order[a]] \notin Unadmitted
    BY DEF Serial
  <2>2. stage[order[b]] # "queued"
    BY <2>1, <1>1, InOrder
  <2> QED BY <2>1, <2>2, <1>5 DEF Serial
<1>7. PICK b \in DOMAIN order : order[b] = p /\ b \in Nat
  <2>1. p \in Range(order)
    BY DEF Enrolled, Outside
  <2> QED BY <2>1, InOrder DEF Range
<1>8. stage'[order[b]] \notin Unadmitted
  BY <1>1, <1>7 DEF Unadmitted
<1>9. Logged'
  BY <1>3, <1>5, <1>7, <1>8 DEF Logged, Carries
<1>10. Ordered'
  <2>1. SUFFICES ASSUME NEW i \in DOMAIN log', NEW j \in DOMAIN log', i < j
                 PROVE  \E c, d \in DOMAIN order :
                          c < d /\ Carries(c, log'[i]) /\ Carries(d, log'[j])
    BY DEF Ordered, Carries
  <2>2. CASE j \in DOMAIN log
    <3>1. i \in DOMAIN log
      BY <2>1, <2>2, <1>3 DEF TypeOK
    <3> QED BY <3>1, <2>1, <2>2, <1>3 DEF Ordered
  <2>3. CASE j \notin DOMAIN log
    <3>1. i \in DOMAIN log /\ log'[j] = EnvelopeOf[p]
      BY <2>1, <2>3, <1>3 DEF TypeOK
    <3>2. PICK c \in DOMAIN order : Carries(c, log[i]) /\ stage[order[c]] \notin Unadmitted
      BY <3>1 DEF Logged
    <3>3. c # b /\ ~(b < c) /\ c \in Nat
      BY <3>2, <1>7, InOrder DEF Serial, Unadmitted
    <3>4. c < b
      BY <3>3, <1>7
    <3> QED BY <3>1, <3>2, <3>4, <1>3, <1>7 DEF Carries
  <2> QED BY <2>2, <2>3
<1> QED BY <1>3, <1>4, <1>6, <1>9, <1>10

\* What follows an admission leaves the order and the log alone.
LEMMA AfterAdmission ==
  ASSUME TypeOK, QInv, NEW p \in Pub, stage[p] \notin Unadmitted \cup Outside,
         NEW s \in Settled, Goto(p, s), Enrolled', Fits', UNCHANGED <<order, log>>
  PROVE  QInv'
<1> USE DEF QInv
<1>1. \A q \in Pub : stage'[q] = IF q = p THEN s ELSE stage[q]
  BY DEF TypeOK, Goto
<1>2. \A a \in DOMAIN order :
        /\ stage'[order[a]] \in Unadmitted <=> stage[order[a]] \in Unadmitted
        /\ stage'[order[a]] = "queued" <=> stage[order[a]] = "queued"
  BY <1>1, InOrder DEF Unadmitted, Settled
<1>3. Serial'
  BY <1>2 DEF Serial
<1>4. Logged' /\ Ordered'
  BY <1>2 DEF Logged, Ordered, Carries
<1> QED BY <1>3, <1>4

\* A receipt settles.
LEMMA SettleReceiptKeeps ==
  ASSUME TypeOK, QInv, NEW p \in Pub, SettleReceipt(p)
  PROVE  QInv'
<1> DEFINE s == IF stage[p] = "prepared" THEN "committed" ELSE "rejected"
<1>1. /\ stage[p] \in {"prepared", "unprepared"} /\ Goto(p, s) /\ pending' = pending \ {p}
      /\ UNCHANGED <<order, completions, faulted, log>>
  BY DEF SettleReceipt
<1>2. \A q \in Pub : stage'[q] = IF q = p THEN s ELSE stage[q]
  BY <1>1 DEF TypeOK, Goto
<1>3. Enrolled'
  BY <1>1, <1>2 DEF QInv, Enrolled, UnderWay, Unadmitted, Outside
<1>4. Fits'
  BY <1>1, FitsShrinks DEF QInv
<1> QED BY <1>1, <1>3, <1>4, AfterAdmission DEF Settled, Unadmitted, Outside

\* A completion ends.
LEMMA EndKeeps ==
  ASSUME TypeOK, QInv, NEW p \in Pub, stage[p] \in {"committed", "rejected"},
         NEW s \in {"completed", "failed", "dropped"}, Goto(p, s),
         stage[p] = "rejected" => s = "dropped", s = "failed" => faulted',
         faulted => faulted', completions' = completions \ {p},
         UNCHANGED <<order, pending, log>>
  PROVE  QInv'
<1>1. \A q \in Pub : stage'[q] = IF q = p THEN s ELSE stage[q]
  BY DEF TypeOK, Goto
<1>2. Enrolled'
  BY <1>1 DEF QInv, Enrolled, UnderWay, Unadmitted, Outside
<1>3. Fits'
  BY DEF QInv, Fits
<1> QED BY <1>2, <1>3, AfterAdmission DEF Settled, Unadmitted, Outside

-----------------------------------------------------------------------------
(* What an observation release relies on *)

\* A queue step keeps a captured head: it appends only with a receipt open, and
\* opens a receipt only when the queue is not sealed.
LEMMA QueueStepKeeps ==
  ASSUME IInv, UNCHANGED <<sealed, horizon>>,
         log' # log => pending # {},
         pending' # {} => pending # {} \/ ~sealed,
         \A o \in Observer :
           /\ observer'[o].role = observer[o].role
           /\ observer'[o].state = "resolved" =>
                observer[o].state = "resolved" \/ pending' = {}
  PROVE  BarriersHold' /\ HorizonIsHead'
<1>1. BarriersHold'
  BY DEF IInv, BarriersHold
<1>2. HorizonIsHead'
  BY DEF IInv, HorizonIsHead
<1> QED BY <1>1, <1>2

\* Every step of a publication keeps the invariant.
LEMMA PublicationKeeps ==
  ASSUME IInv, NEW p \in Pub, Publish(p) \/ Progress(p) \/ Finish(p)
  PROVE  IInv'
<1> USE DEF IInv
<1>1. ASSUME stage[p] \in {"new", "waiting"}, Enqueue(p),
             UNCHANGED <<faulted, sealed, aborted, log, observer, horizon>>
      PROVE  IInv'
  <2>1. QInv' /\ TypeOK'
    BY <1>1, EnqueueKeeps DEF TypeOK
  <2>2. pending' # {} => pending # {} \/ ~sealed
    BY <1>1 DEF Enqueue, Waits, Refused
  <2>3. BarriersHold' /\ HorizonIsHead'
    BY <1>1, <2>2, QueueStepKeeps
  <2> QED BY <2>1, <2>3
<1>2. CASE Publish(p)
  BY <1>1, <1>2 DEF Publish
<1>3. CASE Awake(p)
  BY <1>1, <1>3 DEF Awake
<1>4. CASE Admit(p)
  <2>1. QInv'
    BY <1>4, AdmitKeeps
  <2>2. TypeOK'
    BY <1>4 DEF Admit, Goto, TypeOK, Stage
  <2>3. BarriersHold' /\ HorizonIsHead'
    BY <1>4, QueueStepKeeps DEF Admit
  <2> QED BY <2>1, <2>2, <2>3
<1>5. ASSUME stage[p] = "admitting", NEW s \in {"prepared", "unprepared"}, Goto(p, s),
             log' \in {log, Stored(EnvelopeOf[p])},
             s = "prepared" => log' = Stored(EnvelopeOf[p]),
             UNCHANGED <<waitsOn, order, pending, completions, faulted, sealed, aborted,
                         observer, horizon>>
      PROVE  IInv'
  <2>1. QInv' /\ log' \in Seq(Envelope)
    BY <1>5, PrepareKeeps
  <2>2. TypeOK'
    BY <1>5, <2>1 DEF Goto, TypeOK, Stage
  <2>3. pending # {}
    BY <1>5 DEF QInv, Enrolled, UnderWay, Unadmitted
  <2>4. BarriersHold' /\ HorizonIsHead'
    BY <1>5, <2>3, QueueStepKeeps
  <2> QED BY <2>1, <2>2, <2>4
<1>6. CASE Prepare(p)
  BY <1>5, <1>6 DEF Prepare
<1>7. CASE PrepareFails(p)
  BY <1>5, <1>7 DEF PrepareFails
<1>8. CASE SettleReceipt(p)
  <2>1. QInv'
    BY <1>8, SettleReceiptKeeps
  <2>2. /\ observer' \in [Observer -> ObserverState]
        /\ \A o \in Observer :
             /\ observer'[o].role = observer[o].role
             /\ observer'[o].state = "resolved" =>
                  observer[o].state = "resolved" \/ pending' = {}
    BY <1>8, Settling DEF SettleReceipt, TypeOK
  <2>3. TypeOK'
    BY <1>8, <2>2 DEF SettleReceipt, Goto, TypeOK, Stage, Settled
  <2>4. BarriersHold' /\ HorizonIsHead'
    BY <1>8, <2>2, QueueStepKeeps DEF SettleReceipt
  <2> QED BY <2>1, <2>3, <2>4
<1>9. ASSUME NEW s \in {"completed", "failed", "dropped"}, NEW failed \in BOOLEAN,
             stage[p] \in {"committed", "rejected"}, Goto(p, s),
             stage[p] = "rejected" => s = "dropped", s = "failed" => faulted',
             faulted => faulted', faulted' \in BOOLEAN, completions' = completions \ {p},
             UNCHANGED <<waitsOn, order, pending, sealed, aborted, log, horizon>>,
             SettleObservers(failed)
      PROVE  IInv'
  <2>1. QInv'
    BY <1>9, EndKeeps
  <2>2. /\ observer' \in [Observer -> ObserverState]
        /\ \A o \in Observer :
             /\ observer'[o].role = observer[o].role
             /\ observer'[o].state = "resolved" =>
                  observer[o].state = "resolved" \/ pending' = {}
    BY <1>9, Settling
  <2>3. TypeOK'
    BY <1>9, <2>2 DEF Goto, TypeOK, Stage, Settled
  <2>4. BarriersHold' /\ HorizonIsHead'
    BY <1>9, <2>2, QueueStepKeeps
  <2> QED BY <2>1, <2>3, <2>4
<1>10. faulted \in BOOLEAN
  BY DEF TypeOK
<1>11. CASE Drop(p)
  BY <1>9, <1>10, <1>11 DEF Drop
<1>12. CASE Complete(p)
  BY <1>9, <1>10, <1>12 DEF Complete, Answered
<1>13. CASE CompleteFails(p)
  BY <1>9, <1>13 DEF CompleteFails, Answered
<1> QED BY <1>2, <1>3, <1>4, <1>6, <1>7, <1>8, <1>11, <1>12, <1>13 DEF Progress, Finish

\* What the queue keeps only depends on the queue and the log.
LEMMA QueueUntouched ==
  ASSUME QInv, UNCHANGED <<queue, log>>
  PROVE  QInv'
  BY DEF QInv, Enrolled, Fits, Serial, Logged, Ordered, Carries, queue

\* Every step of a host request keeps the invariant.
LEMMA RequestKeeps ==
  ASSUME IInv, NEW o \in Observer,
         \/ DeliveryRelease(o) \/ PrepareObservation(o) \/ Release(o)
         \/ AbortObserver(o) \/ Return(o)
  PROVE  IInv'
<1> USE DEF IInv
<1>1. UNCHANGED <<queue, log>>
  BY DEF DeliveryRelease, PrepareObservation, Release, AbortObserver, Return
<1>2. QInv'
  BY <1>1, QueueUntouched
<1>3. ASSUME NEW role \in CommitRole \cup CompletionRole, Observe(o, role),
             sealed' \in BOOLEAN, aborted' \in BOOLEAN, sealed => sealed',
             role = "observationBarrier" => sealed', UNCHANGED horizon
      PROVE  IInv'
  <2>1. /\ observer' \in [Observer -> ObserverState]
        /\ observer'[o].role = role
        /\ observer'[o].state = "resolved" => pending = {}
        /\ \A q \in Observer \ {o} : observer'[q] = observer[q]
    BY <1>3, Observing
  <2>2. TypeOK'
    BY <1>1, <1>3, <2>1 DEF TypeOK, queue
  <2>3. BarriersHold'
    BY <1>1, <1>3, <2>1 DEF BarriersHold, queue
  <2>4. HorizonIsHead'
    BY <1>1, <1>3 DEF HorizonIsHead, queue
  <2> QED BY <1>2, <2>2, <2>3, <2>4
<1>4. CASE DeliveryRelease(o)
  <2>1. Observe(o, "deliveryBarrier") \/ Observe(o, "deliveryJoin")
    BY <1>4 DEF DeliveryRelease
  <2>2. UNCHANGED <<sealed, aborted, horizon>> /\ sealed \in BOOLEAN /\ aborted \in BOOLEAN
    BY <1>4 DEF DeliveryRelease, TypeOK
  <2> QED BY <1>3, <2>1, <2>2 DEF CommitRole, CompletionRole
<1>5. CASE PrepareObservation(o)
  BY <1>3, <1>5 DEF PrepareObservation, CommitRole, TypeOK
<1>6. CASE Release(o)
  BY <1>3, <1>6 DEF Release, CompletionRole, TypeOK
<1>7. ASSUME observer' = [observer EXCEPT ![o] = Free], UNCHANGED <<sealed, aborted>>
      PROVE  BarriersHold' /\ observer' \in [Observer -> ObserverState]
  BY <1>1, <1>7, FreeType DEF BarriersHold, TypeOK, queue
<1>8. CASE AbortObserver(o)
  <2>1. TypeOK'
    BY <1>1, <1>7, <1>8 DEF AbortObserver, TypeOK, queue
  <2>2. HorizonIsHead'
    BY <1>1, <1>8 DEF AbortObserver, HorizonIsHead, queue
  <2> QED BY <1>2, <1>7, <1>8, <2>1, <2>2 DEF AbortObserver
<1>9. CASE Return(o)
  <2>1. Len(log) \in Nat
    BY DEF TypeOK
  <2>2. TypeOK'
    BY <1>1, <1>7, <1>9, <2>1 DEF Return, TypeOK, queue
  <2>3. HorizonIsHead'
    BY <1>1, <1>9 DEF Return, HorizonIsHead, BarriersHold, queue
  <2> QED BY <1>2, <1>7, <1>9, <2>2, <2>3 DEF Return
<1> QED BY <1>4, <1>5, <1>6, <1>8, <1>9

\* A cancelled preparation leaves no observer and no captured head.
LEMMA CancelKeeps == IInv /\ Cancel => IInv'
<1> SUFFICES ASSUME IInv, Cancel PROVE IInv'
  OBVIOUS
<1> USE DEF IInv
<1>1. QInv'
  BY QueueUntouched DEF Cancel
<1>2. TypeOK'
  BY DEF Cancel, TypeOK, queue
<1>3. BarriersHold' /\ HorizonIsHead'
  BY FreeType DEF Cancel, BarriersHold, HorizonIsHead
<1> QED BY <1>1, <1>2, <1>3

-----------------------------------------------------------------------------
(* Theorems *)

\* The queue starts empty, open and unobserved.
LEMMA InitKeeps == Init => IInv
<1> SUFFICES ASSUME Init PROVE IInv
  OBVIOUS
<1>1. TypeOK
  <2>1. stage \in [Pub -> Stage] /\ waitsOn \in [Pub -> Pub \cup {NoPub}]
    BY DEF Init, Stage
  <2>2. order \in Seq(Pub) /\ log \in Seq(Envelope)
    BY DEF Init
  <2>3. observer \in [Observer -> ObserverState]
    BY FreeType DEF Init
  <2>4. pending \subseteq Pub /\ completions \subseteq Pub
    BY DEF Init
  <2> QED BY <2>1, <2>2, <2>3, <2>4 DEF Init, TypeOK
<1>2. Enrolled
  BY DEF Init, Enrolled, UnderWay, Unadmitted, Outside, Range
<1>3. Fits
  BY FS_EmptySet, CapacityAssumption DEF Init, Fits
<1>4. Serial /\ Logged /\ Ordered
  BY DEF Init, Serial, Logged, Ordered
<1>5. BarriersHold /\ HorizonIsHead
  BY FreeType DEF Init, BarriersHold, HorizonIsHead
<1> QED BY <1>1, <1>2, <1>3, <1>4, <1>5 DEF IInv, QInv

\* Every step keeps the invariant.
LEMMA StepKeeps == IInv /\ [Next]_vars => IInv'
<1> SUFFICES ASSUME IInv, [Next]_vars PROVE IInv'
  OBVIOUS
<1>1. CASE UNCHANGED vars
  BY <1>1, QueueUntouched
     DEF vars, queue, IInv, TypeOK, BarriersHold, HorizonIsHead
<1>2. CASE Next
  BY <1>2, PublicationKeeps, RequestKeeps, CancelKeeps DEF Next
<1> QED BY <1>1, <1>2

\* The invariant holds throughout, for every set of publications and observers.
THEOREM Invariance == Spec => []IInv
  BY InitKeeps, StepKeeps, PTL DEF Spec

\* Every variable of the queue keeps its type.
THEOREM TypeCorrect == Spec => []TypeOK
<1>1. IInv => TypeOK
  BY DEF IInv
<1> QED BY <1>1, Invariance, PTL

\* No more than Capacity receipts are open, whatever the capacity is and however
\* many publications wake for the same receipt.
THEOREM Backlog == Spec => []BacklogBounded
<1>1. IInv => BacklogBounded
  BY DEF IInv, QInv, Fits, BacklogBounded
<1> QED BY <1>1, Invariance, PTL

\* Fulfilled receipts are stored, and envelopes are stored in the order in which
\* their publications entered.
THEOREM Storage == Spec => []StoredInOrder
<1>1. IInv => StoredInOrder
  BY DEF IInv, QInv, Enrolled, Ordered, StoredInOrder
<1> QED BY <1>1, Invariance, PTL

\* The head an observation release captured stays the head until it is cancelled.
THEOREM Horizon == Spec => []HorizonHolds
<1>1. IInv => HorizonHolds
  BY DEF IInv, HorizonIsHead, HorizonHolds
<1> QED BY <1>1, Invariance, PTL

-----------------------------------------------------------------------------
(* Drains *)

Drained(o) ==
  /\ observer[o].state # "resolved" /\ observer'[o].state = "resolved"
  /\ observer'[o].role \in CompletionRole

\* A drain that already waits resolves when nothing is left and nothing failed.
LEMMA SettledDrain ==
  ASSUME TypeOK, NEW failed \in BOOLEAN, SettleObservers(failed),
         NEW o \in Observer, Drained(o)
  PROVE  completions' = {} /\ ~faulted'
<1> DEFINE s == observer[o]
           busy == pending' # {} \/ (s.role \in CompletionRole /\ completions' # {})
           bad == s.failed \/ failed \/ (s.role \in CompletionRole /\ faulted')
<1>1. s \in ObserverState
  BY DEF TypeOK
<1>2. s.state = "open"
  BY <1>1 DEF SettleObservers, Drained
<1>3. s = [role |-> s.role, state |-> s.state, failed |-> s.failed]
  BY <1>1, <1>2 DEF ObserverState, Free
<1>4. ~busy
  BY <1>2, <1>3 DEF SettleObservers, Drained
<1>5. observer'[o] = [s EXCEPT !.failed = @ \/ failed,
                               !.state = IF bad THEN "rejected" ELSE "resolved"]
  BY <1>2, <1>4 DEF SettleObservers
<1>6. ~bad /\ s.role \in CompletionRole
  BY <1>3, <1>5 DEF Drained
<1> QED BY <1>4, <1>6

\* A drain that finds nothing to wait for resolves at once if nothing failed.
LEMMA ObservedDrain ==
  ASSUME TypeOK, NEW o \in Observer, NEW role \in CommitRole \cup CompletionRole,
         Observe(o, role), NEW q \in Observer, Drained(q)
  PROVE  completions = {} /\ ~faulted
<1> DEFINE busy == pending # {} \/ (role \in CompletionRole /\ completions # {})
           bad == role \in CompletionRole /\ faulted
           s == [role |-> role, failed |-> FALSE,
                 state |-> IF busy THEN "open" ELSE IF bad THEN "rejected" ELSE "resolved"]
<1>1. observer' = [observer EXCEPT ![o] = s]
  BY DEF Observe
<1>2. q = o /\ observer'[o] = s
  BY <1>1 DEF TypeOK, Drained
<1>3. s.state = "resolved" /\ s.role \in CompletionRole
  BY <1>2 DEF Drained
<1> QED BY <1>3

\* When a drain resolves, no completion is left and none has failed.
LEMMA DrainedMeans ==
  ASSUME TypeOK, [Next]_vars, NEW o \in Observer, Drained(o)
  PROVE  completions' = {} /\ ~faulted'
<1>1. ASSUME NEW p \in Pub, Publish(p) \/ Progress(p) \/ Finish(p) PROVE completions' = {} /\ ~faulted'
  <2>1. UNCHANGED observer \/ \E failed \in BOOLEAN : SettleObservers(failed)
    BY <1>1 DEF Publish, Progress, Finish, Awake, Admit, Prepare, PrepareFails,
                SettleReceipt, Drop, Complete, CompleteFails
  <2> QED BY <2>1, SettledDrain DEF Drained
<1>2. ASSUME NEW q \in Observer,
             \/ DeliveryRelease(q) \/ PrepareObservation(q) \/ Release(q)
             \/ AbortObserver(q) \/ Return(q)
      PROVE  completions' = {} /\ ~faulted'
  <2>1. UNCHANGED <<completions, faulted>>
    BY <1>2 DEF DeliveryRelease, PrepareObservation, Release, AbortObserver, Return, queue
  <2>2. \/ \E role \in CommitRole \cup CompletionRole : Observe(q, role)
        \/ observer' = [observer EXCEPT ![q] = Free]
    BY <1>2 DEF DeliveryRelease, PrepareObservation, Release, AbortObserver, Return,
                CommitRole, CompletionRole
  <2>3. observer' # [observer EXCEPT ![q] = Free]
    BY FreeType DEF Drained, TypeOK
  <2> QED BY <2>1, <2>2, <2>3, ObservedDrain
<1>3. UNCHANGED observer => FALSE
  BY DEF Drained
<1>4. CASE UNCHANGED vars
  BY <1>3, <1>4 DEF vars
<1>5. CASE Next
  BY <1>1, <1>2, <1>3, <1>5 DEF Next, Cancel
<1> QED BY <1>4, <1>5

\* A drain that resolves vouches for every publication, whenever it began to wait.
THEOREM Drains == Spec => DrainVouches
<1>1. IInv /\ IInv' /\ [Next]_vars =>
        [\A o \in Observer :
           /\ observer[o].state # "resolved" /\ observer'[o].state = "resolved"
           /\ observer'[o].role \in CompletionRole
           => \A p \in Pub :
                stage'[p] \in {"new", "waiting", "refused", "completed", "dropped"}]_vars
  <2>1. SUFFICES ASSUME IInv, IInv', [Next]_vars, NEW o \in Observer, Drained(o),
                        NEW p \in Pub
                 PROVE  stage'[p] \in {"new", "waiting", "refused", "completed", "dropped"}
    BY DEF Drained
  <2>2. completions' = {} /\ ~faulted'
    BY <2>1, DrainedMeans DEF IInv
  <2>3. stage'[p] \in Stage
    BY <2>1 DEF IInv, TypeOK
  <2>4. stage'[p] \notin UnderWay \cup {"committed", "rejected", "failed"}
    BY <2>1, <2>2 DEF IInv, QInv, Enrolled
  <2> QED BY <2>3, <2>4 DEF Stage, Settled, UnderWay, Unadmitted
<1> QED BY <1>1, Invariance, PTL DEF Spec, DrainVouches

-----------------------------------------------------------------------------
(* The observation: what a state tells apart *)

Exists(ch) == ledger[ch] # Unborn
\* the ledger of a channel, as far as it is told apart: its own events are numbered
\* as they are issued, and those of a fork begin with its parent's
Increasing(s) == \A i, j \in DOMAIN s : i < j => s[i] < s[j]
LedgerOK(l, last) ==
  /\ Increasing(l.events) /\ (\A i \in DOMAIN l.events : l.events[i] <= last)
  /\ l.observed <= Len(l.events) /\ (l.parentObserved \/ l.observed = 0)
  /\ l.parent = NoParent => l.forkSeq = 0 /\ l.parentObserved
  /\ l.parent # NoParent /\ l.parentObserved => l.rootObserved
\* a fork begins with what its parent had
LineageOK(l) ==
  l.parent # NoParent =>
    /\ Exists(l.parent)
    /\ l.forkSeq <= Len(l.events) /\ l.forkSeq <= Len(ledger[l.parent].events)
    /\ Prefix(ledger[l.parent].events, l.forkSeq) = Prefix(l.events, l.forkSeq)
LedgersOK == \A ch \in Channel : Exists(ch) => LedgerOK(ledger[ch], issued) /\ LineageOK(ledger[ch])

Due(r, l) ==
  \/ r.kind = "fork" /\ ~l.parentObserved /\ r.first = 0 /\ r.through = l.forkSeq
  \/ r.kind = "root" /\ l.parentObserved /\ ~l.rootObserved /\ r.first = 0 /\ r.through = 0
  \/ /\ r.kind = "append" /\ l.parentObserved /\ (l.rootObserved \/ l.events # <<>>)
     /\ r.first = l.observed + 1 /\ r.first <= r.through /\ r.through <= Len(l.events)
RowsOK == \A ch \in Channel : row[ch] # NoRow => Exists(ch) /\ Due(row[ch], ledger[ch])

Past(a, l) ==
  \/ a.kind = "fork" /\ l.parentObserved
  \/ a.kind = "root" /\ l.rootObserved
  \/ a.kind = "append" /\ a.first <= l.observed
SameWork(a, r) == a.kind = r.kind /\ a.first = r.first /\ a.through = r.through
AttemptOK(a, ch) ==
  a.phase # "idle" =>
    /\ Exists(ch)
    /\ a.kind = "fork" => ledger[ch].parent # NoParent
    /\ Past(a, ledger[ch]) \/ (row[ch] # NoRow /\ SameWork(a, row[ch]))
AttemptsOK == \A w \in Worker, ch \in Channel : AttemptOK(attempt[w][ch], ch)

RequestOK(q, ch) ==
  LET l == ledger[ch] IN
  /\ Exists(ch) /\ q.parent = l.parent
  /\ q.through <= Len(l.events) /\ q.prefix = Prefix(l.events, q.through)
  /\ q.kind = "root" => l.parent = NoParent /\ q.through = 0
  /\ q.kind = "fork" => l.parent # NoParent /\ q.through = l.forkSeq
  /\ q.kind = "append" =>
       /\ l.parent # NoParent => graph[ch] # Absent
       /\ \E first \in 1 .. q.through :
            /\ q.batch = SubSeq(l.events, first, q.through)
            /\ first <= Len(EventsOf(graph, ch)) + 1
RequestsOK == \A w \in Worker, ch \in Channel :
  LET q == request[w][ch] IN
  q # NoRequest =>
    /\ RequestOK(q, ch)
    /\ attempt[w][ch].phase = "asked" => q.through = attempt[w][ch].through /\ q.kind = attempt[w][ch].kind

ObservedHeld == \A ch \in Channel : Exists(ch) =>
  /\ ledger[ch].observed <= Len(EventsOf(graph, ch))
  /\ ledger[ch].rootObserved => graph[ch] # Absent
ForksWhole == \A ch \in Channel : graph[ch] # Absent => graph[ch].forkSeq <= Len(graph[ch].events)
AnswersHeld == \A w \in Worker, ch \in Channel :
  attempt[w][ch].phase = "answered" => Holds(ch, attempt[w][ch].through)

ObservationInv == LedgersOK /\ RowsOK /\ AttemptsOK /\ RequestsOK /\ ObservedHeld /\ AnswersHeld
  /\ ForksWhole /\ GraphFollowsLedger /\ WaitVouches

-----------------------------------------------------------------------------
(* A batch that overlaps the log *)

\* A segment with one more element.
LEMMA SegmentGrows ==
  ASSUME NEW S, NEW b \in Seq(S), NEW k \in 0 .. Len(b), NEW i \in k + 1 .. Len(b)
  PROVE  SubSeq(b, k + 1, i) = Append(SubSeq(b, k + 1, i - 1), b[i])
<1>1. k + 1 \in 1 .. Len(b) /\ i \in Nat
  OBVIOUS
<1>2. SubSeq(b, k + 1, i) = SubSeq(b, k + 1, i - 1) \o << b[i] >>
  BY <1>1, SubSeqRecursiveSecond
<1>3. SubSeq(b, k + 1, i - 1) \in Seq(S) /\ b[i] \in S
  OBVIOUS
<1> QED
  BY <1>2, <1>3

\* A segment that ends before it begins is empty.
LEMMA SegmentEmpty ==
  ASSUME NEW S, NEW b \in Seq(S), NEW k \in Nat, NEW i \in 0 .. k
  PROVE  SubSeq(b, k + 1, i) = <<>>
  OBVIOUS

\* When nothing after the replay is stored already, all of it remains: the recursion of
\* Remaining is a segment, since two functions with its recurrence cannot differ first.
LEMMA RemainingFact ==
  ASSUME NEW S, NEW held \in Seq(S), NEW b \in Seq(S), NEW k \in 0 .. Len(b), k = Replayed(held, b),
         \A i \in k + 1 .. Len(b) : b[i] \notin Range(held)
  PROVE  Remaining(held, b) = SubSeq(b, k + 1, Len(b))
<1> DEFINE n == Len(b)
           IsKept(f) == f = [i \in 0 .. n |-> IF i <= k THEN <<>>
                ELSE IF b[i] \in Range(held) THEN f[i - 1] ELSE Append(f[i - 1], b[i])]
           g == [i \in 0 .. n |-> SubSeq(b, k + 1, i)]
<1>0. n \in Nat /\ k \in 0 .. n
  OBVIOUS
<1>3. IsKept(g)
  <2>1. ASSUME NEW i \in 0 .. n
        PROVE  g[i] = IF i <= k THEN <<>> ELSE IF b[i] \in Range(held) THEN g[i - 1] ELSE Append(g[i - 1], b[i])
    <3>1. CASE i <= k
      <4>1. SubSeq(b, k + 1, i) = <<>>
        BY <3>1, SegmentEmpty
      <4> QED
        BY <4>1, <3>1
    <3>2. CASE i > k
      <4>1. i \in k + 1 .. n /\ i - 1 \in 0 .. n
        BY <1>0, <3>2
      <4>2. g[i - 1] = SubSeq(b, k + 1, i - 1)
        BY <4>1
      <4>3. g[i] = Append(g[i - 1], b[i])
        BY SegmentGrows, <4>1, <4>2
      <4> HIDE DEF g
      <4> QED
        BY <1>0, <4>1, <4>3, <3>2
    <3> HIDE DEF g, n
    <3>3. i \in Nat /\ k \in Nat
      BY <1>0
    <3> QED
      BY <3>1, <3>2, <3>3
  <2> HIDE DEF n
  <2> QED
    BY <2>1
<1> DEFINE h == CHOOSE f : IsKept(f)
<1>4. IsKept(h)
  <2> HIDE DEF g, IsKept
  <2> QED
    BY <1>3
<1>5. Remaining(held, b) = h[n]
  BY DEF Remaining
<1>6. ASSUME NEW i \in 0 .. n
      PROVE  h[i] = IF i <= k THEN <<>> ELSE IF b[i] \in Range(held) THEN h[i - 1] ELSE Append(h[i - 1], b[i])
  <2> HIDE DEF h, n
  <2> QED
    BY <1>4
<1>7. h[n] = SubSeq(b, k + 1, n)
  <2> HIDE DEF h
  <2> DEFINE Wrong == {i \in 0 .. n : h[i] # SubSeq(b, k + 1, i)}
  <2>1. SUFFICES ASSUME Wrong # {} PROVE FALSE
    <3>1. n \in 0 .. n
      BY <1>0
    <3> HIDE DEF n
    <3> QED
      BY <3>1
  <2>2. PICK i \in Wrong : \A j \in Wrong : j >= i
    <3> DEFINE less == OpToRel(<, Nat)
    <3>1. Wrong \subseteq Nat
      BY <1>0
    <3>2. PICK i \in Wrong : \A j \in Wrong : ~(<<j, i>> \in less)
      <4> HIDE DEF Wrong, less
      <4> QED
        BY <2>1, <3>1, WFMin, NatLessThanWellFounded DEF less
    <3>3. \A j \in Wrong : ~(j < i)
      BY <3>1, <3>2 DEF OpToRel
    <3> HIDE DEF Wrong
    <3> QED
      BY <3>1, <3>3
  <2>3. i \in 0 .. n /\ i \in Nat
    BY <1>0
  <2>4. CASE i <= k
    <3>1. SubSeq(b, k + 1, i) = <<>>
      BY <2>3, <2>4, SegmentEmpty
    <3> QED
      BY <3>1, <1>6, <2>3, <2>4
  <2>5. CASE i > k
    <3>1. i \in k + 1 .. n /\ i - 1 \in 0 .. n /\ i - 1 < i
      BY <1>0, <2>3, <2>5
    <3>2. i - 1 \notin Wrong
      BY <2>2, <3>1, <1>0
    <3>3. h[i - 1] = SubSeq(b, k + 1, i - 1)
      BY <3>2, <3>1
    <3>4. h[i] = Append(SubSeq(b, k + 1, i - 1), b[i])
      <4>1. b[i] \notin Range(held) /\ ~(i <= k)
        BY <3>1, <2>3, <2>5, <1>0
      <4> HIDE DEF n
      <4> QED
        BY <1>6, <2>3, <3>3, <4>1
    <3> QED
      BY <3>4, <3>1, SegmentGrows
  <2> QED
    BY <2>3, <2>4, <2>5, <1>0
<1> QED
  BY <1>5, <1>7
\* the log holds the first m of l, and a batch of l follows it or overlaps it
Overlaps(b, held, l, m, first, through) ==
  /\ b = SubSeq(l, first, through) /\ held = Prefix(l, m)
  /\ l \in Seq(Nat) /\ Increasing(l)
  /\ m \in 0 .. Len(l) /\ first \in 1 .. m + 1 /\ through \in first .. Len(l)

\* A prefix of a sequence has its first elements.
LEMMA PrefixFact ==
  ASSUME NEW S, NEW l \in Seq(S), NEW m \in 0 .. Len(l)
  PROVE  /\ Prefix(l, m) \in Seq(S) /\ Len(Prefix(l, m)) = m
         /\ DOMAIN Prefix(l, m) = 1 .. m
         /\ \A i \in 1 .. m : Prefix(l, m)[i] = l[i]
  BY DEF Prefix

\* The elements of a batch are those of the ledger, and the log holds those up to its
\* length: the events of a ledger increase, so none occurs twice.
LEMMA BatchFact ==
  ASSUME NEW l, NEW m, NEW first, NEW through, NEW b, NEW held,
         Overlaps(b, held, l, m, first, through)
  PROVE  /\ b \in Seq(Nat) /\ Len(b) = through - first + 1 /\ Len(b) \in Nat
         /\ \A i \in 1 .. Len(b) : b[i] = l[first + i - 1]
         /\ \A i \in 1 .. Len(b) : b[i] \in Range(held) <=> first + i - 1 <= m
         /\ held \in Seq(Nat) /\ Len(held) = m
<1>1. l \in Seq(Nat) /\ m \in Nat /\ first \in Nat \ {0} /\ through \in Nat /\ first <= through
      /\ through <= Len(l) /\ m <= Len(l) /\ first <= m + 1 /\ Len(l) \in Nat
  BY DEF Overlaps
<1>0. b = SubSeq(l, first, through) /\ held = Prefix(l, m)
  BY DEF Overlaps
<1>2. b \in Seq(Nat) /\ Len(b) = through - first + 1 /\ \A i \in 1 .. Len(b) : b[i] = l[first + i - 1]
  BY <1>0, <1>1
<1>3. held \in Seq(Nat) /\ Len(held) = m /\ DOMAIN held = 1 .. m /\ \A i \in 1 .. m : held[i] = l[i]
  <2>1. m \in 0 .. Len(l)
    BY DEF Overlaps
  <2> QED
    BY <1>0, <1>1, <2>1, PrefixFact
<1>4. ASSUME NEW i \in 1 .. Len(b)
      PROVE  b[i] \in Range(held) <=> first + i - 1 <= m
  <2>1. first + i - 1 \in DOMAIN l /\ first + i - 1 \in Nat \ {0}
    <3>1. DOMAIN l = 1 .. Len(l)
      BY <1>1
    <3>2. i \in Nat \ {0} /\ i <= through - first + 1
      BY <1>1, <1>2
    <3> QED
      BY <1>1, <3>1, <3>2
  <2>2. \A j \in 1 .. m : j \in DOMAIN l
    BY <1>1
  <2>3. \A j \in 1 .. m : first + i - 1 > m => l[j] < l[first + i - 1]
    BY <2>1, <2>2, <1>1 DEF Overlaps, Increasing
  <2>4. CASE first + i - 1 <= m
    <3>1. first + i - 1 \in 1 .. m
      BY <2>1, <2>4, <1>1
    <3> QED
      BY <3>1, <1>2, <1>3, <2>4 DEF Range
  <2>5. CASE first + i - 1 > m
    <3>1. \A j \in 1 .. m : held[j] # b[i]
      <4>1. TAKE j \in 1 .. m
      <4>2. l[j] < l[first + i - 1] /\ l[j] \in Nat /\ l[first + i - 1] \in Nat
        BY <1>1, <2>1, <2>2, <2>3, <2>5
      <4> QED
        BY <4>2, <1>2, <1>3
    <3>2. ~(first + i - 1 <= m)
      BY <1>1, <2>1, <2>5
    <3> QED
      BY <3>1, <3>2, <1>3 DEF Range
  <2> QED
    BY <1>1, <2>1, <2>4, <2>5
<1> QED
  BY <1>1, <1>2, <1>3, <1>4

\* The replay ends where the log ends, or with the batch.
LEMMA ReplayedFact ==
  ASSUME NEW l, NEW m, NEW first, NEW through, NEW b, NEW held,
         Overlaps(b, held, l, m, first, through)
  PROVE  Replayed(held, b) = IF through <= m THEN Len(b) ELSE m - first + 1
<1>1. m \in Nat /\ first \in Nat \ {0} /\ through \in Nat /\ first <= through /\ first <= m + 1
  BY DEF Overlaps
<1>2. /\ Len(b) = through - first + 1 /\ Len(b) \in Nat
      /\ \A i \in 1 .. Len(b) : b[i] \in Range(held) <=> first + i - 1 <= m
  BY BatchFact
<1> DEFINE r == IF through <= m THEN Len(b) ELSE m - first + 1
           Is(k) == /\ \A i \in 1..k : b[i] \in Range(held)
                    /\ k < Len(b) => b[k + 1] \notin Range(held)
<1>3. r \in 0 .. Len(b) /\ Is(r)
  <2>1. r \in 0 .. Len(b) /\ first + r - 1 <= m /\ (r < Len(b) => first + r > m)
    BY <1>1, <1>2
  <2>2. \A i \in 1 .. r : i \in 1 .. Len(b) /\ first + i - 1 <= m
    BY <1>1, <1>2, <2>1
  <2>3. r < Len(b) => r + 1 \in 1 .. Len(b) /\ ~(first + (r + 1) - 1 <= m)
    BY <1>1, <1>2, <2>1
  <2> HIDE DEF r
  <2> QED
    BY <1>2, <2>1, <2>2, <2>3
<1>4. ASSUME NEW k \in 0 .. Len(b), Is(k)
      PROVE  k = r
  <2>1. \A i \in 1 .. k : first + i - 1 <= m
    <3>1. TAKE i \in 1 .. k
    <3>2. i \in 1 .. Len(b) /\ b[i] \in Range(held)
      <4>1. b[i] \in Range(held)
        BY <1>4
      <4> QED
        BY <1>2, <4>1
    <3> QED
      BY <1>2, <3>2
  <2>2. k > 0 => first + k - 1 <= m
    BY <2>1, <1>2
  <2>3. k < Len(b) => ~(first + (k + 1) - 1 <= m)
    <3>1. SUFFICES ASSUME k < Len(b) PROVE ~(first + (k + 1) - 1 <= m)
      OBVIOUS
    <3>2. k + 1 \in 1 .. Len(b) /\ b[k + 1] \notin Range(held)
      <4>1. b[k + 1] \notin Range(held)
        BY <1>4, <3>1
      <4> QED
        BY <1>2, <3>1, <4>1
    <3> QED
      BY <1>2, <3>2
  <2> QED
    BY <1>1, <1>2, <2>2, <2>3
<1>5. Replayed(held, b) = CHOOSE k \in 0 .. Len(b) : Is(k)
  BY DEF Replayed
<1> HIDE DEF r, Is
<1>6. Replayed(held, b) = r
  BY <1>3, <1>4, <1>5
<1> QED
  BY <1>6 DEF r

\* A log that takes a batch which overlaps it or follows it goes on to hold the ledger up
\* to the end of the batch, and the replay ends at the head of the log.
LEMMA Extended ==
  ASSUME NEW l, NEW m, NEW first, NEW through, NEW b, NEW held,
         Overlaps(b, held, l, m, first, through)
  PROVE  /\ held \o Remaining(held, b) = Prefix(l, IF through <= m THEN m ELSE through)
         /\ Remaining(held, b) # <<>> /\ Replayed(held, b) > 0 => b[Replayed(held, b)] = Last(held)
<1> DEFINE k == Replayed(held, b)
<1>1. l \in Seq(Nat) /\ m \in Nat /\ first \in Nat \ {0} /\ through \in Nat /\ first <= through
      /\ first <= m + 1 /\ m <= Len(l) /\ through <= Len(l) /\ Len(l) \in Nat
  BY DEF Overlaps
<1>0. b = SubSeq(l, first, through) /\ held = Prefix(l, m)
  BY DEF Overlaps
<1>2. k = IF through <= m THEN Len(b) ELSE m - first + 1
  BY ReplayedFact
<1>3. /\ b \in Seq(Nat) /\ Len(b) = through - first + 1 /\ Len(b) \in Nat
      /\ \A i \in 1 .. Len(b) : b[i] = l[first + i - 1]
      /\ \A i \in 1 .. Len(b) : b[i] \in Range(held) <=> first + i - 1 <= m
      /\ held \in Seq(Nat) /\ Len(held) = m
  BY BatchFact
<1>4. k \in 0 .. Len(b)
  BY <1>1, <1>2, <1>3
<1>5. \A i \in k + 1 .. Len(b) : i \in 1 .. Len(b) /\ ~(first + i - 1 <= m)
  BY <1>1, <1>2, <1>3
<1>6. Remaining(held, b) = SubSeq(b, k + 1, Len(b))
  <2>1. \A i \in k + 1 .. Len(b) : b[i] \notin Range(held)
    BY <1>3, <1>5
  <2> QED
    BY <1>3, <1>4, <2>1, RemainingFact
<1> HIDE DEF k
<1>7. CASE through <= m
  <2>1. Remaining(held, b) = <<>>
    <3>1. k = Len(b)
      BY <1>2, <1>7
    <3> QED
      BY <1>3, <1>6, <3>1
  <2>2. held \o <<>> = held
    BY <1>3
  <2> QED
    BY <1>0, <2>1, <2>2, <1>7
<1>8. CASE through > m
  <2> DEFINE s == SubSeq(b, k + 1, Len(b))
             t == SubSeq(l, m + 1, through)
             u == Prefix(l, through)
  <2>1. k = m - first + 1 /\ k + 1 \in 1 .. Len(b)
    BY <1>1, <1>2, <1>3, <1>8
  <2>2. s \in Seq(Nat) /\ Len(s) = through - m /\ \A i \in 1 .. through - m : s[i] = b[k + i]
    <3>1. k \in Nat /\ Len(b) - (k + 1) + 1 = through - m
      BY <1>1, <1>3, <2>1
    <3>2. /\ s \in Seq(Nat) /\ Len(s) = through - m
          /\ \A i \in 1 .. through - m : s[i] = b[(k + 1) + i - 1]
      BY <1>1, <1>3, <2>1, <3>1
    <3> HIDE DEF s
    <3> QED
      BY <1>1, <3>1, <3>2
  <2>3. \A i \in 1 .. through - m : k + i \in 1 .. Len(b) /\ first + (k + i) - 1 = m + i
    BY <1>1, <1>3, <2>1
  <2>4. \A i \in 1 .. through - m : s[i] = l[m + i]
    BY <1>3, <2>2, <2>3
  <2>5. /\ u \in Seq(Nat) /\ Len(u) = through /\ \A i \in 1 .. through : u[i] = l[i]
    <3>1. through \in 0 .. Len(l)
      BY <1>1
    <3> QED
      BY <1>1, <3>1, PrefixFact
  <2>6. \A i \in 1 .. m : held[i] = l[i]
    <3>1. m \in 0 .. Len(l)
      BY <1>1
    <3> QED
      BY <1>0, <1>1, <3>1, PrefixFact
  <2> HIDE DEF s, u
  <2>7. held \o s \in Seq(Nat) /\ Len(held \o s) = through
    <3>1. held \o s \in Seq(Nat) /\ Len(held \o s) = Len(held) + Len(s)
      BY <1>3, <2>2, ConcatProperties
    <3> QED
      BY <1>1, <1>3, <2>2, <3>1
  <2>8. ASSUME NEW i \in 1 .. through PROVE (held \o s)[i] = u[i]
    <3>1. CASE i <= m
      <4>1. i \in 1 .. m /\ i \in 1 .. Len(held) /\ i \in 1 .. Len(held) + Len(s)
        BY <3>1, <1>1, <1>3, <2>2
      <4>2. (held \o s)[i] = held[i]
        BY <1>3, <2>2, <4>1
      <4> QED
        BY <4>1, <4>2, <2>5, <2>6
    <3>2. CASE i > m
      <4>1. i - m \in 1 .. through - m /\ m + (i - m) = i
        BY <3>2, <1>1
      <4>2. (held \o s)[i] = s[i - m]
        <5>1. i \in 1 .. Len(held) + Len(s) /\ ~(i <= Len(held)) /\ i - Len(held) = i - m
          BY <3>2, <1>1, <1>3, <2>2
        <5> QED
          <6>1. (held \o s)[i] = s[i - Len(held)]
            BY <1>3, <2>2, <5>1, ConcatProperties, Zenon
          <6> QED
            BY <5>1, <6>1
      <4>3. s[i - m] = l[i]
        BY <2>4, <4>1
      <4> QED
        BY <2>5, <4>2, <4>3
    <3> QED
      <4>1. i <= m \/ i > m
        BY <1>1
      <4> QED
        BY <3>1, <3>2, <4>1
  <2>9. held \o s = u
    BY <2>5, <2>7, <2>8, SeqEqual
  <2>10. k > 0 => b[k] = Last(held)
    <3>1. SUFFICES ASSUME k > 0 PROVE b[k] = Last(held)
      OBVIOUS
    <3>2. k \in 1 .. Len(b) /\ first + k - 1 = m
      <4>1. k \in Nat /\ k <= Len(b)
        BY <1>3, <1>4
      <4> QED
        BY <3>1, <4>1, <1>1, <2>1
    <3>3. m \in 1 .. m
      BY <3>1, <1>1, <2>1
    <3> QED
      BY <3>2, <3>3, <1>3, <2>6 DEF Last
  <2> QED
    <3>1. ~(through <= m)
      BY <1>1, <1>8
    <3> QED
      BY <1>6, <3>1, <2>9, <2>10 DEF s, u, k
<1>9. through <= m \/ through > m
  BY <1>1
<1> QED
  BY <1>7, <1>8, <1>9

-----------------------------------------------------------------------------
(* Types *)

\* Events are positive numbers.
LEMMA EventType == Event \subseteq Nat /\ MaxEvent \in Nat /\ 0 \notin Event
  BY BoundAssumption DEF Event

\* A sequence of events is a sequence of numbers.
LEMMA EventsType ==
  ASSUME NEW s \in Seq(Event)
  PROVE  s \in Seq(Nat) /\ Len(s) \in Nat /\ DOMAIN s = 1 .. Len(s)
<1>1. s \in Seq(Nat)
  BY EventType, SeqMonotonic, Zenon
<1> QED
  BY <1>1

\* The fields of a ledger.
LEMMA LedgerType ==
  ASSUME NEW l \in LedgerState
  PROVE  /\ l.events \in Seq(Event) /\ l.events \in Seq(Nat) /\ Len(l.events) \in Nat
         /\ l.observed \in Nat /\ l.forkSeq \in Nat /\ l.parent \in Channel \cup {NoParent}
         /\ l.rootObserved \in BOOLEAN /\ l.parentObserved \in BOOLEAN
<1>1. l.events \in Seq(Event)
  BY DEF LedgerState
<1>2. l.events \in Seq(Nat) /\ Len(l.events) \in Nat
  BY <1>1, EventsType, Zenon
<1> QED
  BY <1>1, <1>2 DEF LedgerState

\* A channel that exists has a ledger.
LEMMA LedgerIs ==
  ASSUME ObservationTypeOK, NEW ch \in Channel, Exists(ch)
  PROVE  ledger[ch] \in LedgerState
  BY DEF ObservationTypeOK, Exists

\* The fields of a log that exists.
LEMMA GraphIs ==
  ASSUME ObservationTypeOK, NEW ch \in Channel, graph[ch] # Absent
  PROVE  /\ graph[ch] \in LogState /\ graph[ch].events \in Seq(Event)
         /\ Len(graph[ch].events) \in Nat /\ graph[ch].forkSeq \in Nat
         /\ graph[ch].parent \in Channel \cup {NoParent}
<1>1. graph[ch] \in LogState
  BY DEF ObservationTypeOK
<1> QED
  BY <1>1 DEF LogState

\* How much the log authority holds is a number.
LEMMA HeldType ==
  ASSUME ObservationTypeOK, NEW ch \in Channel
  PROVE  /\ EventsOf(graph, ch) \in Seq(Event) /\ Len(EventsOf(graph, ch)) \in Nat
         /\ graph[ch] = Absent => Len(EventsOf(graph, ch)) = 0
         /\ graph[ch] # Absent => EventsOf(graph, ch) = graph[ch].events
<1>1. CASE graph[ch] = Absent
  <2>1. EventsOf(graph, ch) = <<>>
    BY <1>1 DEF EventsOf
  <2> QED
    BY <2>1, <1>1
<1>2. CASE graph[ch] # Absent
  BY <1>2, GraphIs DEF EventsOf
<1> QED
  BY <1>1, <1>2

\* An attempt is typed.
LEMMA AttemptIs ==
  ASSUME ObservationTypeOK, NEW w \in Worker, NEW ch \in Channel
  PROVE  attempt[w][ch] \in AttemptState
  BY DEF ObservationTypeOK

\* A claim is typed.
LEMMA RowIs ==
  ASSUME ObservationTypeOK, NEW ch \in Channel, row[ch] # NoRow
  PROVE  row[ch] \in RowState
  BY DEF ObservationTypeOK

\* A request is typed.
LEMMA RequestIs ==
  ASSUME ObservationTypeOK, NEW w \in Worker, NEW ch \in Channel, request[w][ch] # NoRequest
  PROVE  request[w][ch] \in RequestState
  BY DEF ObservationTypeOK

\* An attempt that is idle is typed.
LEMMA IdleType == Idle \in AttemptState /\ Idle.phase = "idle" /\ Idle.kind = "root"
  BY DEF Idle, AttemptState, Kind, Phase

\* Changing the phase of an attempt keeps its work.
LEMMA PhaseFact ==
  ASSUME NEW a \in AttemptState, NEW p \in Phase, NEW b, b = [a EXCEPT !.phase = p]
  PROVE  /\ b \in AttemptState /\ b.phase = p /\ SameWork(b, a) /\ b.kind = a.kind
         /\ b.first = a.first /\ b.through = a.through /\ b.gen = a.gen
  BY DEF AttemptState, SameWork

\* Releasing or failing a claim keeps its work.
LEMMA RowFact ==
  ASSUME NEW r \in RowState, NEW d \in {"ready", "leased", "failed"},
         NEW b, b = [r EXCEPT !.disposition = d, !.owner = NoWorker]
  PROVE  b \in RowState /\ SameWork(b, r) /\ b.disposition = d
  BY DEF RowState, SameWork

\* Adopting a channel keeps the work of its claim.
LEMMA ReleasedFact ==
  ASSUME ObservationTypeOK, NEW ch \in Channel
  PROVE  /\ Released(ch) \in RowState \cup {NoRow}
         /\ Released(ch) = NoRow <=> row[ch] = NoRow
         /\ row[ch] # NoRow => SameWork(Released(ch), row[ch])
<1>1. row[ch] = NoRow \/ row[ch] \in RowState
  BY DEF ObservationTypeOK
<1>2. CASE Released(ch) = row[ch]
  BY <1>1, <1>2 DEF SameWork
<1>3. CASE Released(ch) # row[ch]
  <2>1. /\ row[ch] \in RowState /\ row[ch] # NoRow
        /\ Released(ch) = [row[ch] EXCEPT !.disposition = "ready", !.owner = NoWorker]
    BY <1>1, <1>3 DEF Released
  <2>2. Released(ch) \in RowState /\ SameWork(Released(ch), row[ch])
    BY <2>1, RowFact
  <2> QED
    BY <2>1, <2>2, AbsenceAssumption
<1> QED
  BY <1>2, <1>3

\* A verdict that resolves has the prefix observed.
LEMMA VerdictType ==
  ASSUME NEW l, NEW r, NEW n
  PROVE  /\ Verdict(l, r, n) \in {"resolved", "open", "rejected"}
         /\ Verdict(l, r, n) = "resolved" => l.rootObserved /\ l.observed >= n
  BY DEF Verdict

\* A child is prepared only by a verdict that resolves.
LEMMA PreparedType ==
  ASSUME NEW c, NEW v
  PROVE  /\ PreparedBy(c, v) \in {"waiting", "prepared", "refused"}
         /\ PreparedBy(c, v) = "prepared" => v = "resolved"
  BY DEF PreparedBy

\* A wait is resolved only by a verdict that resolves.
LEMMA WaiterType ==
  ASSUME NEW n \in Nat, NEW v \in {"resolved", "open", "rejected"}
  PROVE  /\ Waiter(n, v) \in WaiterState
         /\ Waiter(n, v).state = "resolved" => v = "resolved" /\ Waiter(n, v).sequence = n
  BY DEF Waiter, WaiterState, NotWaiting

-----------------------------------------------------------------------------
(* Ledgers that grow *)

\* l2 goes on where l stopped
Extends(l2, l) ==
  /\ l2 \in LedgerState /\ l \in LedgerState
  /\ l2.parent = l.parent /\ l2.forkSeq = l.forkSeq /\ l2.observed = l.observed
  /\ l2.rootObserved = l.rootObserved /\ l2.parentObserved = l.parentObserved
  /\ Len(l.events) <= Len(l2.events)
  /\ \A i \in 1 .. Len(l.events) : l2.events[i] = l.events[i]

\* Sequences that agree on a segment have the same segment.
LEMMA SameSegment ==
  ASSUME NEW S, NEW s \in Seq(S), NEW t \in Seq(S), NEW first \in Nat \ {0}, NEW n \in Nat,
         n <= Len(s), n <= Len(t), \A i \in first .. n : s[i] = t[i]
  PROVE  SubSeq(s, first, n) = SubSeq(t, first, n)
<1> DEFINE a == SubSeq(s, first, n)
           b == SubSeq(t, first, n)
           m == IF first <= n THEN n - first + 1 ELSE 0
<1>1. a \in Seq(S) /\ Len(a) = m /\ \A i \in 1 .. n - first + 1 : a[i] = s[first + i - 1]
  <2>1. \A i \in first .. n : s[i] \in S
    OBVIOUS
  <2> QED
    BY <2>1, SubSeqProperties
<1>2. b \in Seq(S) /\ Len(b) = m /\ \A i \in 1 .. n - first + 1 : b[i] = t[first + i - 1]
  <2>1. \A i \in first .. n : t[i] \in S
    OBVIOUS
  <2> QED
    BY <2>1, SubSeqProperties
<1>3. ASSUME NEW i \in 1 .. m PROVE i \in 1 .. n - first + 1 /\ first + i - 1 \in first .. n
  BY <1>3
<1> HIDE DEF a, b, m
<1>4. \A i \in 1 .. m : a[i] = b[i]
  <2>1. TAKE i \in 1 .. m
  <2>2. a[i] = s[first + i - 1] /\ b[i] = t[first + i - 1] /\ s[first + i - 1] = t[first + i - 1]
    BY <1>1, <1>2, <1>3, <2>1
  <2> QED
    BY <2>2
<1>5. a = b
  BY <1>1, <1>2, <1>4, SeqEqual
<1> QED
  BY <1>5 DEF a, b

\* Sequences that agree on a prefix have the same prefix.
LEMMA SamePrefix ==
  ASSUME NEW S, NEW s \in Seq(S), NEW t \in Seq(S), NEW n \in Nat,
         n <= Len(s), n <= Len(t), \A i \in 1 .. n : s[i] = t[i]
  PROVE  Prefix(s, n) = Prefix(t, n)
  BY SameSegment DEF Prefix

\* What was a segment of the ledger stays one.
LEMMA ExtendsFact ==
  ASSUME NEW l2, NEW l, Extends(l2, l), NEW n \in Nat, n <= Len(l.events)
  PROVE  /\ n <= Len(l2.events) /\ Prefix(l2.events, n) = Prefix(l.events, n)
         /\ \A first \in Nat \ {0} : SubSeq(l2.events, first, n) = SubSeq(l.events, first, n)
<1>1. /\ l2.events \in Seq(Nat) /\ Len(l2.events) \in Nat /\ l.events \in Seq(Nat)
      /\ Len(l.events) \in Nat
  BY LedgerType DEF Extends
<1>2. /\ Len(l.events) <= Len(l2.events)
      /\ \A i \in 1 .. Len(l.events) : l2.events[i] = l.events[i]
  BY DEF Extends
<1>3. n <= Len(l2.events) /\ \A i \in 1 .. n : l2.events[i] = l.events[i]
  BY <1>1, <1>2
<1>4. Prefix(l2.events, n) = Prefix(l.events, n)
  BY <1>1, <1>3, SamePrefix
<1>5. ASSUME NEW first \in Nat \ {0}
      PROVE  SubSeq(l2.events, first, n) = SubSeq(l.events, first, n)
  <2>1. \A i \in first .. n : l2.events[i] = l.events[i]
    BY <1>3
  <2> QED
    BY <1>1, <1>3, <2>1, SameSegment
<1> QED
  BY <1>3, <1>4, <1>5

\* A prefix is what its length says.
LEMMA IsPrefixFact ==
  ASSUME NEW S, NEW s \in Seq(S), NEW t \in Seq(S)
  PROVE  IsPrefix(s, t) <=> Len(s) <= Len(t) /\ s = Prefix(t, Len(s))
<1>1. Len(s) \in Nat /\ Len(t) \in Nat /\ SubSeq(s, 1, Len(s)) = s
  OBVIOUS
<1> QED
  BY <1>1 DEF IsPrefix, Prefix

\* A prefix of a prefix is a prefix.
LEMMA PrefixOfPrefix ==
  ASSUME NEW S, NEW s \in Seq(S), NEW m \in 0 .. Len(s), NEW n \in 0 .. m
  PROVE  Prefix(Prefix(s, m), n) = Prefix(s, n)
<1>1. /\ Prefix(s, m) \in Seq(S) /\ Len(Prefix(s, m)) = m
      /\ \A i \in 1 .. m : Prefix(s, m)[i] = s[i]
  BY PrefixFact
<1>2. n \in Nat /\ n <= Len(s) /\ n <= m /\ \A i \in 1 .. n : i \in 1 .. m
  OBVIOUS
<1>3. \A i \in 1 .. n : Prefix(s, m)[i] = s[i]
  BY <1>1, <1>2
<1>4. n <= Len(Prefix(s, m))
  BY <1>1, <1>2
<1> DEFINE t == Prefix(s, m)
<1>5. t \in Seq(S) /\ n <= Len(t) /\ \A i \in 1 .. n : t[i] = s[i]
  BY <1>1, <1>3, <1>4
<1> HIDE DEF t
<1>6. Prefix(t, n) = Prefix(s, n)
  BY <1>2, <1>5, SamePrefix
<1> QED
  BY <1>6 DEF t

\* A prefix of an increasing sequence increases.
LEMMA PrefixIncreasing ==
  ASSUME NEW S, NEW s \in Seq(S), Increasing(s), NEW m \in 0 .. Len(s)
  PROVE  Increasing(Prefix(s, m))
<1>1. /\ DOMAIN Prefix(s, m) = 1 .. m
      /\ \A i \in 1 .. m : Prefix(s, m)[i] = s[i]
  BY PrefixFact
<1>2. \A i \in 1 .. m : i \in DOMAIN s
  OBVIOUS
<1> QED
  BY <1>1, <1>2 DEF Increasing

\* whoever holds a prefix goes on to hold it
Exceeds == \A c \in Channel : Exists(c) => ledger'[c] # Unborn /\ Extends(ledger'[c], ledger[c])

\* What is due stays due when events are appended.
LEMMA DueExtends ==
  ASSUME NEW l2, NEW l, Extends(l2, l), NEW r \in RowState, Due(r, l)
  PROVE  Due(r, l2)
<1>1. /\ l2.events \in Seq(Nat) /\ Len(l2.events) \in Nat /\ l.events \in Seq(Nat)
      /\ Len(l.events) \in Nat
  BY LedgerType DEF Extends
<1>2. l.events # <<>> => l2.events # <<>>
  BY <1>1 DEF Extends
<1>3. r.through \in Nat /\ r.through <= Len(l.events) => r.through <= Len(l2.events)
  BY <1>1 DEF Extends, RowState
<1>4. /\ l2.parent = l.parent /\ l2.forkSeq = l.forkSeq /\ l2.observed = l.observed
      /\ l2.rootObserved = l.rootObserved /\ l2.parentObserved = l.parentObserved
  BY DEF Extends
<1>5. r.through \in Nat
  BY DEF RowState
<1> QED
  BY <1>2, <1>3, <1>4, <1>5, Zenon DEF Due

\* What is past stays past when events are appended.
LEMMA PastExtends ==
  ASSUME NEW l2, NEW l, Extends(l2, l), NEW a, Past(a, l)
  PROVE  Past(a, l2)
  BY DEF Past, Extends

\* A ledger that stays extends itself.
LEMMA ExtendsSelf ==
  ASSUME NEW l \in LedgerState
  PROVE  Extends(l, l)
  BY LedgerType DEF Extends

\* a newborn channel has nothing observed
NewbornDue == \A c \in Channel : ~Exists(c) /\ ledger'[c] # Unborn =>
  ledger'[c].observed = 0 /\ ~ledger'[c].rootObserved

Unrelated == UNCHANGED <<row, attempt, request, graph, waiter>>

\* Growing ledgers keep claims due and attempts in line with them.
LEMMA GrownRows ==
  ASSUME ObservationTypeOK, ObservationInv, Exceeds, Unrelated
  PROVE  RowsOK' /\ AttemptsOK'
<1>1. ASSUME NEW c \in Channel, row'[c] # NoRow
      PROVE  Exists(c)' /\ Due(row[c], ledger[c])'
  <2>1. row'[c] = row[c] /\ row' = row
    BY DEF Unrelated
  <2>2. Exists(c) /\ Due(row[c], ledger[c])
    BY <1>1, <2>1 DEF ObservationInv, RowsOK
  <2>3. Extends(ledger'[c], ledger[c]) /\ ledger'[c] # Unborn /\ row[c] \in RowState
    BY <1>1, <2>1, <2>2, RowIs DEF Exceeds
  <2> QED
    BY <2>1, <2>2, <2>3, DueExtends DEF Exists
<1>2. ASSUME NEW w \in Worker, NEW c \in Channel
      PROVE  AttemptOK(attempt[w][c], c)'
  <2>1. attempt' = attempt /\ row' = row
    BY DEF Unrelated
  <2>2. SUFFICES ASSUME attempt[w][c].phase # "idle"
                 PROVE  /\ ledger'[c] # Unborn
                        /\ attempt[w][c].kind = "fork" => ledger'[c].parent # NoParent
                        /\ Past(attempt[w][c], ledger'[c]) \/ (row[c] # NoRow /\ SameWork(attempt[w][c], row[c]))
    BY <2>1 DEF AttemptOK, Exists
  <2>3. /\ Exists(c) /\ (attempt[w][c].kind = "fork" => ledger[c].parent # NoParent)
        /\ Past(attempt[w][c], ledger[c]) \/ (row[c] # NoRow /\ SameWork(attempt[w][c], row[c]))
    BY <2>2 DEF ObservationInv, AttemptsOK, AttemptOK
  <2>4. Extends(ledger'[c], ledger[c]) /\ ledger'[c] # Unborn
    BY <2>3 DEF Exceeds
  <2>5. ledger'[c].parent = ledger[c].parent
    BY <2>4 DEF Extends
  <2> QED
    BY <2>3, <2>4, <2>5, PastExtends
<1> QED
  BY <1>1, <1>2 DEF RowsOK, AttemptsOK

\* Growing ledgers keep what a request carries.
LEMMA RequestExtends ==
  ASSUME ObservationTypeOK, Exceeds, graph' = graph, NEW q \in RequestState, NEW c \in Channel,
         RequestOK(q, c)
  PROVE  RequestOK(q, c)'
<1> DEFINE l == ledger[c]
           l2 == ledger'[c]
<1>1. Exists(c) /\ Extends(l2, l) /\ l2 # Unborn /\ q.through \in Nat
  BY DEF RequestOK, Exceeds, RequestState
<1>2. /\ q.parent = l.parent /\ q.through <= Len(l.events) /\ q.prefix = Prefix(l.events, q.through)
      /\ q.kind = "root" => l.parent = NoParent /\ q.through = 0
      /\ q.kind = "fork" => l.parent # NoParent /\ q.through = l.forkSeq
  BY DEF RequestOK
<1>3. l2.parent = l.parent /\ l2.forkSeq = l.forkSeq
  BY <1>1 DEF Extends
<1>4. q.through <= Len(l2.events) /\ q.prefix = Prefix(l2.events, q.through)
  BY <1>1, <1>2, ExtendsFact
<1>5. ASSUME q.kind = "append"
      PROVE  /\ l2.parent # NoParent => graph[c] # Absent
             /\ \E first \in 1 .. q.through :
                  /\ q.batch = SubSeq(l2.events, first, q.through)
                  /\ first <= Len(EventsOf(graph, c)) + 1
  <2>1. /\ l.parent # NoParent => graph[c] # Absent
        /\ \E first \in 1 .. q.through :
             /\ q.batch = SubSeq(l.events, first, q.through)
             /\ first <= Len(EventsOf(graph, c)) + 1
    BY <1>5 DEF RequestOK
  <2>2. PICK first \in 1 .. q.through : /\ q.batch = SubSeq(l.events, first, q.through)
                                        /\ first <= Len(EventsOf(graph, c)) + 1
    BY <2>1
  <2>3. first \in Nat \ {0}
    BY <1>1
  <2>4. SubSeq(l2.events, first, q.through) = SubSeq(l.events, first, q.through)
    <3>1. \A i \in Nat \ {0} : SubSeq(l2.events, i, q.through) = SubSeq(l.events, i, q.through)
      <4>1. Extends(l2, l) /\ q.through \in Nat /\ q.through <= Len(l.events)
        BY <1>1, <1>2
      <4> HIDE DEF l, l2
      <4> QED
        BY <4>1, ExtendsFact
    <3> QED
      BY <2>3, <3>1
  <2> QED
    BY <1>3, <2>1, <2>2, <2>4
<1>6. EventsOf(graph, c)' = EventsOf(graph, c)
  BY DEF EventsOf
<1> QED
  BY <1>1, <1>2, <1>3, <1>4, <1>5, <1>6 DEF RequestOK, Exists

\* Growing ledgers keep the requests under way.
LEMMA GrownRequests ==
  ASSUME ObservationTypeOK, ObservationInv, Exceeds, Unrelated
  PROVE  RequestsOK'
<1>1. SUFFICES ASSUME NEW w \in Worker, NEW c \in Channel, request[w][c] # NoRequest
               PROVE  /\ RequestOK(request[w][c], c)'
                      /\ attempt[w][c].phase = "asked" =>
                           /\ request[w][c].through = attempt[w][c].through
                           /\ request[w][c].kind = attempt[w][c].kind
  BY DEF RequestsOK, Unrelated
<1> DEFINE q == request[w][c]
<1>2. /\ RequestOK(q, c) /\ q \in RequestState
      /\ attempt[w][c].phase = "asked" =>
           q.through = attempt[w][c].through /\ q.kind = attempt[w][c].kind
  BY <1>1, RequestIs DEF ObservationInv, RequestsOK
<1>3. graph' = graph /\ request' = request
  BY DEF Unrelated
<1>4. \A p \in RequestState : RequestOK(p, c) => RequestOK(p, c)'
  BY <1>3, RequestExtends
<1> QED
  BY <1>2, <1>3, <1>4

\* Growing ledgers do not disturb what is held and what of it was observed.
LEMMA GrownHeld ==
  ASSUME ObservationTypeOK, ObservationInv, Exceeds, NewbornDue, Unrelated, ledger' \in [Channel -> LedgerState \cup {Unborn}]
  PROVE  ObservedHeld' /\ AnswersHeld' /\ ForksWhole' /\ GraphFollowsLedger' /\ WaitVouches'
<1>0. graph' = graph /\ attempt' = attempt /\ waiter' = waiter
  BY DEF Unrelated
<1>1. ASSUME NEW c \in Channel, ledger'[c] # Unborn
      PROVE  /\ ledger'[c].observed <= Len(EventsOf(graph, c))
             /\ ledger'[c].rootObserved => graph[c] # Absent
  <2>1. CASE Exists(c)
    <3>1. ledger'[c].observed = ledger[c].observed /\ ledger'[c].rootObserved = ledger[c].rootObserved
      BY <2>1 DEF Exceeds, Extends
    <3> QED
      BY <2>1, <3>1 DEF ObservationInv, ObservedHeld
  <2>2. CASE ~Exists(c)
    <3>1. ledger'[c].observed = 0 /\ ~ledger'[c].rootObserved
      BY <1>1, <2>2 DEF NewbornDue
    <3> QED
      BY <3>1, HeldType
  <2> QED
    BY <2>1, <2>2
<1>2. ObservedHeld'
  <2>1. \A c \in Channel : EventsOf(graph, c)' = EventsOf(graph, c)
    BY <1>0 DEF EventsOf
  <2> QED
    BY <1>0, <1>1, <2>1 DEF ObservedHeld, Exists
<1>3. \A c \in Channel, n \in Nat : Holds(c, n)' <=> Holds(c, n)
  BY <1>0 DEF Holds, EventsOf
<1>4. AnswersHeld'
  <2>1. SUFFICES ASSUME NEW w \in Worker, NEW c \in Channel, attempt[w][c].phase = "answered"
                 PROVE  Holds(c, attempt[w][c].through)'
    BY <1>0 DEF AnswersHeld
  <2>2. Holds(c, attempt[w][c].through)
    BY <2>1 DEF ObservationInv, AnswersHeld
  <2> QED
    BY <1>0, <2>2 DEF Holds, EventsOf
<1>5. ForksWhole'
  BY <1>0 DEF ObservationInv, ForksWhole
<1>6. GraphFollowsLedger'
  <2>1. SUFFICES ASSUME NEW c \in Channel, graph[c] # Absent
                 PROVE  /\ ledger'[c] # Unborn
                        /\ IsPrefix(graph[c].events, ledger'[c].events)
                        /\ graph[c].parent = ledger'[c].parent
                        /\ graph[c].forkSeq = ledger'[c].forkSeq
    BY <1>0 DEF GraphFollowsLedger
  <2> DEFINE l == ledger[c]
             l2 == ledger'[c]
             m == Len(graph[c].events)
  <2>2. /\ l # Unborn /\ IsPrefix(graph[c].events, l.events)
        /\ graph[c].parent = l.parent /\ graph[c].forkSeq = l.forkSeq
    BY <2>1 DEF ObservationInv, GraphFollowsLedger
  <2>3. l2 # Unborn /\ Extends(l2, l) /\ l \in LedgerState /\ l2 \in LedgerState
    BY <2>2 DEF Exceeds, Exists, Extends
  <2>4. graph[c].events \in Seq(Event) /\ m \in Nat
    BY <2>1, GraphIs
  <2>5. l.events \in Seq(Event) /\ l2.events \in Seq(Event)
    BY <2>3, LedgerType
  <2>6. m <= Len(l.events) /\ graph[c].events = Prefix(l.events, m)
    BY <2>2, <2>4, <2>5, IsPrefixFact
  <2>7. m <= Len(l2.events) /\ Prefix(l2.events, m) = Prefix(l.events, m)
    BY <2>3, <2>4, <2>6, ExtendsFact
  <2>8. IsPrefix(graph[c].events, l2.events)
    BY <2>4, <2>5, <2>6, <2>7, IsPrefixFact
  <2> QED
    BY <2>2, <2>3, <2>8 DEF Extends
<1>7. WaitVouches'
  <2>1. ASSUME NEW c \in Awaited, waiter[c].state = "resolved"
        PROVE  Holds(c, waiter[c].sequence)'
    <3>1. Holds(c, waiter[c].sequence)
      BY <2>1 DEF ObservationInv, WaitVouches
    <3> QED
      BY <1>0, <3>1 DEF Holds, EventsOf
  <2>2. ASSUME NEW w \in Worker, NEW c \in Channel, attempt[w][c].kind = "fork",
               attempt[w][c].phase \in {"prepared", "asked", "answered"}
        PROVE  Holds(ledger[c].parent, ledger[c].forkSeq)'
    <3>1. Holds(ledger[c].parent, ledger[c].forkSeq)
      BY <2>2 DEF ObservationInv, WaitVouches
    <3>2. Exists(c)
      BY <2>2 DEF ObservationInv, AttemptsOK, AttemptOK
    <3>3. ledger'[c].parent = ledger[c].parent /\ ledger'[c].forkSeq = ledger[c].forkSeq
      BY <3>2 DEF Exceeds, Extends
    <3> QED
      BY <1>0, <3>1, <3>3 DEF Holds, EventsOf
  <2> QED
    BY <1>0, <2>1, <2>2 DEF WaitVouches
<1> QED
  BY <1>2, <1>4, <1>5, <1>6, <1>7

-----------------------------------------------------------------------------
(* The actions in which ledgers grow *)

\* An append only adds to the end of one ledger (commitPublication).
LEMMA LedgersKept ==
  ASSUME ObservationTypeOK, ObservationInv, NEW ch \in Channel, AppendDurable(ch)
  PROVE  /\ Exceeds /\ NewbornDue /\ Unrelated
         /\ ledger' \in [Channel -> LedgerState \cup {Unborn}]
         /\ LedgersOK'
<1> DEFINE l == ledger[ch]
           e == issued + 1
           l2 == [l EXCEPT !.events = Append(@, e)]
<1>1. /\ l # Unborn /\ issued < MaxEvent /\ issued' = e /\ Unrelated
      /\ ledger' = [ledger EXCEPT ![ch] = l2]
  BY DEF AppendDurable, Unrelated
<1>2. l \in LedgerState /\ issued \in Nat /\ e \in Event
  BY <1>1, EventType, BoundAssumption DEF ObservationTypeOK, Event
<1>3. /\ l.events \in Seq(Event) /\ Len(l.events) \in Nat /\ Append(l.events, e) \in Seq(Event)
      /\ Len(Append(l.events, e)) = Len(l.events) + 1
      /\ \A i \in 1 .. Len(l.events) : Append(l.events, e)[i] = l.events[i]
      /\ Append(l.events, e)[Len(l.events) + 1] = e
  BY <1>2, LedgerType
<1>4. /\ l2 \in LedgerState /\ l2.events = Append(l.events, e)
      /\ l2.parent = l.parent /\ l2.forkSeq = l.forkSeq /\ l2.observed = l.observed
      /\ l2.rootObserved = l.rootObserved /\ l2.parentObserved = l.parentObserved
  BY <1>2, <1>3 DEF LedgerState
<1> HIDE DEF l2
<1>5. Extends(l2, l)
  BY <1>2, <1>3, <1>4 DEF Extends
<1>6. /\ ledger' \in [Channel -> LedgerState \cup {Unborn}]
      /\ ledger'[ch] = l2 /\ \A c \in Channel \ {ch} : ledger'[c] = ledger[c]
  BY <1>1, <1>4 DEF ObservationTypeOK
<1>7. Exceeds
  <2>1. ASSUME NEW c \in Channel, Exists(c)
        PROVE  ledger'[c] # Unborn /\ Extends(ledger'[c], ledger[c])
    <3>1. CASE c = ch
      BY <3>1, <1>4, <1>5, <1>6, AbsenceAssumption
    <3>2. CASE c # ch
      BY <2>1, <3>2, <1>6, LedgerIs, ExtendsSelf DEF Exists
    <3> QED
      BY <3>1, <3>2
  <2> QED
    BY <2>1 DEF Exceeds
<1>8. \A c \in Channel : ledger'[c] # Unborn => Exists(c)
  BY <1>1, <1>6 DEF Exists
<1>9. NewbornDue
  BY <1>8 DEF NewbornDue
<1>10. ASSUME NEW c \in Channel, ledger'[c] # Unborn
       PROVE  LedgerOK(ledger'[c], issued')
  <2>1. LedgerOK(ledger[c], issued)
    BY <1>8, <1>10 DEF ObservationInv, LedgersOK
  <2>2. Exists(c) /\ ledger[c] \in LedgerState
    BY <1>8, <1>10, LedgerIs
  <2>3. CASE c = ch
    <3>1. \A i \in DOMAIN l.events : l.events[i] <= issued /\ l.events[i] \in Nat
      BY <2>1, <2>3, <1>2, LedgerType DEF LedgerOK
    <3>2. \A i \in DOMAIN l2.events : l2.events[i] <= issued' /\ l2.events[i] \in Nat
      BY <3>1, <1>1, <1>2, <1>3, <1>4
    <3>3. Increasing(l2.events)
      <4>1. Increasing(l.events)
        BY <2>1, <2>3 DEF LedgerOK
      <4>2. SUFFICES ASSUME NEW i \in 1 .. Len(l.events) + 1, NEW j \in 1 .. Len(l.events) + 1, i < j
                     PROVE  l2.events[i] < l2.events[j]
        BY <1>3, <1>4 DEF Increasing
      <4>3. i \in 1 .. Len(l.events) /\ i \in DOMAIN l.events
        BY <4>2, <1>3
      <4>4. CASE j \in 1 .. Len(l.events)
        <5>1. j \in DOMAIN l.events
          BY <4>4, <1>3
        <5>2. l.events[i] < l.events[j]
          BY <4>1, <4>2, <4>3, <5>1 DEF Increasing
        <5> QED
          BY <5>2, <4>3, <4>4, <1>3, <1>4
      <4>5. CASE j = Len(l.events) + 1
        <5>1. l2.events[j] = e /\ l2.events[i] = l.events[i]
          BY <4>3, <4>5, <1>3, <1>4
        <5>2. l.events[i] <= issued /\ l.events[i] \in Nat
          BY <3>1, <4>3
        <5> QED
          BY <5>1, <5>2, <1>2
      <4> QED
        BY <4>2, <4>4, <4>5, <1>3
    <3>4. l2.observed <= Len(l2.events)
      <4>1. l.observed <= Len(l.events) /\ l.observed \in Nat
        BY <2>1, <2>3, <1>2, LedgerType DEF LedgerOK
      <4> QED
        BY <4>1, <1>3, <1>4
    <3>5. LedgerOK(l2, issued')
      BY <2>1, <2>3, <3>2, <3>3, <3>4, <1>4 DEF LedgerOK
    <3> QED
      BY <3>5, <2>3, <1>6
  <2>4. CASE c # ch
    <3>1. \A i \in DOMAIN ledger[c].events : ledger[c].events[i] \in Nat
      BY <2>2, LedgerType
    <3>2. \A i \in DOMAIN ledger[c].events : ledger[c].events[i] <= issued'
      BY <2>1, <3>1, <1>1, <1>2 DEF LedgerOK
    <3> QED
      BY <2>1, <2>4, <3>2, <1>6 DEF LedgerOK
  <2> QED
    BY <2>3, <2>4
<1>11. ASSUME NEW c \in Channel, ledger'[c] # Unborn
       PROVE  LineageOK(ledger[c])'
  <2> DEFINE k == ledger[c]
             k2 == ledger'[c]
             p == ledger[k.parent]
             p2 == ledger'[k.parent]
             n == k.forkSeq
  <2>1. LineageOK(k) /\ Exists(c) /\ Extends(k2, k)
    BY <1>7, <1>8, <1>11 DEF ObservationInv, LedgersOK, Exceeds
  <2>2. k2.parent = k.parent /\ k2.forkSeq = n
    BY <2>1 DEF Extends
  <2>3. SUFFICES ASSUME k.parent # NoParent
                 PROVE  /\ p2 # Unborn /\ n <= Len(k2.events) /\ n <= Len(p2.events)
                        /\ Prefix(p2.events, n) = Prefix(k2.events, n)
    BY <2>2 DEF LineageOK, Exists
  <2>4. /\ Exists(k.parent) /\ n <= Len(k.events) /\ n <= Len(p.events)
        /\ Prefix(p.events, n) = Prefix(k.events, n)
    BY <2>1, <2>3 DEF LineageOK
  <2>5. k.parent \in Channel /\ n \in Nat
    BY <2>1, <2>3, LedgerIs, LedgerType
  <2>6. p2 # Unborn /\ Extends(p2, p)
    BY <2>4, <2>5, <1>7 DEF Exceeds
  <2> HIDE DEF k, k2, p, p2, n
  <2>7. n <= Len(k2.events) /\ Prefix(k2.events, n) = Prefix(k.events, n)
    BY <2>1, <2>4, <2>5, ExtendsFact
  <2>8. n <= Len(p2.events) /\ Prefix(p2.events, n) = Prefix(p.events, n)
    BY <2>4, <2>5, <2>6, ExtendsFact
  <2> QED
    BY <2>4, <2>6, <2>7, <2>8
<1>12. LedgersOK'
  BY <1>10, <1>11 DEF LedgersOK, Exists
<1> QED
  BY <1>1, <1>6, <1>7, <1>9, <1>12

\* A new ledger is typed.
LEMMA NewLedgerType == NewLedger \in LedgerState
<1>1. <<>> \in Seq(Event)
  OBVIOUS
<1> QED
  BY <1>1 DEF NewLedger, LedgerState

\* A clone begins with a prefix of its parent and owes the fork (postClone).
LEMMA LedgersKeptByClone ==
  ASSUME ObservationTypeOK, ObservationInv, NEW f \in ForkPlan, NEW n \in 0 .. MaxEvent, PostClone(f, n)
  PROVE  /\ Exceeds /\ NewbornDue /\ Unrelated
         /\ ledger' \in [Channel -> LedgerState \cup {Unborn}]
         /\ LedgersOK'
<1> DEFINE ch == f.child
           p == f.parent
           l == ledger[p]
           s == Prefix(l.events, n)
           l2 == [NewLedger EXCEPT !.events = s, !.parentObserved = FALSE, !.parent = p, !.forkSeq = n]
<1>1. /\ ledger[ch] = Unborn /\ l # Unborn /\ n \in 0 .. Len(l.events) /\ issued' = issued /\ Unrelated
      /\ ledger' = [ledger EXCEPT ![ch] = l2]
  BY DEF PostClone, Unrelated
<1>2. ch \in Channel /\ p \in Channel /\ p # NoParent /\ ch # p /\ n \in Nat
  BY <1>1, ChannelAssumption
<1>3. l \in LedgerState /\ l.events \in Seq(Event) /\ Len(l.events) \in Nat /\ l.events \in Seq(Nat)
  BY <1>1, <1>2, LedgerType DEF ObservationTypeOK
<1>4. /\ s \in Seq(Event) /\ Len(s) = n /\ DOMAIN s = 1 .. n
      /\ \A i \in 1 .. n : s[i] = l.events[i]
  BY <1>1, <1>3, PrefixFact
<1> HIDE DEF s
<1>5. /\ l2 \in LedgerState /\ l2.events = s /\ l2.parent = p /\ l2.forkSeq = n
      /\ l2.observed = 0 /\ ~l2.rootObserved /\ ~l2.parentObserved
  BY <1>2, <1>4, NewLedgerType DEF NewLedger, LedgerState
<1> HIDE DEF l2
<1>6. /\ ledger' \in [Channel -> LedgerState \cup {Unborn}]
      /\ ledger'[ch] = l2 /\ \A c \in Channel \ {ch} : ledger'[c] = ledger[c]
  BY <1>1, <1>2, <1>5 DEF ObservationTypeOK
<1>7. Exceeds
  <2>1. ASSUME NEW c \in Channel, Exists(c)
        PROVE  ledger'[c] # Unborn /\ Extends(ledger'[c], ledger[c])
    <3>1. c # ch
      BY <1>1, <2>1 DEF Exists
    <3> QED
      BY <2>1, <3>1, <1>6, LedgerIs, ExtendsSelf DEF Exists
  <2> QED
    BY <2>1 DEF Exceeds
<1>8. NewbornDue
  BY <1>1, <1>5, <1>6 DEF NewbornDue, Exists
<1>10. ASSUME NEW c \in Channel, ledger'[c] # Unborn
       PROVE  LedgerOK(ledger'[c], issued')
  <2>1. CASE c = ch
    <3>1. LedgerOK(l, issued)
      BY <1>1, <1>2 DEF ObservationInv, LedgersOK, Exists
    <3>2. Increasing(s)
      BY <3>1, <1>1, <1>3, PrefixIncreasing DEF LedgerOK, s
    <3>3. \A i \in DOMAIN s : s[i] <= issued
      BY <3>1, <1>1, <1>3, <1>4 DEF LedgerOK
    <3>4. LedgerOK(l2, issued)
      BY <3>2, <3>3, <1>2, <1>4, <1>5 DEF LedgerOK
    <3> QED
      BY <3>4, <2>1, <1>1, <1>6
  <2>2. CASE c # ch
    BY <2>2, <1>1, <1>6, <1>10 DEF ObservationInv, LedgersOK, Exists
  <2> QED
    BY <2>1, <2>2
<1>11. ASSUME NEW c \in Channel, ledger'[c] # Unborn
       PROVE  LineageOK(ledger[c])'
  <2>1. CASE c = ch
    <3>1. Prefix(s, n) = s
      BY <1>2, <1>4 DEF Prefix
    <3>2. ledger'[p] = l
      BY <1>2, <1>6
    <3>3. n <= Len(l.events)
      BY <1>1
    <3> QED
      BY <2>1, <3>1, <3>2, <3>3, <1>1, <1>2, <1>4, <1>5, <1>6 DEF LineageOK, Exists, s
  <2>2. CASE c # ch
    <3>1. ledger'[c] = ledger[c] /\ LineageOK(ledger[c]) /\ ledger[c] \in LedgerState
      BY <2>2, <1>6, <1>11, LedgerIs DEF ObservationInv, LedgersOK, Exists
    <3>2. ASSUME ledger[c].parent # NoParent
          PROVE  ledger'[ledger[c].parent] = ledger[ledger[c].parent]
      <4>1. ledger[c].parent \in Channel /\ ledger[c].parent # ch
        BY <3>1, <3>2, <1>1, LedgerType DEF LineageOK, Exists
      <4> QED
        BY <4>1, <1>6
    <3> QED
      BY <3>1, <3>2 DEF LineageOK, Exists
  <2> QED
    BY <2>1, <2>2
<1>12. LedgersOK'
  BY <1>10, <1>11 DEF LedgersOK, Exists
<1> QED
  BY <1>1, <1>6, <1>7, <1>8, <1>12

-----------------------------------------------------------------------------
(* The type invariant *)

\* Every variable has its type at first.
LEMMA ObservationTypeInit == ObservationInit => ObservationTypeOK
<1> SUFFICES ASSUME ObservationInit PROVE ObservationTypeOK
  OBVIOUS
<1>1. ledger \in [Channel -> LedgerState \cup {Unborn}]
  BY NewLedgerType DEF ObservationInit
<1>2. issued \in 0 .. MaxEvent /\ host \in Worker
  BY BoundAssumption DEF ObservationInit, Worker
<1>3. attempt \in [Worker -> [Channel -> AttemptState]]
  BY IdleType DEF ObservationInit
<1>4. waiter \in [Awaited -> WaiterState]
  BY DEF ObservationInit, NotWaiting, WaiterState
<1> QED
  BY <1>1, <1>2, <1>3, <1>4 DEF ObservationInit, ObservationTypeOK, NoWorker

\* An append keeps the types.
LEMMA AppendTyped ==
  ASSUME ObservationTypeOK, ObservationInv, NEW ch \in Channel, AppendDurable(ch)
  PROVE  ObservationTypeOK'
<1>1. /\ issued < MaxEvent /\ issued' = issued + 1
      /\ \E b \in {TRUE, ~Interrupted} : offered' = [offered EXCEPT ![ch] = @ \/ b]
      /\ UNCHANGED <<row, worker, host, attempt, request, graph, waiter>>
  BY DEF AppendDurable
<1>2. ledger' \in [Channel -> LedgerState \cup {Unborn}]
  BY LedgersKept
<1>3. issued' \in 0 .. MaxEvent
  BY <1>1, BoundAssumption DEF ObservationTypeOK
<1>4. offered' \in [Channel -> BOOLEAN]
  BY <1>1, BoundAssumption DEF ObservationTypeOK
<1> QED
  BY <1>1, <1>2, <1>3, <1>4 DEF ObservationTypeOK

\* A clone keeps the types.
LEMMA CloneTyped ==
  ASSUME ObservationTypeOK, ObservationInv, NEW f \in ForkPlan, NEW n \in 0 .. MaxEvent, PostClone(f, n)
  PROVE  ObservationTypeOK'
<1>1. /\ offered' = [offered EXCEPT ![f.child] = TRUE]
      /\ UNCHANGED <<issued, row, worker, host, attempt, request, graph, waiter>>
  BY DEF PostClone
<1>2. ledger' \in [Channel -> LedgerState \cup {Unborn}]
  BY LedgersKeptByClone
<1> QED
  BY <1>1, <1>2 DEF ObservationTypeOK

\* A growing ledger disturbs nothing.
LEMMA Grown ==
  ASSUME ObservationTypeOK, ObservationInv, Exceeds, NewbornDue, Unrelated, LedgersOK',
         ledger' \in [Channel -> LedgerState \cup {Unborn}]
  PROVE  ObservationInv'
<1>1. RowsOK' /\ AttemptsOK'
  BY GrownRows
<1>2. RequestsOK'
  BY GrownRequests
<1>3. ObservedHeld' /\ AnswersHeld' /\ ForksWhole' /\ GraphFollowsLedger' /\ WaitVouches'
  BY GrownHeld
<1> QED
  BY <1>1, <1>2, <1>3 DEF ObservationInv

-----------------------------------------------------------------------------
(* Steps that leave the ledgers, the log authority and its requests alone *)

RowsKept == \A c \in Channel :
  /\ row'[c] = NoRow <=> row[c] = NoRow
  /\ row[c] # NoRow => SameWork(row'[c], row[c])

\* an attempt goes on with its work, or ends
Continues(b, a, c) ==
  \/ b = a \/ b = Idle
  \/ /\ a.phase # "idle" /\ SameWork(b, a)
     /\ b.phase \in {"asked", "answered"} => b.phase = a.phase
     /\ b.phase = "prepared" /\ a.kind = "fork" =>
          a.phase = "prepared" \/ Holds(ledger[c].parent, ledger[c].forkSeq)
AttemptsKept == \A w \in Worker, c \in Channel : Continues(attempt'[w][c], attempt[w][c], c)

WaitersTold == \A c \in Awaited : waiter'[c].state = "resolved" => Holds(c, waiter'[c].sequence)

Still == UNCHANGED <<ledger, issued, graph>>

\* Whether work is due depends on the work only.
LEMMA SameDue ==
  ASSUME NEW r2, NEW r, NEW l, SameWork(r2, r), Due(r, l)
  PROVE  Due(r2, l)
  BY DEF Due, SameWork

\* Whether work is past depends on the work only.
LEMMA SamePast ==
  ASSUME NEW b, NEW a, NEW l, SameWork(b, a), Past(a, l)
  PROVE  Past(b, l)
  BY DEF Past, SameWork

\* Such a step keeps claims due.
LEMMA KeptRows ==
  ASSUME ObservationInv, Still, RowsKept
  PROVE  RowsOK'
<1>1. SUFFICES ASSUME NEW c \in Channel, row'[c] # NoRow
               PROVE  Exists(c) /\ Due(row'[c], ledger[c])
  BY DEF RowsOK, Still, Exists
<1>2. row[c] # NoRow /\ SameWork(row'[c], row[c])
  BY <1>1 DEF RowsKept
<1>3. Exists(c) /\ Due(row[c], ledger[c])
  BY <1>2 DEF ObservationInv, RowsOK
<1> QED
  BY <1>2, <1>3, SameDue

\* Such a step keeps attempts in line with their claim.
LEMMA KeptAttempts ==
  ASSUME ObservationInv, Still, RowsKept, AttemptsKept
  PROVE  AttemptsOK'
<1>1. SUFFICES ASSUME NEW w \in Worker, NEW c \in Channel, attempt'[w][c].phase # "idle"
               PROVE  /\ Exists(c)
                      /\ attempt'[w][c].kind = "fork" => ledger[c].parent # NoParent
                      /\ \/ Past(attempt'[w][c], ledger[c])
                         \/ row'[c] # NoRow /\ SameWork(attempt'[w][c], row'[c])
  BY DEF AttemptsOK, AttemptOK, Still, Exists
<1>2. PICK b : b = attempt'[w][c]
  OBVIOUS
<1>3. PICK a : a = attempt[w][c]
  OBVIOUS
<1>4. a.phase # "idle" /\ SameWork(b, a)
  <2>1. Continues(b, a, c)
    BY <1>2, <1>3 DEF AttemptsKept
  <2>2. b.phase # "idle" /\ b # Idle
    BY <1>1, <1>2, IdleType
  <2> QED
    BY <2>1, <2>2 DEF Continues, SameWork
<1>5. /\ Exists(c) /\ (a.kind = "fork" => ledger[c].parent # NoParent)
      /\ Past(a, ledger[c]) \/ (row[c] # NoRow /\ SameWork(a, row[c]))
  BY <1>3, <1>4 DEF ObservationInv, AttemptsOK, AttemptOK
<1>6. row[c] # NoRow => row'[c] # NoRow /\ SameWork(row'[c], row[c])
  BY DEF RowsKept
<1>7. Past(b, ledger[c]) \/ (row'[c] # NoRow /\ SameWork(b, row'[c]))
  BY <1>4, <1>5, <1>6, SamePast DEF SameWork
<1> QED
  BY <1>2, <1>4, <1>5, <1>7 DEF SameWork

\* Such a step keeps the requests under way.
LEMMA KeptRequests ==
  ASSUME ObservationTypeOK, ObservationInv, Still, request' = request, AttemptsKept
  PROVE  RequestsOK'
<1>1. SUFFICES ASSUME NEW w \in Worker, NEW c \in Channel, request[w][c] # NoRequest
               PROVE  /\ RequestOK(request[w][c], c)
                      /\ attempt'[w][c].phase = "asked" =>
                           /\ request[w][c].through = attempt'[w][c].through
                           /\ request[w][c].kind = attempt'[w][c].kind
  BY DEF RequestsOK, RequestOK, EventsOf, Exists, Still
<1>2. /\ RequestOK(request[w][c], c)
      /\ attempt[w][c].phase = "asked" =>
           /\ request[w][c].through = attempt[w][c].through
           /\ request[w][c].kind = attempt[w][c].kind
  BY <1>1 DEF ObservationInv, RequestsOK
<1>3. Continues(attempt'[w][c], attempt[w][c], c)
  BY DEF AttemptsKept
<1> QED
  BY <1>2, <1>3, IdleType DEF Continues, SameWork

\* While the logs stay, the same is held.
LEMMA StillHolds ==
  ASSUME Still, NEW c, NEW n
  PROVE  Holds(c, n)' <=> graph[c] # Absent /\ n' <= Len(EventsOf(graph, c))
  BY DEF Still, Holds, EventsOf

\* Such a step keeps answers and waits true.
LEMMA KeptAnswers ==
  ASSUME ObservationInv, Still, AttemptsKept, WaitersTold
  PROVE  AnswersHeld' /\ WaitVouches'
<1>1. ASSUME NEW w \in Worker, NEW c \in Channel, attempt'[w][c].phase = "answered"
      PROVE  Holds(c, attempt'[w][c].through)
  <2>1. Continues(attempt'[w][c], attempt[w][c], c)
    BY DEF AttemptsKept
  <2>2. attempt[w][c].phase = "answered" /\ attempt'[w][c].through = attempt[w][c].through
    BY <1>1, <2>1, IdleType DEF Continues, SameWork
  <2> QED
    BY <2>2 DEF ObservationInv, AnswersHeld
<1>2. ASSUME NEW w \in Worker, NEW c \in Channel, attempt'[w][c].kind = "fork",
             attempt'[w][c].phase \in {"prepared", "asked", "answered"}
      PROVE  Holds(ledger[c].parent, ledger[c].forkSeq)
  <2>1. Continues(attempt'[w][c], attempt[w][c], c)
    BY DEF AttemptsKept
  <2>2. attempt'[w][c] # Idle
    BY <1>2, IdleType
  <2>3. attempt[w][c].kind = "fork"
    BY <1>2, <2>1, <2>2 DEF Continues, SameWork
  <2>4. \/ attempt[w][c].phase \in {"prepared", "asked", "answered"}
        \/ Holds(ledger[c].parent, ledger[c].forkSeq)
    BY <1>2, <2>1, <2>2, <2>3 DEF Continues
  <2> QED
    BY <2>3, <2>4 DEF ObservationInv, WaitVouches
<1> QED
  BY <1>1, <1>2 DEF Still, Holds, EventsOf, AnswersHeld, WaitVouches, WaitersTold

\* Such a step disturbs nothing.
LEMMA Quiet ==
  ASSUME ObservationTypeOK, ObservationInv, Still, request' = request, RowsKept, AttemptsKept, WaitersTold
  PROVE  ObservationInv'
<1>1. LedgersOK' /\ ObservedHeld' /\ ForksWhole' /\ GraphFollowsLedger'
  <2>1. LedgersOK /\ ObservedHeld /\ ForksWhole /\ GraphFollowsLedger
    BY DEF ObservationInv
  <2>2. ledger' = ledger /\ graph' = graph /\ issued' = issued
    BY DEF Still
  <2>3. LedgersOK'
    BY <2>1, <2>2 DEF LedgersOK, LedgerOK, LineageOK, Exists
  <2> QED
    BY <2>1, <2>2, <2>3 DEF ObservedHeld, ForksWhole, GraphFollowsLedger, Exists, EventsOf
<1> QED
  BY <1>1, KeptRows, KeptAttempts, KeptRequests, KeptAnswers DEF ObservationInv

-----------------------------------------------------------------------------
(* The quiet actions *)

Vouched(l, c) == (l.rootObserved => graph[c] # Absent) /\ l.observed <= Len(EventsOf(graph, c))

\* What a ledger counts as observed is held.
LEMMA LedgerVouched ==
  ASSUME ObservationInv, NEW c \in Channel, Exists(c)
  PROVE  Vouched(ledger[c], c)
  BY DEF ObservationInv, ObservedHeld, Vouched

\* A verdict that resolves is true.
LEMMA VerdictTrue ==
  ASSUME ObservationTypeOK, NEW c \in Channel, NEW l, l.observed \in Nat, Vouched(l, c), NEW r,
         NEW n \in Nat, Verdict(l, r, n) = "resolved"
  PROVE  Holds(c, n)
<1>1. l.rootObserved /\ l.observed >= n
  BY VerdictType
<1>2. Len(EventsOf(graph, c)) \in Nat
  BY HeldType
<1> QED
  BY <1>1, <1>2 DEF Vouched, Holds

\* A wait that is resolved is true.
LEMMA WaitersTrue ==
  ASSUME ObservationInv, NEW c \in Awaited, waiter[c].state = "resolved"
  PROVE  Holds(c, waiter[c].sequence)
  BY DEF ObservationInv, WaitVouches

\* Attempts that do not change go on.
LEMMA SameAttempts ==
  ASSUME attempt' = attempt
  PROVE  AttemptsKept
  BY DEF AttemptsKept, Continues

\* Claims that do not change keep their work.
LEMMA SameRows ==
  ASSUME row' = row
  PROVE  RowsKept
  BY DEF RowsKept, SameWork

\* Waits that do not change stay true.
LEMMA SameWaiters ==
  ASSUME ObservationInv, waiter' = waiter
  PROVE  WaitersTold
  BY WaitersTrue DEF WaitersTold

Correct == ObservationTypeOK /\ ObservationInv

\* waitObservedThrough keeps the invariant.
LEMMA WaitKeeps ==
  ASSUME Correct, NEW ch \in Awaited, NEW n \in 0 .. MaxEvent, WaitObservedThrough(ch, n)
  PROVE  Correct'
<1> DEFINE v == Verdict(ledger[ch], row[ch], n)
           t == Waiter(n, v)
<1>1. /\ ledger[ch] # Unborn /\ waiter' = [waiter EXCEPT ![ch] = t]
      /\ offered' = [offered EXCEPT ![ch] = @ \/ ObservationReady(ledger[ch], row[ch])]
      /\ UNCHANGED <<ledger, issued, row, worker, host, attempt, request, graph>>
  BY DEF WaitObservedThrough
<1>2. ch \in Channel /\ n \in Nat
  BY ChannelAssumption, BoundAssumption
<1>3. t \in WaiterState /\ (t.state = "resolved" => v = "resolved" /\ t.sequence = n)
  BY <1>2, VerdictType, WaiterType
<1>4. ledger[ch] \in LedgerState /\ Vouched(ledger[ch], ch) /\ ledger[ch].observed \in Nat
  BY <1>1, <1>2, LedgerIs, LedgerVouched, LedgerType DEF Correct, Exists
<1>5. t.state = "resolved" => Holds(ch, t.sequence)
  BY <1>2, <1>3, <1>4, VerdictTrue DEF Correct
<1> HIDE DEF t
<1>6. waiter' \in [Awaited -> WaiterState]
      /\ \A c \in Awaited : waiter'[c] = IF c = ch THEN t ELSE waiter[c]
  BY <1>1, <1>3 DEF Correct, ObservationTypeOK
<1>7. offered' \in [Channel -> BOOLEAN]
  <2> DEFINE ready == ObservationReady(ledger[ch], row[ch])
  <2>1. \A b \in BOOLEAN : (b \/ ready) \in BOOLEAN
    OBVIOUS
  <2> QED
    BY <1>1, <1>2, <2>1 DEF Correct, ObservationTypeOK
<1>8. ObservationTypeOK'
  BY <1>1, <1>6, <1>7 DEF Correct, ObservationTypeOK
<1>9. WaitersTold
  BY <1>5, <1>6, WaitersTrue DEF WaitersTold, Correct
<1>10. Still /\ RowsKept /\ AttemptsKept /\ request' = request
  BY <1>1, SameAttempts, SameRows DEF Still
<1>11. ObservationInv'
  BY <1>9, <1>10, Quiet DEF Correct
<1> QED
  BY <1>8, <1>11 DEF Correct

\* Aborting a wait keeps the invariant.
LEMMA AbortKeeps ==
  ASSUME Correct, NEW ch \in Awaited, AbortWait(ch)
  PROVE  Correct'
<1>1. /\ waiter' = [waiter EXCEPT ![ch] = NotWaiting]
      /\ UNCHANGED <<ledger, issued, row, worker, offered, host, attempt, request, graph>>
  BY DEF AbortWait
<1>2. NotWaiting \in WaiterState /\ NotWaiting.state # "resolved"
  BY DEF NotWaiting, WaiterState
<1>3. waiter' \in [Awaited -> WaiterState]
      /\ \A c \in Awaited : waiter'[c] = IF c = ch THEN NotWaiting ELSE waiter[c]
  BY <1>1, <1>2 DEF Correct, ObservationTypeOK
<1>4. ObservationTypeOK'
  BY <1>1, <1>3 DEF Correct, ObservationTypeOK
<1>5. WaitersTold
  BY <1>2, <1>3, WaitersTrue DEF WaitersTold, Correct
<1>6. Still /\ RowsKept /\ AttemptsKept /\ request' = request
  BY <1>1, SameAttempts, SameRows DEF Still
<1>7. ObservationInv'
  BY <1>5, <1>6, Quiet DEF Correct
<1> QED
  BY <1>4, <1>7 DEF Correct

\* A new driver keeps the invariant.
LEMMA RestartKeeps ==
  ASSUME Correct, HostRestart
  PROVE  Correct'
<1>1. /\ host < MaxWorker /\ host' = host + 1
      /\ offered' = [ch \in Channel |-> ledger[ch] # Unborn]
      /\ UNCHANGED <<ledger, issued, row, worker, attempt, request, graph, waiter>>
  BY DEF HostRestart
<1>2. host' \in Worker
  BY <1>1, BoundAssumption DEF Correct, ObservationTypeOK, Worker
<1>3. ObservationTypeOK'
  BY <1>1, <1>2 DEF Correct, ObservationTypeOK
<1>4. Still /\ RowsKept /\ AttemptsKept /\ request' = request /\ WaitersTold
  BY <1>1, SameAttempts, SameRows, SameWaiters DEF Still, Correct
<1>5. ObservationInv'
  BY <1>4, Quiet DEF Correct
<1> QED
  BY <1>3, <1>5 DEF Correct

\* Adopting a channel keeps the invariant (adoptDurableWorkWorker).
LEMMA AdoptKeeps ==
  ASSUME Correct, NEW ch \in Channel, AdoptDurableWorkWorker(ch)
  PROVE  Correct'
<1>1. /\ worker' = [worker EXCEPT ![ch] = host] /\ row' = [row EXCEPT ![ch] = Released(ch)]
      /\ UNCHANGED <<ledger, issued, offered, host, attempt, request, graph, waiter>>
  BY DEF AdoptDurableWorkWorker
<1>2. /\ Released(ch) \in RowState \cup {NoRow}
      /\ Released(ch) = NoRow <=> row[ch] = NoRow
      /\ row[ch] # NoRow => SameWork(Released(ch), row[ch])
  BY ReleasedFact DEF Correct
<1>3. row' \in [Channel -> RowState \cup {NoRow}]
      /\ \A c \in Channel : row'[c] = IF c = ch THEN Released(ch) ELSE row[c]
  BY <1>1, <1>2 DEF Correct, ObservationTypeOK
<1>4. ObservationTypeOK'
  BY <1>1, <1>3 DEF Correct, ObservationTypeOK
<1>5. RowsKept
  BY <1>2, <1>3 DEF RowsKept, SameWork
<1>6. Still /\ AttemptsKept /\ request' = request /\ WaitersTold
  BY <1>1, SameAttempts, SameWaiters DEF Still, Correct
<1>7. ObservationInv'
  BY <1>5, <1>6, Quiet DEF Correct
<1> QED
  BY <1>4, <1>7 DEF Correct

\* An eviction keeps the invariant.
LEMMA EvictKeeps ==
  ASSUME Correct, NEW ch \in Channel, Evict(ch)
  PROVE  Correct'
<1>1. /\ UNCHANGED <<ledger, issued, row, worker, offered, host, request, graph>>
      /\ waiter' = [c \in Awaited |-> IF c = ch /\ waiter[c].state = "open"
                                        THEN NotWaiting ELSE waiter[c]]
  BY DEF Evict
<1>2. \A w \in Worker, c \in Channel :
        attempt'[w][c] = IF \/ c = ch /\ attempt[w][c].phase \in {"waiting", "asked"}
                            \/ attempt[w][c].phase = "waiting" /\ ledger[c].parent = ch
                           THEN [attempt[w][c] EXCEPT !.phase = "refused"]
                           ELSE attempt[w][c]
  BY DEF Evict
<1>3. NotWaiting \in WaiterState /\ NotWaiting.state # "resolved"
  BY DEF NotWaiting, WaiterState
<1>4. waiter' \in [Awaited -> WaiterState] /\ WaitersTold
  BY <1>1, <1>3, WaitersTrue DEF Correct, ObservationTypeOK, WaitersTold
<1>5. ASSUME NEW w \in Worker, NEW c \in Channel
      PROVE  attempt'[w][c] \in AttemptState /\ Continues(attempt'[w][c], attempt[w][c], c)
  <2>1. PICK a : a = attempt[w][c]
    OBVIOUS
  <2>2. a \in AttemptState
    BY <2>1, AttemptIs DEF Correct
  <2>3. CASE attempt'[w][c] = a
    BY <2>1, <2>2, <2>3 DEF Continues
  <2>4. CASE attempt'[w][c] # a
    <3>1. a.phase # "idle" /\ attempt'[w][c] = [a EXCEPT !.phase = "refused"]
      BY <1>2, <2>1, <2>4
    <3>2. "refused" \in Phase
      BY DEF Phase
    <3>3. PICK b : b = [a EXCEPT !.phase = "refused"]
      OBVIOUS
    <3>4. b \in AttemptState /\ b.phase = "refused" /\ SameWork(b, a)
      BY <2>2, <3>2, <3>3, PhaseFact
    <3> QED
      BY <2>1, <3>1, <3>3, <3>4 DEF Continues
  <2> QED
    BY <2>3, <2>4
<1>6. attempt' \in [Worker -> [Channel -> AttemptState]]
  <2>1. attempt' = [w \in Worker |-> [c \in Channel |-> attempt'[w][c]]]
    BY DEF Evict
  <2> QED
    BY <1>5, <2>1
<1>7. ObservationTypeOK'
  BY <1>1, <1>4, <1>6 DEF Correct, ObservationTypeOK
<1>8. AttemptsKept
  BY <1>5 DEF AttemptsKept
<1>9. Still /\ RowsKept /\ request' = request
  BY <1>1, SameRows DEF Still
<1>10. ObservationInv'
  BY <1>4, <1>8, <1>9, Quiet DEF Correct
<1> QED
  BY <1>7, <1>10 DEF Correct

-----------------------------------------------------------------------------
(* The actions that move one attempt *)

\* Moving one attempt to a phase leaves its work and the other attempts alone.
LEMMA GoToFact ==
  ASSUME ObservationTypeOK, NEW w \in Worker, NEW ch \in Channel, NEW p \in Phase, GoTo(w, ch, p)
  PROVE  /\ attempt' \in [Worker -> [Channel -> AttemptState]]
         /\ attempt'[w][ch].phase = p /\ SameWork(attempt'[w][ch], attempt[w][ch])
         /\ \A v \in Worker, c \in Channel :
              <<v, c>> # <<w, ch>> => attempt'[v][c] = attempt[v][c]
<1>1. PICK a : a = attempt[w][ch]
  OBVIOUS
<1>2. PICK b : b = [a EXCEPT !.phase = p]
  OBVIOUS
<1>3. a \in AttemptState /\ attempt \in [Worker -> [Channel -> AttemptState]]
  BY <1>1 DEF ObservationTypeOK
<1>4. b \in AttemptState /\ b.phase = p /\ SameWork(b, a)
  BY <1>2, <1>3, PhaseFact
<1>5. attempt' = [attempt EXCEPT ![w] = [attempt[w] EXCEPT ![ch] = b]]
  BY <1>1, <1>2, <1>3 DEF GoTo
<1>6. attempt'[w] = [attempt[w] EXCEPT ![ch] = b] /\ \A v \in Worker \ {w} : attempt'[v] = attempt[v]
  BY <1>3, <1>5
<1>7. attempt' \in [Worker -> [Channel -> AttemptState]]
  BY <1>3, <1>4, <1>5
<1>8. attempt'[w][ch] = b /\ \A c \in Channel \ {ch} : attempt'[w][c] = attempt[w][c]
  BY <1>3, <1>6
<1>9. ASSUME NEW v \in Worker, NEW c \in Channel, <<v, c>> # <<w, ch>>
      PROVE  attempt'[v][c] = attempt[v][c]
  BY <1>6, <1>8, <1>9
<1> QED
  BY <1>1, <1>4, <1>7, <1>8, <1>9

\* Whoever holds the lease has work that is due.
LEMMA LeasesFact ==
  ASSUME Correct, NEW w \in Worker, NEW ch \in Channel, Leases(w, ch),
         attempt[w][ch].phase # "idle"
  PROVE  /\ row[ch] # NoRow /\ Exists(ch) /\ Due(row[ch], ledger[ch])
         /\ SameWork(attempt[w][ch], row[ch])
         /\ attempt[w][ch].kind = "fork" => ledger[ch].parent # NoParent
<1> DEFINE a == attempt[w][ch]
           r == row[ch]
           l == ledger[ch]
<1>1. r # NoRow /\ a.kind = r.kind /\ a.first = r.first
  BY DEF Leases, SameClaim
<1>2. Exists(ch) /\ Due(r, l)
  BY <1>1 DEF Correct, ObservationInv, RowsOK
<1>3. (a.kind = "fork" => l.parent # NoParent) /\ (Past(a, l) \/ SameWork(a, r))
  BY DEF Correct, ObservationInv, AttemptsOK, AttemptOK
<1>4. l.observed \in Nat
  BY <1>2, LedgerIs, LedgerType DEF Correct
<1>5. ~Past(a, l)
  <2> HIDE DEF a, r, l
  <2>1. CASE r.kind = "append"
    BY <1>1, <1>2, <1>4, <2>1 DEF Due, Past
  <2>2. CASE r.kind # "append"
    BY <1>1, <1>2, <2>2 DEF Due, Past
  <2> QED
    BY <2>1, <2>2
<1> QED
  BY <1>1, <1>2, <1>3, <1>5

\* Moving one attempt to a phase without a request or an answer keeps the invariant.
LEMMA MoveKeeps ==
  ASSUME Correct, NEW w \in Worker, NEW ch \in Channel, NEW p \in Phase, GoTo(w, ch, p),
         attempt[w][ch].phase # "idle", p \notin {"asked", "answered"},
         p = "prepared" => Holds(ledger[ch].parent, ledger[ch].forkSeq),
         UNCHANGED <<ledger, issued, row, worker, host, request, graph, waiter>>,
         offered' \in [Channel -> BOOLEAN]
  PROVE  Correct'
<1>1. /\ attempt' \in [Worker -> [Channel -> AttemptState]]
      /\ attempt'[w][ch].phase = p /\ SameWork(attempt'[w][ch], attempt[w][ch])
      /\ \A v \in Worker, c \in Channel :
           <<v, c>> # <<w, ch>> => attempt'[v][c] = attempt[v][c]
  BY GoToFact DEF Correct
<1>2. ObservationTypeOK'
  BY <1>1 DEF Correct, ObservationTypeOK
<1>3. ASSUME NEW v \in Worker, NEW c \in Channel
      PROVE  Continues(attempt'[v][c], attempt[v][c], c)
  <2>1. CASE <<v, c>> = <<w, ch>>
    <3>1. v = w /\ c = ch
      BY <2>1
    <3> QED
      BY <3>1, <1>1 DEF Continues
  <2>2. CASE <<v, c>> # <<w, ch>>
    BY <2>2, <1>1 DEF Continues
  <2> QED
    BY <2>1, <2>2
<1>4. AttemptsKept
  BY <1>3 DEF AttemptsKept
<1>5. Still /\ RowsKept /\ request' = request /\ WaitersTold
  BY SameRows, SameWaiters DEF Still, Correct
<1>6. ObservationInv'
  BY <1>4, <1>5, Quiet DEF Correct
<1> QED
  BY <1>2, <1>6 DEF Correct

\* Losing an answer keeps the invariant.
LEMMA LoseKeeps ==
  ASSUME Correct, NEW w \in Worker, NEW ch \in Channel, LoseAnswer(w, ch)
  PROVE  Correct'
<1>1. /\ attempt[w][ch].phase = "asked" /\ GoTo(w, ch, "refused") /\ "refused" \in Phase
      /\ UNCHANGED <<ledger, issued, row, worker, offered, host, request, graph, waiter>>
  BY DEF LoseAnswer, Phase
<1>2. offered' \in [Channel -> BOOLEAN]
  BY <1>1 DEF Correct, ObservationTypeOK
<1> QED
  BY <1>1, <1>2, MoveKeeps

\* Preparing a fork keeps the invariant (prepareChannelObservationClaim).
LEMMA PrepareClaimKeeps ==
  ASSUME Correct, NEW w \in Worker, NEW ch \in Channel, PrepareClaim(w, ch)
  PROVE  Correct'
<1> DEFINE p == ledger[ch].parent
           n == ledger[ch].forkSeq
           v == Verdict(ledger[p], row[p], n)
           ready == ObservationReady(ledger[p], row[p])
<1>1. /\ attempt[w][ch].phase = "claimed" /\ attempt[w][ch].kind = "fork"
      /\ UNCHANGED <<ledger, issued, row, worker, host, request, graph, waiter>>
  BY DEF PrepareClaim
<1>2. CASE Leases(w, ch)
  <2>1. GoTo(w, ch, PreparedBy(ch, v)) /\ offered' = [offered EXCEPT ![p] = @ \/ ready]
    BY <1>2 DEF PrepareClaim
  <2>2. PreparedBy(ch, v) \in {"waiting", "prepared", "refused"}
        /\ (PreparedBy(ch, v) = "prepared" => v = "resolved")
    BY PreparedType
  <2>3. Exists(ch) /\ p # NoParent
    BY <1>1, <1>2, LeasesFact
  <2>4. p \in Channel /\ n \in Nat /\ Exists(p)
    <3>1. LineageOK(ledger[ch]) /\ ledger[ch] \in LedgerState
      BY <2>3, LedgerIs DEF Correct, ObservationInv, LedgersOK
    <3> QED
      BY <2>3, <3>1, LedgerType DEF LineageOK
  <2>5. ledger[p].observed \in Nat /\ Vouched(ledger[p], p)
    BY <2>4, LedgerIs, LedgerType, LedgerVouched DEF Correct
  <2>6. v = "resolved" => Holds(p, n)
    BY <2>4, <2>5, VerdictTrue DEF Correct
  <2>7. PreparedBy(ch, v) \in Phase
    BY <2>2 DEF Phase
  <2>8. offered' \in [Channel -> BOOLEAN]
    <3>1. \A b \in BOOLEAN : (b \/ ready) \in BOOLEAN
      OBVIOUS
    <3> QED
      BY <2>1, <2>4, <3>1 DEF Correct, ObservationTypeOK
  <2> HIDE DEF v
  <2>9. PICK q \in Phase : q = PreparedBy(ch, v)
    BY <2>7
  <2>10. GoTo(w, ch, q) /\ q \notin {"asked", "answered"} /\ (q = "prepared" => Holds(p, n))
    BY <2>1, <2>2, <2>6, <2>9
  <2> QED
    BY <1>1, <2>8, <2>10, MoveKeeps
<1>3. CASE ~Leases(w, ch)
  <2>1. GoTo(w, ch, "refused") /\ UNCHANGED offered /\ "refused" \in Phase
    BY <1>3 DEF PrepareClaim, Phase
  <2>2. offered' \in [Channel -> BOOLEAN]
    BY <2>1 DEF Correct, ObservationTypeOK
  <2> QED
    BY <1>1, <2>1, <2>2, MoveKeeps
<1> QED
  BY <1>2, <1>3

-----------------------------------------------------------------------------
(* Claiming what is due *)

Dues(l) == CHOOSE o \in PeekObservation(l) : TRUE
Has(o, kind, first, through) == o.kind = kind /\ o.first = first /\ o.through = through

\* What is to be observed next is a fork, the root, or events that follow.
LEMMA PeekFact ==
  ASSUME NEW l \in LedgerState, PeekObservation(l) # {}
  PROVE  /\ Dues(l) \in [kind : Kind, first : Nat, through : Nat]
         /\ \/ ~l.parentObserved /\ Has(Dues(l), "fork", 0, l.forkSeq)
            \/ l.parentObserved /\ ~l.rootObserved /\ l.events = <<>> /\ Has(Dues(l), "root", 0, 0)
            \/ /\ l.parentObserved /\ (l.rootObserved \/ l.events # <<>>)
               /\ Len(l.events) > l.observed
               /\ \E n \in l.observed + 1 .. Len(l.events) : Has(Dues(l), "append", l.observed + 1, n)
<1>1. /\ l.events \in Seq(Event) /\ Len(l.events) \in Nat /\ l.observed \in Nat /\ l.forkSeq \in Nat
      /\ l.rootObserved \in BOOLEAN /\ l.parentObserved \in BOOLEAN
  BY LedgerType
<1>2. CASE ~l.parentObserved
  <2> DEFINE o == [kind |-> "fork", first |-> 0, through |-> l.forkSeq]
  <2>1. PeekObservation(l) = {o}
    BY <1>2 DEF PeekObservation
  <2>2. Dues(l) = o
    BY <2>1 DEF Dues
  <2>3. o \in [kind : Kind, first : Nat, through : Nat] /\ Has(o, "fork", 0, l.forkSeq)
    BY <1>1 DEF Has, Kind
  <2> QED
    BY <1>2, <2>2, <2>3
<1>3. CASE l.parentObserved /\ ~l.rootObserved /\ l.events = <<>>
  <2> DEFINE o == [kind |-> "root", first |-> 0, through |-> 0]
  <2>1. PeekObservation(l) = {o}
    BY <1>3 DEF PeekObservation
  <2>2. Dues(l) = o
    BY <2>1 DEF Dues
  <2>3. o \in [kind : Kind, first : Nat, through : Nat] /\ Has(o, "root", 0, 0)
    BY <1>1 DEF Has, Kind
  <2> QED
    BY <1>3, <2>2, <2>3
<1>4. CASE l.parentObserved /\ ~(~l.rootObserved /\ l.events = <<>>)
  <2> DEFINE n == IF Len(l.events) < l.observed + PageLimit THEN Len(l.events)
                  ELSE l.observed + PageLimit
             o == [kind |-> "append", first |-> l.observed + 1, through |-> n]
  <2>1. Len(l.events) > l.observed /\ PeekObservation(l) = {o}
    BY <1>4 DEF PeekObservation
  <2>2. Dues(l) = o
    BY <2>1 DEF Dues
  <2>3. n \in l.observed + 1 .. Len(l.events) /\ n \in Nat /\ l.observed + 1 \in Nat
    BY <1>1, <2>1, BoundAssumption
  <2> HIDE DEF n
  <2>4. /\ o \in [kind : Kind, first : Nat, through : Nat]
        /\ Has(o, "append", l.observed + 1, n)
    BY <2>3 DEF Has, Kind
  <2> QED
    BY <1>4, <2>1, <2>2, <2>3, <2>4
<1> QED
  BY <1>2, <1>3, <1>4

\* A claim is due, and one that is taken again has the work it had.
LEMMA ClaimedFact ==
  ASSUME Correct, NEW ch \in Channel, Exists(ch), ObservationReady(ledger[ch], Released(ch)),
         NEW o, o = Observation(ch), NEW r, SameWork(r, o)
  PROVE  /\ o \in [kind : Kind, first : Nat, through : Nat]
         /\ Due(r, ledger[ch])
         /\ row[ch] # NoRow => SameWork(r, row[ch])
         /\ o.kind = "fork" => ledger[ch].parent # NoParent
<1> DEFINE l == ledger[ch]
           d == Dues(l)
<1>1. l \in LedgerState /\ PeekObservation(l) # {}
  BY LedgerIs DEF Correct, ObservationReady
<1>2. d \in [kind : Kind, first : Nat, through : Nat]
  BY <1>1, PeekFact
<1>3. \/ ~l.parentObserved /\ Has(d, "fork", 0, l.forkSeq)
      \/ l.parentObserved /\ ~l.rootObserved /\ l.events = <<>> /\ Has(d, "root", 0, 0)
      \/ /\ l.parentObserved /\ (l.rootObserved \/ l.events # <<>>)
         /\ Len(l.events) > l.observed
         /\ \E n \in l.observed + 1 .. Len(l.events) : Has(d, "append", l.observed + 1, n)
  BY <1>1, PeekFact
<1>4. LedgerOK(l, issued) /\ l.observed \in Nat /\ Len(l.events) \in Nat
  BY <1>1, LedgerType DEF Correct, ObservationInv, LedgersOK
<1> HIDE DEF l, d
<1>5. CASE row[ch] = NoRow
  <2>1. o = d
    BY <1>5 DEF Observation, Dues, d, l
  <2>2. Due(d, l)
    <3>1. CASE d.kind = "append"
      <4>1. /\ l.parentObserved /\ (l.rootObserved \/ l.events # <<>>)
            /\ \E n \in l.observed + 1 .. Len(l.events) : Has(d, "append", l.observed + 1, n)
        BY <1>3, <3>1 DEF Has
      <4>2. PICK n \in l.observed + 1 .. Len(l.events) : Has(d, "append", l.observed + 1, n)
        BY <4>1
      <4>3. l.observed + 1 <= n /\ n <= Len(l.events)
        BY <1>4, <4>2
      <4> QED
        BY <4>1, <4>2, <4>3 DEF Has, Due
    <3>2. CASE d.kind # "append"
      BY <1>3, <3>2 DEF Has, Due
    <3> QED
      BY <3>1, <3>2
  <2>3. o.kind = "fork" => l.parent # NoParent
    BY <1>3, <1>4, <2>1 DEF Has, LedgerOK
  <2> QED
    BY <1>2, <1>5, <2>1, <2>2, <2>3, SameDue DEF l
<1>6. CASE row[ch] # NoRow
  <2>1. PICK q : q = row[ch]
    OBVIOUS
  <2>2. q \in RowState /\ Due(q, l)
    BY <1>6, <2>1, RowIs DEF Correct, ObservationInv, RowsOK, l
  <2>3. CASE q.kind = "root"
    <3>1. o = [kind |-> "root", first |-> 0, through |-> 0]
      BY <1>6, <2>1, <2>3 DEF Observation
    <3>2. SameWork(o, q) /\ o \in [kind : Kind, first : Nat, through : Nat] /\ o.kind = "root"
      BY <2>2, <2>3, <3>1 DEF Due, SameWork, Kind
    <3>3. SameWork(r, q)
      BY <3>2 DEF SameWork
    <3> QED
      BY <2>1, <2>2, <3>2, <3>3, SameDue DEF l
  <2>4. CASE q.kind # "root"
    <3>1. o = [d EXCEPT !.through = q.through]
      BY <1>6, <2>1, <2>4 DEF Observation, Dues, d, l
    <3>2. q.through \in Nat
      BY <2>2 DEF RowState
    <3>3. /\ o \in [kind : Kind, first : Nat, through : Nat]
          /\ o.kind = d.kind /\ o.first = d.first /\ o.through = q.through
      BY <1>2, <3>1, <3>2
    <3>4. d.kind = q.kind /\ d.first = q.first
      <4>1. CASE q.kind = "fork"
        BY <1>3, <2>2, <4>1 DEF Due, Has
      <4>2. CASE q.kind = "append"
        BY <1>3, <2>2, <4>2 DEF Due, Has
      <4> QED
        BY <2>2, <2>4, <4>1, <4>2 DEF RowState, Kind
    <3>5. SameWork(r, q)
      BY <3>3, <3>4 DEF SameWork
    <3>6. o.kind = "fork" => l.parent # NoParent
      BY <1>4, <2>2, <3>3, <3>4 DEF Due, LedgerOK
    <3> QED
      BY <2>1, <2>2, <3>3, <3>5, <3>6, SameDue DEF l
  <2> QED
    BY <2>3, <2>4
<1> QED
  BY <1>5, <1>6

\* Claiming keeps the invariant (claimObservation).
LEMMA ClaimKeeps ==
  ASSUME Correct, NEW ch \in Channel, ClaimObservation(ch)
  PROVE  Correct'
<1> DEFINE gen == IF row[ch] = NoRow THEN 1 ELSE row[ch].gen + 1
           claim(o) == [kind |-> o.kind, first |-> o.first, through |-> o.through, gen |-> gen,
                        disposition |-> "leased", owner |-> host]
           start(o) == [kind |-> o.kind, first |-> o.first, through |-> o.through, gen |-> gen,
                        phase |-> "claimed"]
<1>1. PICK o : o = Observation(ch)
  OBVIOUS
<1>2. /\ ledger[ch] # Unborn /\ attempt[host][ch].phase = "idle"
      /\ ObservationReady(ledger[ch], Released(ch))
      /\ worker' = [worker EXCEPT ![ch] = host]
      /\ row' = [row EXCEPT ![ch] = claim(o)]
      /\ attempt' = [attempt EXCEPT ![host][ch] = start(o)]
      /\ UNCHANGED <<ledger, issued, offered, host, request, graph, waiter>>
  BY <1>1 DEF ClaimObservation
<1>3. PICK r : r = claim(o)
  OBVIOUS
<1>4. PICK a : a = start(o)
  OBVIOUS
<1>5. SameWork(r, o) /\ SameWork(a, r) /\ a.phase = "claimed" /\ a.kind = o.kind
  BY <1>3, <1>4 DEF SameWork
<1>6. Exists(ch)
  BY <1>2 DEF Exists
<1>7. /\ o \in [kind : Kind, first : Nat, through : Nat]
      /\ Due(r, ledger[ch])
      /\ row[ch] # NoRow => SameWork(r, row[ch])
      /\ o.kind = "fork" => ledger[ch].parent # NoParent
  BY <1>1, <1>2, <1>5, <1>6, ClaimedFact
<1>8. gen \in Nat
  <2>1. CASE row[ch] # NoRow
    BY <2>1, RowIs DEF RowState, Correct
  <2> QED
    BY <2>1
<1> HIDE DEF gen
<1>9. /\ host \in Worker /\ row \in [Channel -> RowState \cup {NoRow}]
      /\ attempt \in [Worker -> [Channel -> AttemptState]]
      /\ worker \in [Channel -> Worker \cup {NoWorker}]
  BY DEF Correct, ObservationTypeOK
<1>10. r \in RowState /\ a \in AttemptState
  BY <1>3, <1>4, <1>7, <1>8, <1>9 DEF RowState, AttemptState, Phase
<1> HIDE DEF claim, start
<1>11. row' \in [Channel -> RowState \cup {NoRow}] /\ row'[ch] = r
       /\ \A c \in Channel \ {ch} : row'[c] = row[c]
  BY <1>2, <1>3, <1>9, <1>10
<1>12. attempt' = [attempt EXCEPT ![host] = [attempt[host] EXCEPT ![ch] = a]]
  BY <1>2, <1>4, <1>9
<1>13. attempt'[host] = [attempt[host] EXCEPT ![ch] = a]
       /\ \A v \in Worker \ {host} : attempt'[v] = attempt[v]
  BY <1>9, <1>12
<1>14. attempt' \in [Worker -> [Channel -> AttemptState]]
  BY <1>9, <1>10, <1>12
<1>15. attempt'[host][ch] = a /\ \A c \in Channel \ {ch} : attempt'[host][c] = attempt[host][c]
  BY <1>9, <1>13
<1>16. ASSUME NEW v \in Worker, NEW c \in Channel
       PROVE  attempt'[v][c] = attempt[v][c] \/ (v = host /\ c = ch /\ attempt'[v][c] = a)
  BY <1>13, <1>15
<1>17. ObservationTypeOK'
  <2>1. worker' \in [Channel -> Worker \cup {NoWorker}]
    BY <1>2, <1>9
  <2> QED
    BY <1>2, <1>11, <1>14, <2>1 DEF Correct, ObservationTypeOK
<1>18. LedgersOK' /\ ObservedHeld' /\ ForksWhole' /\ GraphFollowsLedger'
  <2>1. LedgersOK /\ ObservedHeld /\ ForksWhole /\ GraphFollowsLedger
    BY DEF ObservationInv, Correct
  <2>2. ledger' = ledger /\ graph' = graph /\ issued' = issued
    BY <1>2
  <2>3. LedgersOK'
    BY <2>1, <2>2 DEF LedgersOK, LedgerOK, LineageOK, Exists
  <2> QED
    BY <2>1, <2>2, <2>3 DEF ObservedHeld, ForksWhole, GraphFollowsLedger, Exists, EventsOf
<1>19. RowsOK'
  <2>1. SUFFICES ASSUME NEW c \in Channel, row'[c] # NoRow
                 PROVE  Exists(c) /\ Due(row'[c], ledger[c])
    BY <1>2 DEF RowsOK, Exists
  <2>2. CASE c = ch
    BY <2>2, <1>6, <1>7, <1>11
  <2>3. CASE c # ch
    BY <2>1, <2>3, <1>11 DEF Correct, ObservationInv, RowsOK
  <2> QED
    BY <2>2, <2>3
<1>20. AttemptsOK'
  <2>1. SUFFICES ASSUME NEW w \in Worker, NEW c \in Channel, attempt'[w][c].phase # "idle"
                 PROVE  /\ Exists(c)
                        /\ attempt'[w][c].kind = "fork" => ledger[c].parent # NoParent
                        /\ \/ Past(attempt'[w][c], ledger[c])
                           \/ row'[c] # NoRow /\ SameWork(attempt'[w][c], row'[c])
    BY <1>2 DEF AttemptsOK, AttemptOK, Exists
  <2>2. CASE c = ch /\ attempt'[w][c] = a
    BY <2>2, <1>5, <1>6, <1>7, <1>10, <1>11, AbsenceAssumption
  <2>3. CASE attempt'[w][c] = attempt[w][c]
    <3>1. /\ Exists(c) /\ (attempt[w][c].kind = "fork" => ledger[c].parent # NoParent)
          /\ \/ Past(attempt[w][c], ledger[c])
             \/ row[c] # NoRow /\ SameWork(attempt[w][c], row[c])
      BY <2>1, <2>3 DEF Correct, ObservationInv, AttemptsOK, AttemptOK
    <3>2. row[c] # NoRow => row'[c] # NoRow /\ SameWork(row'[c], row[c])
      <4>1. CASE c = ch
        BY <4>1, <1>7, <1>10, <1>11, AbsenceAssumption
      <4>2. CASE c # ch
        BY <4>2, <1>11 DEF SameWork
      <4> QED
        BY <4>1, <4>2
    <3> QED
      BY <2>3, <3>1, <3>2 DEF SameWork
  <2> QED
    BY <1>16, <2>2, <2>3
<1>21. RequestsOK'
  <2>1. SUFFICES ASSUME NEW w \in Worker, NEW c \in Channel, request[w][c] # NoRequest
                 PROVE  /\ RequestOK(request[w][c], c)
                        /\ attempt'[w][c].phase = "asked" =>
                             /\ request[w][c].through = attempt'[w][c].through
                             /\ request[w][c].kind = attempt'[w][c].kind
    BY <1>2 DEF RequestsOK, RequestOK, EventsOf, Exists
  <2> QED
    BY <2>1, <1>5, <1>16 DEF Correct, ObservationInv, RequestsOK
<1>22. AnswersHeld' /\ WaitVouches'
  <2>1. ASSUME NEW w \in Worker, NEW c \in Channel, attempt'[w][c].phase = "answered"
        PROVE  Holds(c, attempt'[w][c].through)
    BY <2>1, <1>5, <1>16 DEF Correct, ObservationInv, AnswersHeld
  <2>2. ASSUME NEW w \in Worker, NEW c \in Channel, attempt'[w][c].kind = "fork",
               attempt'[w][c].phase \in {"prepared", "asked", "answered"}
        PROVE  Holds(ledger[c].parent, ledger[c].forkSeq)
    BY <2>2, <1>5, <1>16 DEF Correct, ObservationInv, WaitVouches
  <2>3. \A c \in Awaited : waiter[c].state = "resolved" => Holds(c, waiter[c].sequence)
    BY DEF Correct, ObservationInv, WaitVouches
  <2> QED
    BY <1>2, <2>1, <2>2, <2>3 DEF Holds, EventsOf, AnswersHeld, WaitVouches
<1> QED
  BY <1>17, <1>18, <1>19, <1>20, <1>21, <1>22 DEF Correct, ObservationInv

-----------------------------------------------------------------------------
(* Asking the log authority *)

\* What is due is what the ledger asks for next.
LEMMA DuePeek ==
  ASSUME NEW l \in LedgerState, NEW r \in RowState, Due(r, l), r.kind # "root"
  PROVE  Dues(l).kind = r.kind /\ Dues(l).first = r.first
<1>1. /\ Len(l.events) \in Nat /\ l.observed \in Nat
      /\ l.rootObserved \in BOOLEAN /\ l.parentObserved \in BOOLEAN
      /\ r.first \in Nat /\ r.through \in Nat
  BY LedgerType DEF RowState
<1>2. r.kind = "append" => Len(l.events) > l.observed
  BY <1>1 DEF Due
<1>3. PeekObservation(l) # {}
  <2>1. CASE r.kind = "fork"
    BY <2>1 DEF Due, PeekObservation
  <2>2. CASE r.kind = "append"
    BY <1>2, <2>2 DEF Due, PeekObservation
  <2> QED
    BY <2>1, <2>2 DEF RowState, Kind
<1>4. \/ ~l.parentObserved /\ Has(Dues(l), "fork", 0, l.forkSeq)
      \/ l.parentObserved /\ ~l.rootObserved /\ l.events = <<>> /\ Has(Dues(l), "root", 0, 0)
      \/ /\ l.parentObserved /\ (l.rootObserved \/ l.events # <<>>)
         /\ \E n \in l.observed + 1 .. Len(l.events) : Has(Dues(l), "append", l.observed + 1, n)
  BY <1>3, PeekFact
<1>5. CASE r.kind = "fork"
  BY <1>4, <1>5 DEF Due, Has
<1>6. CASE r.kind = "append"
  BY <1>4, <1>6 DEF Due, Has
<1> QED
  BY <1>5, <1>6 DEF RowState, Kind

\* what a request for the claim of a channel says
Asks(q, kind, first, ch) ==
  q = [kind |-> kind, gen |-> row[ch].gen, parent |-> ledger[ch].parent,
       through |-> row[ch].through, prefix |-> Prefix(ledger[ch].events, row[ch].through),
       batch |-> IF kind = "append" THEN SubSeq(ledger[ch].events, first, row[ch].through)
                 ELSE <<>>]
WorkAsked(kind, first, ch) ==
  IF row[ch].kind = "root" THEN kind = "root"
  ELSE kind = Dues(ledger[ch]).kind /\ first = Dues(ledger[ch]).first

\* A request carries a segment of the ledger that the log authority can take.
LEMMA AskedFact ==
  ASSUME Correct, NEW ch \in Channel, Exists(ch), row[ch] # NoRow,
         NEW kind, NEW first, WorkAsked(kind, first, ch), NEW q, Asks(q, kind, first, ch)
  PROVE  /\ q \in RequestState /\ RequestOK(q, ch)
         /\ q.through = row[ch].through /\ q.kind = row[ch].kind
<1>1. PICK l : l = ledger[ch]
  OBVIOUS
<1>0. PICK r : r = row[ch]
  OBVIOUS
<1>2. r \in RowState /\ Due(r, l)
  BY <1>0, <1>1, RowIs DEF Correct, ObservationInv, RowsOK
<1>3. /\ l \in LedgerState /\ LedgerOK(l, issued) /\ LineageOK(l)
      /\ Vouched(l, ch)
  BY <1>1, LedgerIs, LedgerVouched DEF Correct, ObservationInv, LedgersOK
<1>4. /\ l.events \in Seq(Event) /\ Len(l.events) \in Nat /\ l.observed \in Nat /\ l.forkSeq \in Nat
      /\ l.parent \in Channel \cup {NoParent}
      /\ r.through \in Nat /\ r.first \in Nat /\ r.gen \in Nat /\ r.kind \in Kind
  BY <1>2, <1>3, LedgerType DEF RowState
<1>5. kind = r.kind /\ (r.kind # "root" => first = r.first)
  BY <1>0, <1>1, <1>2, <1>3, DuePeek DEF WorkAsked
<1>6. r.through <= Len(l.events)
  <2>1. CASE r.kind = "root"
    BY <1>2, <1>4, <2>1 DEF Due
  <2>2. CASE r.kind = "fork"
    BY <1>2, <1>3, <2>2 DEF Due, LedgerOK, LineageOK
  <2>3. CASE r.kind = "append"
    BY <1>2, <2>3 DEF Due
  <2> QED
    BY <1>4, <2>1, <2>2, <2>3 DEF Kind
<1>7. Prefix(l.events, r.through) \in Seq(Event)
  BY <1>4, <1>6, PrefixFact
<1>8. r.kind = "append" => /\ first \in 1 .. r.through /\ SubSeq(l.events, first, r.through) \in Seq(Event)
                           /\ first <= l.observed + 1
  <2>1. SUFFICES ASSUME r.kind = "append"
                 PROVE  /\ first \in 1 .. r.through /\ SubSeq(l.events, first, r.through) \in Seq(Event)
                        /\ first <= l.observed + 1
    OBVIOUS
  <2>2. first = l.observed + 1 /\ first <= r.through
    BY <1>2, <1>5, <2>1 DEF Due
  <2>3. first \in 1 .. r.through
    BY <1>4, <2>2
  <2>4. \A i \in first .. r.through : i \in 1 .. Len(l.events)
    BY <1>4, <1>6, <2>3
  <2>5. \A i \in first .. r.through : l.events[i] \in Event
    BY <1>4, <2>4
  <2>6. SubSeq(l.events, first, r.through) \in Seq(Event)
    BY <1>4, <2>3, <2>5, SubSeqProperties
  <2> QED
    BY <1>4, <2>2, <2>3, <2>6
<1>9. PICK batch : batch = IF kind = "append" THEN SubSeq(l.events, first, r.through) ELSE <<>>
  OBVIOUS
<1>10. batch \in Seq(Event) /\ (r.kind = "append" => batch = SubSeq(l.events, first, r.through))
  <2>1. CASE r.kind = "append"
    BY <1>5, <1>8, <1>9, <2>1
  <2>2. CASE r.kind # "append"
    BY <1>5, <1>9, <2>2
  <2> QED
    BY <2>1, <2>2
<1>11. /\ q \in RequestState /\ q.kind = r.kind /\ q.through = r.through /\ q.parent = l.parent
       /\ q.prefix = Prefix(l.events, r.through) /\ q.batch = batch
  <2>1. q = [kind |-> r.kind, gen |-> r.gen, parent |-> l.parent, through |-> r.through,
             prefix |-> Prefix(l.events, r.through), batch |-> batch]
    BY <1>0, <1>1, <1>5, <1>9 DEF Asks
  <2> QED
    BY <1>4, <1>7, <1>10, <2>1 DEF RequestState
<1>12. r.kind = "root" => l.parent = NoParent /\ r.through = 0
  BY <1>2, <1>3 DEF Due, LedgerOK
<1>13. r.kind = "fork" => l.parent # NoParent /\ r.through = l.forkSeq
  BY <1>2, <1>3 DEF Due, LedgerOK
<1>14. r.kind = "append" => /\ l.parent # NoParent => graph[ch] # Absent
                            /\ first <= Len(EventsOf(graph, ch)) + 1
  <2>1. Len(EventsOf(graph, ch)) \in Nat
    BY HeldType DEF Correct
  <2>2. r.kind = "append" => (l.parent # NoParent => graph[ch] # Absent)
    BY <1>2, <1>3 DEF Due, LedgerOK, Vouched
  <2>3. r.kind = "append" => first <= Len(EventsOf(graph, ch)) + 1
    <3>1. r.kind = "append" => first = l.observed + 1
      BY <1>2, <1>5 DEF Due
    <3>2. l.observed <= Len(EventsOf(graph, ch))
      BY <1>3 DEF Vouched
    <3> QED
      BY <1>4, <2>1, <3>1, <3>2
  <2> QED
    BY <2>2, <2>3
<1>15. RequestOK(q, ch)
  <2>1. q.kind = "append" => \E i \in 1 .. q.through : /\ q.batch = SubSeq(l.events, i, q.through)
                                                      /\ i <= Len(EventsOf(graph, ch)) + 1
    BY <1>8, <1>10, <1>11, <1>14
  <2> QED
    BY <1>1, <1>6, <1>11, <1>12, <1>13, <1>14, <2>1 DEF RequestOK
<1> QED
  BY <1>0, <1>11, <1>15

\* Asking the log authority keeps the invariant (executeChannelObservationClaim).
LEMMA ExecuteKeeps ==
  ASSUME Correct, NEW w \in Worker, NEW ch \in Channel, ExecuteObservation(w, ch)
  PROVE  Correct'
<1>1. /\ attempt[w][ch].phase = IF attempt[w][ch].kind = "fork" THEN "prepared" ELSE "claimed"
      /\ UNCHANGED <<ledger, issued, row, worker, offered, host, graph, waiter>>
  BY DEF ExecuteObservation
<1>2. attempt[w][ch].phase # "idle"
  BY <1>1
<1>3. offered' \in [Channel -> BOOLEAN]
  BY <1>1 DEF Correct, ObservationTypeOK
<1>4. CASE ~Leases(w, ch)
  <2>1. GoTo(w, ch, "refused") /\ UNCHANGED request /\ "refused" \in Phase
    BY <1>4 DEF ExecuteObservation, Phase
  <2> QED
    BY <1>1, <1>2, <1>3, <2>1, MoveKeeps
<1>5. CASE Leases(w, ch)
  <2> DEFINE o == IF row[ch].kind = "root" THEN [kind |-> "root", first |-> 0]
                  ELSE Dues(ledger[ch])
  <2>1. PICK q : Asks(q, o.kind, o.first, ch)
    BY DEF Asks
  <2>2. request' = [request EXCEPT ![w][ch] = q] /\ GoTo(w, ch, "asked")
    BY <1>5, <2>1 DEF ExecuteObservation, Dues, Asks
  <2>3. row[ch] # NoRow /\ Exists(ch) /\ SameWork(attempt[w][ch], row[ch])
    BY <1>2, <1>5, LeasesFact
  <2>4. q \in RequestState /\ RequestOK(q, ch) /\ q.through = row[ch].through /\ q.kind = row[ch].kind
    <3>1. WorkAsked(o.kind, o.first, ch)
      BY DEF WorkAsked
    <3>2. PICK kind, first : kind = o.kind /\ first = o.first
      OBVIOUS
    <3>3. WorkAsked(kind, first, ch) /\ Asks(q, kind, first, ch)
      BY <2>1, <3>1, <3>2
    <3> QED
      BY <2>3, <3>3, AskedFact
  <2> HIDE DEF o
  <2>5. request \in [Worker -> [Channel -> RequestState \cup {NoRequest}]]
    BY DEF Correct, ObservationTypeOK
  <2>6. request' = [request EXCEPT ![w] = [request[w] EXCEPT ![ch] = q]]
    BY <2>2, <2>5
  <2>7. request'[w] = [request[w] EXCEPT ![ch] = q] /\ \A v \in Worker \ {w} : request'[v] = request[v]
    BY <2>5, <2>6
  <2>8. request' \in [Worker -> [Channel -> RequestState \cup {NoRequest}]]
    BY <2>4, <2>5, <2>6
  <2>9. request'[w][ch] = q /\ \A c \in Channel \ {ch} : request'[w][c] = request[w][c]
    BY <2>5, <2>7
  <2>10. "asked" \in Phase
    BY DEF Phase
  <2>11. /\ attempt' \in [Worker -> [Channel -> AttemptState]]
         /\ attempt'[w][ch].phase = "asked" /\ SameWork(attempt'[w][ch], attempt[w][ch])
         /\ \A v \in Worker, c \in Channel :
              <<v, c>> # <<w, ch>> => attempt'[v][c] = attempt[v][c]
    BY <2>2, <2>10, GoToFact DEF Correct
  <2>12. ObservationTypeOK'
    BY <1>1, <2>8, <2>11 DEF Correct, ObservationTypeOK
  <2>13. ASSUME NEW v \in Worker, NEW c \in Channel
         PROVE  \/ v = w /\ c = ch
                \/ attempt'[v][c] = attempt[v][c] /\ request'[v][c] = request[v][c]
    BY <2>7, <2>9, <2>11
  <2>14. LedgersOK' /\ ObservedHeld' /\ ForksWhole' /\ GraphFollowsLedger' /\ RowsOK'
    <3>1. LedgersOK /\ ObservedHeld /\ ForksWhole /\ GraphFollowsLedger /\ RowsOK
      BY DEF ObservationInv, Correct
    <3>2. ledger' = ledger /\ graph' = graph /\ issued' = issued /\ row' = row
      BY <1>1
    <3>3. LedgersOK'
      BY <3>1, <3>2 DEF LedgersOK, LedgerOK, LineageOK, Exists
    <3> QED
      BY <3>1, <3>2, <3>3 DEF ObservedHeld, ForksWhole, GraphFollowsLedger, Exists, EventsOf, RowsOK
  <2>15. AttemptsOK'
    <3>1. SUFFICES ASSUME NEW v \in Worker, NEW c \in Channel, attempt'[v][c].phase # "idle"
                   PROVE  /\ Exists(c)
                          /\ attempt'[v][c].kind = "fork" => ledger[c].parent # NoParent
                          /\ \/ Past(attempt'[v][c], ledger[c])
                             \/ row[c] # NoRow /\ SameWork(attempt'[v][c], row[c])
      BY <1>1 DEF AttemptsOK, AttemptOK, Exists
    <3>2. attempt[v][c].phase # "idle" /\ SameWork(attempt'[v][c], attempt[v][c])
      BY <1>2, <2>11, <2>13, <3>1 DEF SameWork
    <3>3. /\ Exists(c) /\ (attempt[v][c].kind = "fork" => ledger[c].parent # NoParent)
          /\ \/ Past(attempt[v][c], ledger[c])
             \/ row[c] # NoRow /\ SameWork(attempt[v][c], row[c])
      BY <3>2 DEF Correct, ObservationInv, AttemptsOK, AttemptOK
    <3> QED
      BY <3>2, <3>3, SamePast DEF SameWork
  <2>16. RequestsOK'
    <3>1. SUFFICES ASSUME NEW v \in Worker, NEW c \in Channel, request'[v][c] # NoRequest
                   PROVE  /\ RequestOK(request'[v][c], c)
                          /\ attempt'[v][c].phase = "asked" =>
                               /\ request'[v][c].through = attempt'[v][c].through
                               /\ request'[v][c].kind = attempt'[v][c].kind
      BY <1>1 DEF RequestsOK, RequestOK, EventsOf, Exists
    <3>2. CASE v = w /\ c = ch
      BY <2>3, <2>4, <2>9, <2>11, <3>2 DEF SameWork
    <3>3. CASE attempt'[v][c] = attempt[v][c] /\ request'[v][c] = request[v][c]
      BY <3>1, <3>3 DEF Correct, ObservationInv, RequestsOK
    <3> QED
      BY <2>13, <3>2, <3>3
  <2>17. AnswersHeld' /\ WaitVouches'
    <3>1. ASSUME NEW v \in Worker, NEW c \in Channel, attempt'[v][c].phase = "answered"
          PROVE  Holds(c, attempt'[v][c].through)
      BY <3>1, <2>11, <2>13 DEF Correct, ObservationInv, AnswersHeld
    <3>2. ASSUME NEW v \in Worker, NEW c \in Channel, attempt'[v][c].kind = "fork",
                 attempt'[v][c].phase \in {"prepared", "asked", "answered"}
          PROVE  Holds(ledger[c].parent, ledger[c].forkSeq)
      <4>1. attempt[v][c].kind = "fork" /\ attempt[v][c].phase \in {"prepared", "asked", "answered"}
        BY <3>2, <1>1, <2>11, <2>13 DEF SameWork
      <4> QED
        BY <4>1 DEF Correct, ObservationInv, WaitVouches
    <3>3. \A c \in Awaited : waiter[c].state = "resolved" => Holds(c, waiter[c].sequence)
      BY DEF Correct, ObservationInv, WaitVouches
    <3> QED
      BY <1>1, <3>1, <3>2, <3>3 DEF Holds, EventsOf, AnswersHeld, WaitVouches
  <2> QED
    BY <2>12, <2>14, <2>15, <2>16, <2>17 DEF Correct, ObservationInv
<1> QED
  BY <1>4, <1>5

-----------------------------------------------------------------------------
(* What the log authority does with a request *)

\* the log of ch is a prefix of its ledger under its lineage
Faithful(g, ch) ==
  /\ IsPrefix(g[ch].events, ledger[ch].events)
  /\ g[ch].parent = ledger[ch].parent /\ g[ch].forkSeq = ledger[ch].forkSeq
  /\ g[ch].forkSeq <= Len(g[ch].events)
\* an answer that serves ch, and holds n events if it says so
Served(s, ch, n) ==
  /\ s.graph \in [Channel -> LogState \cup {Absent}]
  /\ \A c \in Channel \ {ch} : s.graph[c] = graph[c]
  /\ graph[ch] # Absent =>
       s.graph[ch] # Absent /\ Len(graph[ch].events) <= Len(s.graph[ch].events)
  /\ s.graph[ch] # Absent => Faithful(s.graph, ch)
  /\ s.ok => s.graph[ch] # Absent /\ n <= Len(s.graph[ch].events)

\* A log that exists is faithful.
LEMMA FaithfulNow ==
  ASSUME Correct, NEW ch \in Channel, graph[ch] # Absent
  PROVE  Faithful(graph, ch)
  BY DEF Correct, ObservationInv, GraphFollowsLedger, ForksWhole, Faithful

\* An answer that changes nothing serves its request.
LEMMA Unchanged ==
  ASSUME Correct, NEW ch \in Channel, NEW n \in Nat, NEW s, NEW x,
         s = [ok |-> x, graph |-> graph],
         x => graph[ch] # Absent /\ n <= Len(graph[ch].events)
  PROVE  Served(s, ch, n)
<1>1. s.graph = graph /\ s.ok = x
  OBVIOUS
<1>2. graph \in [Channel -> LogState \cup {Absent}]
  BY DEF Correct, ObservationTypeOK
<1>3. graph[ch] # Absent => Len(graph[ch].events) <= Len(graph[ch].events)
  BY GraphIs DEF Correct
<1> QED
  BY <1>1, <1>2, <1>3, FaithfulNow DEF Served

\* a log that may take the place of what is held
Takes(t, ch, n) ==
  /\ t \in LogState /\ IsPrefix(t.events, ledger[ch].events)
  /\ t.parent = ledger[ch].parent /\ t.forkSeq = ledger[ch].forkSeq
  /\ t.forkSeq <= Len(t.events)
  /\ graph[ch] # Absent => Len(graph[ch].events) <= Len(t.events)
  /\ n <= Len(t.events)

\* An answer that puts a faithful log in place serves its request.
LEMMA Replaced ==
  ASSUME Correct, NEW ch \in Channel, NEW n \in Nat, NEW t, Takes(t, ch, n),
         NEW s, s = Success([graph EXCEPT ![ch] = t])
  PROVE  Served(s, ch, n)
<1>1. s.ok = TRUE /\ s.graph = [graph EXCEPT ![ch] = t]
  BY DEF Success
<1>2. graph \in [Channel -> LogState \cup {Absent}]
  BY DEF Correct, ObservationTypeOK
<1>3. t \in LogState /\ t # Absent
  BY AbsenceAssumption DEF Takes
<1>4. /\ s.graph \in [Channel -> LogState \cup {Absent}] /\ s.graph[ch] = t
      /\ \A c \in Channel \ {ch} : s.graph[c] = graph[c]
  BY <1>1, <1>2, <1>3
<1> QED
  BY <1>1, <1>3, <1>4 DEF Served, Takes, Faithful

\* Nothing is a prefix of everything.
LEMMA EmptyPrefix ==
  ASSUME NEW t \in Seq(Event), NEW z, z = <<>>
  PROVE  IsPrefix(z, t)
<1>1. z \in Seq(Event) /\ Len(z) = 0 /\ Len(t) \in Nat
  OBVIOUS
<1>2. Prefix(t, 0) = <<>>
  BY DEF Prefix
<1>3. z = Prefix(t, Len(z)) /\ Len(z) <= Len(t)
  BY <1>1, <1>2
<1> QED
  BY <1>1, <1>3, IsPrefixFact

\* initializeLogHead serves a request for the root, again and again.
LEMMA RootServed ==
  ASSUME Correct, NEW ch \in Channel, NEW q \in RequestState, RequestOK(q, ch), q.kind = "root"
  PROVE  Served(InitializeLogHead(graph, ch), ch, q.through)
<1>1. q.through = 0 /\ ledger[ch].parent = NoParent /\ Exists(ch)
  BY DEF RequestOK
<1>2. ledger[ch] \in LedgerState /\ ledger[ch].forkSeq = 0
  BY <1>1, LedgerIs DEF Correct, ObservationInv, LedgersOK, LedgerOK
<1>3. CASE graph[ch] = Absent
  <2>1. <<>> \in Seq(Event) /\ Len(<<>>) = 0
    OBVIOUS
  <2>2. RootLog \in LogState /\ RootLog.events = <<>> /\ RootLog.parent = NoParent /\ RootLog.forkSeq = 0
    BY <2>1 DEF RootLog, LogState
  <2>3. IsPrefix(RootLog.events, ledger[ch].events)
    BY <1>2, <2>2, LedgerType, EmptyPrefix
  <2>4. Takes(RootLog, ch, q.through)
    BY <1>1, <1>2, <1>3, <2>1, <2>2, <2>3 DEF Takes
  <2>5. InitializeLogHead(graph, ch) = Success([graph EXCEPT ![ch] = RootLog])
    BY <1>3 DEF InitializeLogHead
  <2> QED
    BY <1>1, <2>4, <2>5, Replaced
<1>4. CASE graph[ch] # Absent
  <2>1. InitializeLogHead(graph, ch) = [ok |-> graph[ch].parent = NoParent, graph |-> graph]
    BY <1>4 DEF InitializeLogHead
  <2>2. q.through \in Nat /\ q.through <= Len(graph[ch].events)
    BY <1>1, <1>4, GraphIs DEF Correct
  <2> QED
    BY <1>4, <2>1, <2>2, Unchanged
<1> QED
  BY <1>3, <1>4

\* forkLog serves a request for a fork, or refuses it, or finds it done.
LEMMA ForkServed ==
  ASSUME Correct, NEW ch \in Channel, NEW q \in RequestState, RequestOK(q, ch), q.kind = "fork"
  PROVE  Served(ForkLog(graph, q.parent, ch, q.through), ch, q.through)
<1>1. PICK l : l = ledger[ch]
  OBVIOUS
<1>2. PICK p : p = l.parent
  OBVIOUS
<1>3. PICK n : n = q.through
  OBVIOUS
<1>4. q.parent = p /\ p # NoParent /\ n = l.forkSeq /\ Exists(ch) /\ n <= Len(l.events)
  BY <1>1, <1>2, <1>3 DEF RequestOK
<1>5. l \in LedgerState /\ p \in Channel /\ n \in Nat /\ LineageOK(l)
  BY <1>1, <1>2, <1>4, LedgerIs, LedgerType DEF Correct, ObservationInv, LedgersOK
<1>6. /\ Exists(p) /\ n <= Len(ledger[p].events) /\ ledger[p] \in LedgerState
      /\ Prefix(ledger[p].events, n) = Prefix(l.events, n)
  BY <1>2, <1>4, <1>5, LedgerIs DEF LineageOK, Correct
<1>7. ForkLog(graph, q.parent, ch, q.through) = ForkLog(graph, p, ch, n)
  BY <1>3, <1>4
<1>8. CASE graph[p] = Absent
  <2>1. ForkLog(graph, p, ch, n) = [ok |-> FALSE, graph |-> graph]
    BY <1>8 DEF ForkLog, Refusal
  <2> QED
    BY <1>3, <1>5, <1>7, <2>1, Unchanged
<1>9. CASE graph[p] # Absent /\ n > Len(graph[p].events)
  <2>1. ForkLog(graph, p, ch, n) = [ok |-> FALSE, graph |-> graph]
    BY <1>9 DEF ForkLog, Refusal
  <2> QED
    BY <1>3, <1>5, <1>7, <2>1, Unchanged
<1>10. CASE graph[p] # Absent /\ ~(n > Len(graph[p].events)) /\ graph[ch] = Absent
  <2> DEFINE m == Len(graph[p].events)
  <2>1. graph[p].events \in Seq(Event) /\ m \in Nat /\ n \in 0 .. m
    BY <1>5, <1>10, GraphIs DEF Correct
  <2>2. /\ ledger[p].events \in Seq(Event) /\ Len(ledger[p].events) \in Nat
        /\ l.events \in Seq(Event) /\ Len(l.events) \in Nat
    BY <1>5, <1>6, LedgerType
  <2>3. IsPrefix(graph[p].events, ledger[p].events)
    BY <1>5, <1>10 DEF Correct, ObservationInv, GraphFollowsLedger
  <2>4. m <= Len(ledger[p].events) /\ graph[p].events = Prefix(ledger[p].events, m)
    BY <2>1, <2>2, <2>3, IsPrefixFact
  <2> DEFINE t == Prefix(graph[p].events, n)
  <2>5. t = Prefix(l.events, n)
    <3>1. m \in 0 .. Len(ledger[p].events)
      BY <2>1, <2>2, <2>4
    <3>2. Prefix(Prefix(ledger[p].events, m), n) = Prefix(ledger[p].events, n)
      BY <2>1, <2>2, <3>1, PrefixOfPrefix
    <3> QED
      BY <1>6, <2>4, <3>2
  <2>6. t \in Seq(Event) /\ Len(t) = n
    BY <2>1, PrefixFact
  <2>7. IsPrefix(t, l.events)
    BY <1>4, <2>2, <2>5, <2>6, IsPrefixFact
  <2> HIDE DEF t
  <2>8. PICK c : c = [parent |-> p, forkSeq |-> n, events |-> t]
    OBVIOUS
  <2>9. c \in LogState /\ c.parent = p /\ c.forkSeq = n /\ c.events = t
    BY <1>5, <2>6, <2>8 DEF LogState
  <2>10. Takes(c, ch, n)
    BY <1>1, <1>2, <1>4, <1>5, <1>10, <2>6, <2>7, <2>9 DEF Takes
  <2>11. ForkLog(graph, p, ch, n) = Success([graph EXCEPT ![ch] = c])
    BY <1>10, <2>8 DEF ForkLog, t
  <2> QED
    BY <1>3, <1>5, <1>7, <2>10, <2>11, Replaced
<1>11. CASE graph[p] # Absent /\ ~(n > Len(graph[p].events)) /\ graph[ch] # Absent
  <2> DEFINE x == <<graph[ch].parent, graph[ch].forkSeq, Prefix(graph[ch].events, graph[ch].forkSeq)>>
                    = <<p, n, Prefix(Prefix(graph[p].events, n), n)>>
  <2>1. ForkLog(graph, p, ch, n) = [ok |-> x, graph |-> graph]
    BY <1>11 DEF ForkLog
  <2>2. x => graph[ch].forkSeq = n
    OBVIOUS
  <2>3. graph[ch].forkSeq <= Len(graph[ch].events)
    BY <1>11 DEF Correct, ObservationInv, ForksWhole
  <2> HIDE DEF x
  <2> QED
    BY <1>3, <1>5, <1>7, <1>11, <2>1, <2>2, <2>3, Unchanged
<1> QED
  BY <1>8, <1>9, <1>10, <1>11

\* appendLogEvent serves a batch, however much of it is stored already.
LEMMA AppendServed ==
  ASSUME Correct, NEW ch \in Channel, NEW q \in RequestState, RequestOK(q, ch), q.kind = "append"
  PROVE  Served(AppendLogEvent(graph, ch, q.batch), ch, q.through)
<1>1. PICK l : l = ledger[ch]
  OBVIOUS
<1>2. PICK n : n = q.through
  OBVIOUS
<1>3. /\ n \in Nat /\ n <= Len(l.events) /\ Exists(ch) /\ l \in LedgerState
      /\ l.parent # NoParent => graph[ch] # Absent
  BY <1>1, <1>2, LedgerIs DEF RequestOK, RequestState, Correct
<1>4. PICK first \in 1 .. n : /\ q.batch = SubSeq(l.events, first, n)
                              /\ first <= Len(EventsOf(graph, ch)) + 1
  BY <1>1, <1>2 DEF RequestOK
<1>5. PICK old : old = IF graph[ch] = Absent THEN RootLog ELSE graph[ch]
  OBVIOUS
<1>6. PICK m : m = Len(EventsOf(graph, ch))
  OBVIOUS
<1>7. /\ l.events \in Seq(Event) /\ l.events \in Seq(Nat) /\ Len(l.events) \in Nat
      /\ Increasing(l.events) /\ l.forkSeq \in Nat /\ (l.parent = NoParent => l.forkSeq = 0)
  BY <1>1, <1>3, LedgerType DEF Correct, ObservationInv, LedgersOK, LedgerOK
<1>8. /\ old \in LogState /\ old.events = EventsOf(graph, ch)
      /\ old.parent = l.parent /\ old.forkSeq = l.forkSeq /\ old.forkSeq <= m
      /\ IsPrefix(old.events, l.events)
  <2>1. CASE graph[ch] = Absent
    <3>1. <<>> \in Seq(Event) /\ Len(<<>>) = 0
      OBVIOUS
    <3>2. old = RootLog /\ EventsOf(graph, ch) = <<>> /\ m = 0
      BY <1>5, <1>6, <2>1, <3>1 DEF EventsOf
    <3>3. RootLog \in LogState /\ RootLog.events = <<>> /\ RootLog.parent = NoParent /\ RootLog.forkSeq = 0
      BY <3>1 DEF RootLog, LogState
    <3>5. IsPrefix(old.events, l.events)
      BY <1>7, <3>2, <3>3, EmptyPrefix
    <3> QED
      BY <1>3, <1>7, <2>1, <3>2, <3>3, <3>5
  <2>2. CASE graph[ch] # Absent
    <3>1. old = graph[ch] /\ EventsOf(graph, ch) = graph[ch].events /\ old \in LogState
      BY <1>5, <2>2, GraphIs DEF EventsOf, Correct
    <3> QED
      BY <1>1, <1>6, <2>2, <3>1 DEF Correct, ObservationInv, GraphFollowsLedger, ForksWhole
  <2> QED
    BY <2>1, <2>2
<1>9. old.events \in Seq(Event) /\ Len(old.events) = m /\ m \in Nat
  BY <1>6, <1>8, HeldType DEF Correct
<1>10. m <= Len(l.events) /\ old.events = Prefix(l.events, m)
  BY <1>7, <1>8, <1>9, IsPrefixFact
<1>11. PICK b : b = q.batch
  OBVIOUS
<1>12. PICK held : held = old.events
  OBVIOUS
<1>13. Overlaps(b, held, l.events, m, first, n)
  <2>1. m \in 0 .. Len(l.events) /\ first \in 1 .. m + 1 /\ n \in first .. Len(l.events)
    BY <1>3, <1>4, <1>6, <1>7, <1>9, <1>10
  <2> QED
    BY <1>4, <1>7, <1>10, <1>11, <1>12, <2>1 DEF Overlaps
<1>14. PICK k : k = IF n <= m THEN m ELSE n
  OBVIOUS
<1>15. /\ held \o Remaining(held, b) = Prefix(l.events, k)
       /\ Remaining(held, b) # <<>> /\ Replayed(held, b) > 0 => b[Replayed(held, b)] = Last(held)
  BY <1>13, <1>14, Extended
<1>16. k \in Nat /\ k <= Len(l.events) /\ m <= k /\ n <= k
  BY <1>3, <1>9, <1>10, <1>14
<1>17. PICK e : e = Prefix(l.events, k)
  OBVIOUS
<1>18. e \in Seq(Event) /\ Len(e) = k /\ IsPrefix(e, l.events)
  <2>1. k \in 0 .. Len(l.events)
    BY <1>7, <1>16
  <2>2. e \in Seq(Event) /\ Len(e) = k
    BY <1>7, <1>17, <2>1, PrefixFact
  <2> QED
    BY <1>7, <1>16, <1>17, <2>2, IsPrefixFact
<1>19. PICK t : t = [old EXCEPT !.events = e]
  OBVIOUS
<1>20. t \in LogState /\ t.events = e /\ t.parent = old.parent /\ t.forkSeq = old.forkSeq
  BY <1>8, <1>18, <1>19 DEF LogState
<1>21. Takes(t, ch, n)
  <2>1. old.forkSeq <= k
    BY <1>7, <1>8, <1>9, <1>16
  <2>2. graph[ch] # Absent => Len(graph[ch].events) <= k
    BY <1>6, <1>16, HeldType DEF Correct
  <2> QED
    BY <1>1, <1>8, <1>16, <1>18, <1>20, <2>1, <2>2 DEF Takes
<1>22. AppendLogEvent(graph, ch, q.batch) = Success([graph EXCEPT ![ch] = t])
  <2>1. ~(Remaining(held, b) # <<>> /\ Replayed(held, b) > 0 /\ b[Replayed(held, b)] # Last(held))
    BY <1>15
  <2>2. t = [old EXCEPT !.events = @ \o Remaining(held, b)]
    BY <1>8, <1>12, <1>15, <1>17, <1>19 DEF LogState
  <2>3. AppendLogEvent(graph, ch, b) = Success([graph EXCEPT ![ch] = [old EXCEPT !.events = @ \o Remaining(held, b)]])
    BY <1>5, <1>12, <2>1 DEF AppendLogEvent
  <2> QED
    BY <1>11, <2>2, <2>3
<1> QED
  BY <1>2, <1>3, <1>21, <1>22, Replaced

\* the log authority's answer to a request
AnswerTo(q, ch) ==
  CASE q.kind = "root" -> InitializeLogHead(graph, ch)
    [] q.kind = "fork" -> ForkLog(graph, q.parent, ch, q.through)
    [] q.kind = "append" -> AppendLogEvent(graph, ch, q.batch)

\* Every answer serves its request.
LEMMA AnswerServed ==
  ASSUME Correct, NEW ch \in Channel, NEW q \in RequestState, RequestOK(q, ch)
  PROVE  Served(AnswerTo(q, ch), ch, q.through)
<1>1. q.kind \in Kind
  BY DEF RequestState
<1>2. CASE q.kind = "root"
  <2>1. AnswerTo(q, ch) = InitializeLogHead(graph, ch)
    BY <1>2 DEF AnswerTo
  <2> QED
    BY <1>2, <2>1, RootServed
<1>3. CASE q.kind = "fork"
  <2>1. AnswerTo(q, ch) = ForkLog(graph, q.parent, ch, q.through)
    BY <1>3 DEF AnswerTo
  <2> QED
    BY <1>3, <2>1, ForkServed
<1>4. CASE q.kind = "append"
  <2>1. AnswerTo(q, ch) = AppendLogEvent(graph, ch, q.batch)
    BY <1>4 DEF AnswerTo
  <2> QED
    BY <1>4, <2>1, AppendServed
<1> QED
  BY <1>1, <1>2, <1>3, <1>4 DEF Kind

\* what is held stays held
HeldOn == \A c \in Channel :
  /\ graph[c] # Absent => graph'[c] # Absent
  /\ Len(EventsOf(graph, c)) <= Len(EventsOf(graph', c))
  /\ Len(EventsOf(graph', c)) \in Nat

\* What is held stays held.
LEMMA HoldsOn ==
  ASSUME ObservationTypeOK, HeldOn, NEW c \in Channel, NEW n \in Nat, Holds(c, n)
  PROVE  graph'[c] # Absent /\ n <= Len(EventsOf(graph', c))
<1>1. graph[c] # Absent /\ n <= Len(EventsOf(graph, c)) /\ Len(EventsOf(graph, c)) \in Nat
  BY HeldType DEF Holds
<1>2. /\ graph[c] # Absent => graph'[c] # Absent
      /\ Len(EventsOf(graph, c)) <= Len(EventsOf(graph', c))
      /\ Len(EventsOf(graph', c)) \in Nat
  BY DEF HeldOn
<1> QED
  BY <1>1, <1>2

\* An answer takes nothing away.
LEMMA ServedGrows ==
  ASSUME Correct, NEW ch \in Channel, NEW s, NEW n, Served(s, ch, n), graph' = s.graph
  PROVE  HeldOn /\ graph' \in [Channel -> LogState \cup {Absent}]
<1>1. graph' \in [Channel -> LogState \cup {Absent}]
  BY DEF Served
<1>2. ASSUME NEW c \in Channel
      PROVE  /\ graph[c] # Absent => graph'[c] # Absent
             /\ Len(EventsOf(graph, c)) <= Len(EventsOf(graph', c))
             /\ Len(EventsOf(graph', c)) \in Nat
  <2>1. /\ EventsOf(graph, c) \in Seq(Event) /\ Len(EventsOf(graph, c)) \in Nat
        /\ graph[c] = Absent => Len(EventsOf(graph, c)) = 0
        /\ graph[c] # Absent => EventsOf(graph, c) = graph[c].events
    BY HeldType DEF Correct
  <2>2. graph'[c] # Absent => graph'[c].events \in Seq(Event)
    BY <1>1 DEF LogState
  <2>3. graph'[c] = Absent => EventsOf(graph', c) = <<>>
    BY DEF EventsOf
  <2>4. graph'[c] # Absent => EventsOf(graph', c) = graph'[c].events
    BY DEF EventsOf
  <2>5. Len(EventsOf(graph', c)) \in Nat
    <3>1. CASE graph'[c] = Absent
      <4>1. Len(<<>>) \in Nat
        OBVIOUS
      <4> QED
        BY <3>1, <2>3, <4>1
    <3>2. CASE graph'[c] # Absent
      BY <3>2, <2>2, <2>4
    <3> QED
      BY <3>1, <3>2
  <2>6. graph[c] # Absent => graph'[c] # Absent /\ Len(graph[c].events) <= Len(graph'[c].events)
    <3>1. CASE c = ch
      BY <3>1 DEF Served
    <3>2. CASE c # ch
      BY <3>2, <2>1 DEF Served
    <3> QED
      BY <3>1, <3>2
  <2>7. CASE graph[c] = Absent
    BY <2>1, <2>5, <2>7
  <2>8. CASE graph[c] # Absent
    BY <2>1, <2>4, <2>5, <2>6, <2>8
  <2> QED
    BY <2>7, <2>8
<1> QED
  BY <1>1, <1>2 DEF HeldOn

\* Serving a request keeps the invariant, however late it is served (observeChannelEvent).
LEMMA ServeKeeps ==
  ASSUME Correct, NEW w \in Worker, NEW ch \in Channel, Serve(w, ch)
  PROVE  Correct'
<1>1. PICK q : q = request[w][ch]
  OBVIOUS
<1>2. PICK s : s = AnswerTo(q, ch)
  OBVIOUS
<1> DEFINE exact == s.ok /\ Prefix(EventsOf(s.graph, ch), q.through) = q.prefix
<1>3. /\ q # NoRequest /\ graph' = s.graph /\ request' = [request EXCEPT ![w][ch] = NoRequest]
      /\ UNCHANGED <<ledger, issued, row, worker, offered, host, waiter>>
      /\ IF attempt[w][ch].phase = "asked"
           THEN GoTo(w, ch, IF exact THEN "answered" ELSE "refused")
           ELSE UNCHANGED attempt
  BY <1>1, <1>2 DEF Serve, AnswerTo
<1>4. /\ q \in RequestState /\ RequestOK(q, ch)
      /\ attempt[w][ch].phase = "asked" => q.through = attempt[w][ch].through
  BY <1>1, <1>3, RequestIs DEF Correct, ObservationInv, RequestsOK
<1>5. Served(s, ch, q.through)
  BY <1>2, <1>4, AnswerServed
<1>6. HeldOn /\ graph' \in [Channel -> LogState \cup {Absent}]
  BY <1>3, <1>5, ServedGrows
<1>7. /\ request \in [Worker -> [Channel -> RequestState \cup {NoRequest}]]
      /\ attempt \in [Worker -> [Channel -> AttemptState]]
  BY DEF Correct, ObservationTypeOK
<1>8. request' = [request EXCEPT ![w] = [request[w] EXCEPT ![ch] = NoRequest]]
  BY <1>3, <1>7
<1>9. request'[w] = [request[w] EXCEPT ![ch] = NoRequest] /\ \A v \in Worker \ {w} : request'[v] = request[v]
  BY <1>7, <1>8
<1>10. request' \in [Worker -> [Channel -> RequestState \cup {NoRequest}]]
  BY <1>7, <1>8
<1>11. request'[w][ch] = NoRequest /\ \A c \in Channel \ {ch} : request'[w][c] = request[w][c]
  BY <1>7, <1>9
<1>12. ASSUME NEW v \in Worker, NEW c \in Channel
       PROVE  IF v = w /\ c = ch THEN request'[v][c] = NoRequest ELSE request'[v][c] = request[v][c]
  BY <1>9, <1>11
<1> HIDE DEF exact
<1>13. /\ attempt' \in [Worker -> [Channel -> AttemptState]]
       /\ \A v \in Worker, c \in Channel :
            \/ attempt'[v][c] = attempt[v][c] /\ ((v = w /\ c = ch) => attempt[v][c].phase # "asked")
            \/ /\ v = w /\ c = ch /\ attempt[v][c].phase = "asked"
               /\ SameWork(attempt'[v][c], attempt[v][c])
               /\ attempt'[v][c].phase \in {"answered", "refused"}
               /\ attempt'[v][c].phase = "answered" => s.ok
  <2>1. CASE attempt[w][ch].phase = "asked"
    <3>1. PICK p : p = IF exact THEN "answered" ELSE "refused"
      OBVIOUS
    <3>2. p \in Phase /\ GoTo(w, ch, p) /\ p \in {"answered", "refused"} /\ (p = "answered" => s.ok)
      BY <1>3, <2>1, <3>1 DEF Phase, exact
    <3>3. /\ attempt' \in [Worker -> [Channel -> AttemptState]]
          /\ attempt'[w][ch].phase = p /\ SameWork(attempt'[w][ch], attempt[w][ch])
          /\ \A v \in Worker, c \in Channel :
               <<v, c>> # <<w, ch>> => attempt'[v][c] = attempt[v][c]
      BY <3>2, GoToFact DEF Correct
    <3> QED
      BY <2>1, <3>2, <3>3
  <2>2. CASE attempt[w][ch].phase # "asked"
    BY <1>3, <1>7, <2>2
  <2> QED
    BY <2>1, <2>2
<1>14. ObservationTypeOK'
  BY <1>3, <1>6, <1>10, <1>13 DEF Correct, ObservationTypeOK
<1>15. LedgersOK' /\ RowsOK'
  <2>1. LedgersOK /\ RowsOK
    BY DEF Correct, ObservationInv
  <2>2. ledger' = ledger /\ issued' = issued /\ row' = row
    BY <1>3
  <2> QED
    BY <2>1, <2>2 DEF LedgersOK, LedgerOK, LineageOK, Exists, RowsOK
<1>16. AttemptsOK'
  <2>1. SUFFICES ASSUME NEW v \in Worker, NEW c \in Channel, attempt'[v][c].phase # "idle"
                 PROVE  /\ Exists(c)
                        /\ attempt'[v][c].kind = "fork" => ledger[c].parent # NoParent
                        /\ \/ Past(attempt'[v][c], ledger[c])
                           \/ row[c] # NoRow /\ SameWork(attempt'[v][c], row[c])
    BY <1>3 DEF AttemptsOK, AttemptOK, Exists
  <2>2. attempt[v][c].phase # "idle" /\ SameWork(attempt'[v][c], attempt[v][c])
    BY <1>13, <2>1 DEF SameWork
  <2>3. /\ Exists(c) /\ (attempt[v][c].kind = "fork" => ledger[c].parent # NoParent)
        /\ \/ Past(attempt[v][c], ledger[c])
           \/ row[c] # NoRow /\ SameWork(attempt[v][c], row[c])
    BY <2>2 DEF Correct, ObservationInv, AttemptsOK, AttemptOK
  <2> QED
    BY <2>2, <2>3, SamePast DEF SameWork
<1>17. RequestsOK'
  <2>1. ASSUME NEW v \in Worker, NEW c \in Channel, request'[v][c] # NoRequest
        PROVE  /\ RequestOK(request[v][c], c)'
               /\ attempt'[v][c].phase = "asked" =>
                    /\ request'[v][c].through = attempt'[v][c].through
                    /\ request'[v][c].kind = attempt'[v][c].kind
    <3>1. ~(v = w /\ c = ch) /\ request'[v][c] = request[v][c] /\ attempt'[v][c] = attempt[v][c]
      BY <1>12, <1>13, <2>1
    <3>2. /\ RequestOK(request[v][c], c) /\ request[v][c] \in RequestState
          /\ attempt[v][c].phase = "asked" =>
               /\ request[v][c].through = attempt[v][c].through
               /\ request[v][c].kind = attempt[v][c].kind
      BY <2>1, <3>1, RequestIs DEF Correct, ObservationInv, RequestsOK
    <3>3. PICK z : z = request[v][c]
      OBVIOUS
    <3>4. RequestOK(z, c) /\ z \in RequestState
      BY <3>2, <3>3
    <3>5. /\ graph[c] # Absent => graph'[c] # Absent
          /\ Len(EventsOf(graph, c)) <= Len(EventsOf(graph', c))
          /\ Len(EventsOf(graph', c)) \in Nat /\ Len(EventsOf(graph, c)) \in Nat /\ z.through \in Nat
      BY <1>6, <3>4, HeldType DEF HeldOn, RequestState, Correct
    <3>6. \A first \in 1 .. z.through : first <= Len(EventsOf(graph, c)) + 1
                                         => first <= Len(EventsOf(graph', c)) + 1
      BY <3>5
    <3>7. z.kind = "append" =>
            /\ ledger[c].parent # NoParent => graph'[c] # Absent
            /\ \E first \in 1 .. z.through :
                 /\ z.batch = SubSeq(ledger[c].events, first, z.through)
                 /\ first <= Len(EventsOf(graph', c)) + 1
      BY <3>4, <3>5, <3>6, Zenon DEF RequestOK
    <3>8. RequestOK(z, c)'
      BY <1>3, <3>4, <3>7 DEF RequestOK, Exists, EventsOf
    <3>9. request'[v][c] = z
      BY <3>1, <3>3
    <3>10. RequestOK(request[v][c], c)'
      BY <3>8, <3>9 DEF RequestOK
    <3> QED
      BY <3>1, <3>2, <3>10
  <2> QED
    BY <2>1 DEF RequestsOK
<1>18. ObservedHeld'
  <2>1. SUFFICES ASSUME NEW c \in Channel, Exists(c)
                 PROVE  /\ ledger[c].observed <= Len(EventsOf(graph', c))
                        /\ ledger[c].rootObserved => graph'[c] # Absent
    BY <1>3 DEF ObservedHeld, Exists, EventsOf
  <2>2. /\ ledger[c].observed <= Len(EventsOf(graph, c)) /\ ledger[c].observed \in Nat
        /\ ledger[c].rootObserved => graph[c] # Absent
    BY <2>1, LedgerIs, LedgerType DEF Correct, ObservationInv, ObservedHeld
  <2>3. /\ graph[c] # Absent => graph'[c] # Absent
        /\ Len(EventsOf(graph, c)) <= Len(EventsOf(graph', c))
        /\ Len(EventsOf(graph', c)) \in Nat /\ Len(EventsOf(graph, c)) \in Nat
    BY <1>6, HeldType DEF HeldOn, Correct
  <2> QED
    BY <2>2, <2>3
<1>19. ASSUME NEW c \in Channel, NEW n \in Nat, Holds(c, n)
       PROVE  graph'[c] # Absent /\ n <= Len(EventsOf(graph', c))
  BY <1>6, <1>19, HoldsOn DEF Correct
<1>20. AnswersHeld'
  <2>1. SUFFICES ASSUME NEW v \in Worker, NEW c \in Channel, attempt'[v][c].phase = "answered"
                 PROVE  graph'[c] # Absent /\ attempt'[v][c].through <= Len(EventsOf(graph', c))
    BY DEF AnswersHeld, Holds, EventsOf
  <2>2. CASE attempt'[v][c] = attempt[v][c]
    <3>1. Holds(c, attempt[v][c].through) /\ attempt[v][c].through \in Nat
      BY <2>1, <2>2, AttemptIs DEF Correct, ObservationInv, AnswersHeld, AttemptState
    <3> QED
      BY <2>2, <3>1, <1>19
  <2>3. CASE attempt'[v][c] # attempt[v][c]
    <3>1. v = w /\ c = ch /\ attempt[w][ch].phase = "asked" /\ s.ok
          /\ attempt'[v][c].through = attempt[w][ch].through
      BY <1>13, <2>1, <2>3 DEF SameWork
    <3>2. graph'[ch] # Absent /\ q.through <= Len(graph'[ch].events)
      BY <1>3, <1>5, <3>1 DEF Served
    <3> QED
      BY <1>4, <3>1, <3>2 DEF EventsOf
  <2> QED
    BY <2>2, <2>3
<1>21. ForksWhole' /\ GraphFollowsLedger'
  <2>1. ASSUME NEW c \in Channel, graph'[c] # Absent
        PROVE  /\ ledger[c] # Unborn /\ Faithful(graph', c)
    <3>1. CASE c = ch
      <4>1. Faithful(s.graph, ch)
        BY <1>3, <1>5, <2>1, <3>1 DEF Served
      <4>2. Exists(ch)
        BY <1>4 DEF RequestOK
      <4> QED
        BY <1>3, <3>1, <4>1, <4>2 DEF Exists
    <3>2. CASE c # ch
      <4>1. graph'[c] = graph[c]
        BY <1>3, <1>5, <3>2 DEF Served
      <4>2. Faithful(graph, c) /\ ledger[c] # Unborn
        BY <2>1, <4>1, FaithfulNow DEF Correct, ObservationInv, GraphFollowsLedger
      <4> QED
        BY <4>1, <4>2 DEF Faithful
    <3> QED
      BY <3>1, <3>2
  <2> QED
    BY <1>3, <2>1 DEF ForksWhole, GraphFollowsLedger, Faithful
<1>22. WaitVouches'
  <2>1. ASSUME NEW c \in Awaited, waiter[c].state = "resolved"
        PROVE  graph'[c] # Absent /\ waiter[c].sequence <= Len(EventsOf(graph', c))
    <3>1. Holds(c, waiter[c].sequence) /\ c \in Channel /\ waiter[c].sequence \in Nat
      BY <2>1, WaitersTrue, ChannelAssumption DEF Correct, ObservationTypeOK, WaiterState
    <3> QED
      BY <3>1, <1>19
  <2>2. ASSUME NEW v \in Worker, NEW c \in Channel, attempt'[v][c].kind = "fork",
               attempt'[v][c].phase \in {"prepared", "asked", "answered"}
        PROVE  /\ graph'[ledger[c].parent] # Absent
               /\ ledger[c].forkSeq <= Len(EventsOf(graph', ledger[c].parent))
    <3>1. attempt[v][c].kind = "fork" /\ attempt[v][c].phase \in {"prepared", "asked", "answered"}
      BY <1>13, <2>2 DEF SameWork
    <3>2. Holds(ledger[c].parent, ledger[c].forkSeq)
      BY <3>1 DEF Correct, ObservationInv, WaitVouches
    <3>3. Exists(c) /\ ledger[c].parent # NoParent
      BY <3>1 DEF Correct, ObservationInv, AttemptsOK, AttemptOK
    <3>4. ledger[c].parent \in Channel /\ ledger[c].forkSeq \in Nat
      BY <3>3, LedgerIs, LedgerType DEF Correct
    <3> QED
      BY <3>2, <3>4, <1>19
  <2> QED
    BY <1>3, <2>1, <2>2 DEF WaitVouches, Holds, EventsOf
<1> QED
  BY <1>14, <1>15, <1>16, <1>17, <1>18, <1>20, <1>21, <1>22 DEF Correct, ObservationInv

-----------------------------------------------------------------------------
(* The end of an attempt *)

\* Whoever is woken is told the truth.
LEMMA Woken ==
  ASSUME Correct, NEW ch \in Channel, NEW l, l.observed \in Nat, Vouched(l, ch), NEW r,
         NEW v \in Worker, NEW c \in Channel
  PROVE  /\ WokenAttempts(ch, l, r)[v][c] \in AttemptState
         /\ Continues(WokenAttempts(ch, l, r)[v][c], attempt[v][c], c)
<1>1. PICK a : a = attempt[v][c]
  OBVIOUS
<1>2. PICK p : p = PreparedBy(c, Verdict(l, r, ledger[c].forkSeq))
  OBVIOUS
<1>3. PICK b : b = WokenAttempts(ch, l, r)[v][c]
  OBVIOUS
<1>4. b = IF a.phase = "waiting" /\ ledger[c].parent = ch THEN [a EXCEPT !.phase = p] ELSE a
  BY <1>1, <1>2, <1>3 DEF WokenAttempts
<1>5. a \in AttemptState
  BY <1>1, AttemptIs DEF Correct
<1>6. CASE ~(a.phase = "waiting" /\ ledger[c].parent = ch)
  BY <1>1, <1>3, <1>4, <1>5, <1>6 DEF Continues
<1>7. CASE a.phase = "waiting" /\ ledger[c].parent = ch
  <2>1. p \in {"waiting", "prepared", "refused"} /\ p \in Phase
        /\ (p = "prepared" => Verdict(l, r, ledger[c].forkSeq) = "resolved")
    BY <1>2, PreparedType DEF Phase
  <2>2. b = [a EXCEPT !.phase = p]
    BY <1>4, <1>7
  <2>3. b \in AttemptState /\ b.phase = p /\ SameWork(b, a)
    BY <1>5, <2>1, <2>2, PhaseFact
  <2>4. ledger[c].forkSeq \in Nat
    <3>1. Exists(c)
      BY <1>1, <1>7 DEF Correct, ObservationInv, AttemptsOK, AttemptOK
    <3> QED
      BY <3>1, LedgerIs, LedgerType DEF Correct
  <2>5. p = "prepared" => Holds(ledger[c].parent, ledger[c].forkSeq)
    BY <1>7, <2>1, <2>4, VerdictTrue DEF Correct
  <2> QED
    BY <1>1, <1>3, <1>7, <2>1, <2>3, <2>5 DEF Continues
<1> QED
  BY <1>6, <1>7

\* The end of an attempt tells everyone the truth.
LEMMA ConcludeFact ==
  ASSUME Correct, NEW w \in Worker, NEW ch \in Channel, NEW l, l.observed \in Nat, Vouched(l, ch), NEW r,
         Conclude(w, ch, l, r)
  PROVE  /\ attempt' \in [Worker -> [Channel -> AttemptState]] /\ AttemptsKept
         /\ waiter' \in [Awaited -> WaiterState] /\ WaitersTold
<1>1. PICK woken : woken = WokenAttempts(ch, l, r)
  OBVIOUS
<1>2. ASSUME NEW v \in Worker, NEW c \in Channel
      PROVE  woken[v][c] \in AttemptState /\ Continues(woken[v][c], attempt[v][c], c)
  BY <1>1, Woken
<1>3. woken \in [Worker -> [Channel -> AttemptState]]
  <2>1. woken = [v \in Worker |-> [c \in Channel |-> woken[v][c]]]
    BY <1>1 DEF WokenAttempts
  <2> QED
    BY <1>2, <2>1
<1>4. attempt' = [woken EXCEPT ![w] = [woken[w] EXCEPT ![ch] = Idle]]
  BY <1>1, <1>3 DEF Conclude
<1>5. attempt'[w] = [woken[w] EXCEPT ![ch] = Idle] /\ \A v \in Worker \ {w} : attempt'[v] = woken[v]
  BY <1>3, <1>4
<1>6. attempt' \in [Worker -> [Channel -> AttemptState]]
  BY <1>3, <1>4, IdleType
<1>7. attempt'[w][ch] = Idle /\ \A c \in Channel \ {ch} : attempt'[w][c] = woken[w][c]
  BY <1>3, <1>5
<1>8. ASSUME NEW v \in Worker, NEW c \in Channel
      PROVE  Continues(attempt'[v][c], attempt[v][c], c)
  <2>1. attempt'[v][c] = Idle \/ attempt'[v][c] = woken[v][c]
    BY <1>5, <1>7
  <2> QED
    BY <1>2, <2>1 DEF Continues
<1>9. ASSUME NEW c \in Awaited
      PROVE  waiter'[c] \in WaiterState /\ (waiter'[c].state = "resolved" => Holds(c, waiter'[c].sequence))
  <2>1. PICK t : t = waiter[c]
    OBVIOUS
  <2>2. t \in WaiterState /\ t.sequence \in Nat
    BY <2>1 DEF Correct, ObservationTypeOK, WaiterState
  <2>3. PICK v : v = Verdict(l, r, t.sequence)
    OBVIOUS
  <2>4. waiter'[c] = IF c = ch /\ t.state = "open" THEN Waiter(t.sequence, v) ELSE t
    BY <2>1, <2>3 DEF Conclude, WokenWaiters
  <2>5. CASE c = ch /\ t.state = "open"
    <3>1. v \in {"resolved", "open", "rejected"}
      BY <2>3, VerdictType
    <3>2. /\ waiter'[c] \in WaiterState
          /\ waiter'[c].state = "resolved" => v = "resolved" /\ waiter'[c].sequence = t.sequence
      BY <2>2, <2>4, <2>5, <3>1, WaiterType
    <3>3. v = "resolved" => Holds(ch, t.sequence)
      BY <2>2, <2>3, VerdictTrue DEF Correct
    <3> QED
      BY <2>5, <3>2, <3>3
  <2>6. CASE ~(c = ch /\ t.state = "open")
    BY <2>1, <2>2, <2>4, <2>6, WaitersTrue DEF Correct
  <2> QED
    BY <2>5, <2>6
<1>10. waiter' \in [Awaited -> WaiterState]
  <2>1. waiter' = [c \in Awaited |-> waiter'[c]]
    BY DEF Conclude, WokenWaiters
  <2> QED
    BY <1>9, <2>1
<1> QED
  BY <1>6, <1>8, <1>9, <1>10 DEF AttemptsKept, WaitersTold

\* Marking work done: nothing that was done is undone, and what is marked is held.
LEMMA MarkedFact ==
  ASSUME Correct, NEW ch \in Channel, NEW l, l = ledger[ch], l # Unborn, NEW r, r = row[ch], r # NoRow,
         Holds(ch, r.through), NEW m, m = Marked(l, r)
  PROVE  /\ m \in LedgerState /\ m.events = l.events /\ m.parent = l.parent /\ m.forkSeq = l.forkSeq
         /\ LedgerOK(m, issued) /\ Vouched(m, ch)
         /\ \A a \in AttemptState : Past(a, l) \/ SameWork(a, r) => Past(a, m)
<1>1. r \in RowState /\ Due(r, l)
  BY RowIs DEF Correct, ObservationInv, RowsOK
<1>2. l \in LedgerState /\ LedgerOK(l, issued) /\ LineageOK(l) /\ Vouched(l, ch)
  BY LedgerIs, LedgerVouched DEF Correct, ObservationInv, LedgersOK, Exists
<1>3. /\ l.events \in Seq(Event) /\ Len(l.events) \in Nat /\ l.observed \in Nat /\ l.forkSeq \in Nat
      /\ l.parent \in Channel \cup {NoParent} /\ l.rootObserved \in BOOLEAN /\ l.parentObserved \in BOOLEAN
      /\ r.first \in Nat /\ r.through \in Nat
  BY <1>1, <1>2, LedgerType DEF RowState
<1>4. graph[ch] # Absent /\ r.through <= Len(EventsOf(graph, ch)) /\ Len(EventsOf(graph, ch)) \in Nat
  BY HeldType DEF Holds, Correct
<1>5. CASE r.kind = "root"
  <2>1. m = [l EXCEPT !.rootObserved = TRUE]
    BY <1>5 DEF Marked
  <2>2. /\ m \in LedgerState /\ m.events = l.events /\ m.parent = l.parent /\ m.forkSeq = l.forkSeq
        /\ m.rootObserved /\ m.observed = l.observed /\ m.parentObserved = l.parentObserved
    BY <1>2, <2>1 DEF LedgerState
  <2> QED
    BY <1>2, <1>4, <1>5, <2>2 DEF LedgerOK, Vouched, Past, SameWork
<1>6. CASE r.kind = "fork"
  <2>1. m = [l EXCEPT !.rootObserved = TRUE, !.parentObserved = TRUE, !.observed = l.forkSeq]
    BY <1>6 DEF Marked
  <2>2. /\ m \in LedgerState /\ m.events = l.events /\ m.parent = l.parent /\ m.forkSeq = l.forkSeq
        /\ m.rootObserved /\ m.observed = l.forkSeq /\ m.parentObserved
    BY <1>2, <1>3, <2>1 DEF LedgerState
  <2>3. l.parent # NoParent /\ l.forkSeq <= Len(l.events) /\ r.through = l.forkSeq /\ l.observed = 0
    BY <1>1, <1>2, <1>6 DEF Due, LedgerOK, LineageOK
  <2>4. LedgerOK(m, issued)
    BY <1>2, <2>2, <2>3 DEF LedgerOK
  <2>5. \A a \in AttemptState : Past(a, l) \/ SameWork(a, r) => Past(a, m)
    <3>1. \A a \in AttemptState : a.first \in Nat
      BY DEF AttemptState
    <3>2. \A a \in AttemptState : a.first <= l.observed => a.first <= m.observed
      BY <1>3, <2>2, <2>3, <3>1
    <3> QED
      BY <1>6, <2>2, <3>2 DEF Past, SameWork
  <2> QED
    BY <1>4, <2>2, <2>3, <2>4, <2>5 DEF Vouched
<1>7. CASE r.kind = "append"
  <2>1. m = [l EXCEPT !.rootObserved = TRUE, !.observed = r.through]
    BY <1>7 DEF Marked
  <2>2. /\ m \in LedgerState /\ m.events = l.events /\ m.parent = l.parent /\ m.forkSeq = l.forkSeq
        /\ m.rootObserved /\ m.observed = r.through /\ m.parentObserved = l.parentObserved
    BY <1>2, <1>3, <2>1 DEF LedgerState
  <2>3. l.parentObserved /\ r.first = l.observed + 1 /\ r.first <= r.through /\ r.through <= Len(l.events)
    BY <1>1, <1>7 DEF Due
  <2>4. LedgerOK(m, issued)
    BY <1>2, <2>2, <2>3 DEF LedgerOK
  <2>5. \A a \in AttemptState : Past(a, l) \/ SameWork(a, r) => Past(a, m)
    <3>1. \A a \in AttemptState : a.first \in Nat
      BY DEF AttemptState
    <3>2. \A a \in AttemptState : a.first <= l.observed \/ a.first = r.first => a.first <= m.observed
      BY <1>3, <2>2, <2>3, <3>1
    <3> QED
      BY <1>7, <2>2, <3>2 DEF Past, SameWork
  <2> QED
    BY <1>4, <2>2, <2>4, <2>5 DEF Vouched
<1> QED
  BY <1>1, <1>5, <1>6, <1>7 DEF RowState, Kind

\* An attempt that still owns its claim settles it.
LEMMA SettleOwned ==
  ASSUME Correct, NEW w \in Worker, NEW ch \in Channel, attempt[w][ch].phase = "answered",
         Leases(w, ch), NEW m, m = Marked(ledger[ch], row[ch]),
         Conclude(w, ch, m, NoRow), offered' \in [Channel -> BOOLEAN]
  PROVE  Correct'
<1>1. PICK r : r = row[ch]
  OBVIOUS
<1>2. PICK l : l = ledger[ch]
  OBVIOUS
<1>3. r # NoRow /\ Exists(ch) /\ SameWork(attempt[w][ch], r) /\ l # Unborn /\ r \in RowState
  BY <1>1, <1>2, LeasesFact, RowIs DEF Exists, Correct
<1>4. Holds(ch, r.through)
  BY <1>3 DEF Correct, ObservationInv, AnswersHeld, SameWork
<1>5. /\ m \in LedgerState /\ m.events = l.events /\ m.parent = l.parent /\ m.forkSeq = l.forkSeq
      /\ LedgerOK(m, issued) /\ Vouched(m, ch)
      /\ \A a \in AttemptState : Past(a, l) \/ SameWork(a, r) => Past(a, m)
  BY <1>1, <1>2, <1>3, <1>4, MarkedFact
<1>6. /\ ledger' = [ledger EXCEPT ![ch] = m] /\ row' = [row EXCEPT ![ch] = NoRow]
      /\ UNCHANGED <<issued, worker, host, request, graph>>
  BY DEF Conclude
<1>7. m.observed \in Nat /\ m # Unborn
  BY <1>5, LedgerType, AbsenceAssumption
<1>8. /\ attempt' \in [Worker -> [Channel -> AttemptState]] /\ AttemptsKept
      /\ waiter' \in [Awaited -> WaiterState] /\ WaitersTold
  BY <1>5, <1>7, ConcludeFact
<1>9. /\ ledger' \in [Channel -> LedgerState \cup {Unborn}]
      /\ ledger'[ch] = m /\ \A c \in Channel \ {ch} : ledger'[c] = ledger[c]
  BY <1>5, <1>6 DEF Correct, ObservationTypeOK
<1>10. /\ row' \in [Channel -> RowState \cup {NoRow}]
       /\ row'[ch] = NoRow /\ \A c \in Channel \ {ch} : row'[c] = row[c]
  BY <1>6 DEF Correct, ObservationTypeOK
<1>11. ObservationTypeOK'
  BY <1>6, <1>8, <1>9, <1>10 DEF Correct, ObservationTypeOK
<1>12. \A c \in Channel :
         /\ ledger'[c] # Unborn <=> Exists(c)
         /\ Exists(c) => /\ ledger'[c].events = ledger[c].events
                         /\ ledger'[c].parent = ledger[c].parent
                         /\ ledger'[c].forkSeq = ledger[c].forkSeq
  BY <1>2, <1>3, <1>5, <1>7, <1>9 DEF Exists
<1>13. LedgersOK'
  <2>1. ASSUME NEW c \in Channel, ledger'[c] # Unborn
        PROVE  LedgerOK(ledger'[c], issued')
    <3>1. CASE c = ch
      BY <3>1, <1>5, <1>6, <1>9
    <3>2. CASE c # ch
      BY <2>1, <3>2, <1>6, <1>9, <1>12 DEF Correct, ObservationInv, LedgersOK
    <3> QED
      BY <3>1, <3>2
  <2>2. ASSUME NEW c \in Channel, ledger'[c] # Unborn
        PROVE  LineageOK(ledger[c])'
    <3>1. Exists(c) /\ LineageOK(ledger[c]) /\ ledger[c] \in LedgerState
      BY <2>2, <1>12, LedgerIs DEF Correct, ObservationInv, LedgersOK
    <3>2. ledger[c].parent # NoParent => ledger[c].parent \in Channel
      BY <3>1, LedgerType
    <3> QED
      BY <3>1, <3>2, <1>12 DEF LineageOK, Exists
  <2> QED
    BY <2>1, <2>2 DEF LedgersOK, Exists
<1>14. RowsOK'
  <2>1. SUFFICES ASSUME NEW c \in Channel, row'[c] # NoRow
                 PROVE  ledger'[c] # Unborn /\ Due(row'[c], ledger'[c])
    BY DEF RowsOK, Exists
  <2>2. c # ch
    BY <1>10, <2>1
  <2> QED
    BY <2>1, <2>2, <1>9, <1>10, <1>12 DEF Correct, ObservationInv, RowsOK
<1>15. AttemptsOK'
  <2>1. SUFFICES ASSUME NEW v \in Worker, NEW c \in Channel, attempt'[v][c].phase # "idle"
                 PROVE  /\ ledger'[c] # Unborn
                        /\ attempt'[v][c].kind = "fork" => ledger'[c].parent # NoParent
                        /\ \/ Past(attempt'[v][c], ledger'[c])
                           \/ row'[c] # NoRow /\ SameWork(attempt'[v][c], row'[c])
    BY DEF AttemptsOK, AttemptOK, Exists
  <2>2. PICK b : b = attempt'[v][c]
    OBVIOUS
  <2>3. PICK a : a = attempt[v][c]
    OBVIOUS
  <2>4. b \in AttemptState /\ a.phase # "idle" /\ SameWork(b, a)
    <3>1. Continues(b, a, c) /\ b # Idle /\ b \in AttemptState
      BY <1>8, <2>1, <2>2, <2>3, IdleType DEF AttemptsKept
    <3> QED
      BY <2>1, <2>2, <3>1 DEF Continues, SameWork
  <2>5. /\ Exists(c) /\ (a.kind = "fork" => ledger[c].parent # NoParent)
        /\ Past(a, ledger[c]) \/ (row[c] # NoRow /\ SameWork(a, row[c]))
    BY <2>3, <2>4 DEF Correct, ObservationInv, AttemptsOK, AttemptOK
  <2>6. Past(b, ledger[c]) \/ (row[c] # NoRow /\ SameWork(b, row[c]))
    BY <2>4, <2>5, SamePast DEF SameWork
  <2>7. CASE c = ch
    <3>1. Past(b, m)
      BY <1>1, <1>2, <1>5, <2>4, <2>6, <2>7
    <3> QED
      BY <3>1, <1>9, <1>12, <2>2, <2>4, <2>5, <2>7 DEF SameWork
  <2>8. CASE c # ch
    BY <1>9, <1>10, <1>12, <2>2, <2>4, <2>5, <2>6, <2>8 DEF SameWork
  <2> QED
    BY <2>7, <2>8
<1>16. RequestsOK'
  <2>1. ASSUME NEW v \in Worker, NEW c \in Channel, request[v][c] # NoRequest
        PROVE  /\ RequestOK(request[v][c], c)'
               /\ attempt'[v][c].phase = "asked" =>
                    /\ request[v][c].through = attempt'[v][c].through
                    /\ request[v][c].kind = attempt'[v][c].kind
    <3>1. /\ RequestOK(request[v][c], c)
          /\ attempt[v][c].phase = "asked" =>
               /\ request[v][c].through = attempt[v][c].through
               /\ request[v][c].kind = attempt[v][c].kind
      BY <2>1 DEF Correct, ObservationInv, RequestsOK
    <3>2. Exists(c)
      BY <3>1 DEF RequestOK
    <3>3. RequestOK(request[v][c], c)'
      BY <1>6, <1>12, <3>1, <3>2 DEF RequestOK, Exists, EventsOf
    <3>4. Continues(attempt'[v][c], attempt[v][c], c)
      BY <1>8 DEF AttemptsKept
    <3> QED
      BY <3>1, <3>3, <3>4, IdleType DEF Continues, SameWork
  <2> QED
    BY <1>6, <2>1 DEF RequestsOK
<1>17. ObservedHeld'
  <2>1. SUFFICES ASSUME NEW c \in Channel, ledger'[c] # Unborn
                 PROVE  Vouched(ledger'[c], c)
    BY <1>6 DEF ObservedHeld, Vouched, Exists, EventsOf
  <2>2. CASE c = ch
    BY <1>5, <1>9, <2>2
  <2>3. CASE c # ch
    BY <1>9, <1>12, <2>1, <2>3, LedgerVouched DEF Correct
  <2> QED
    BY <2>2, <2>3
<1>18. ForksWhole' /\ GraphFollowsLedger'
  <2>1. graph' = graph /\ ForksWhole /\ GraphFollowsLedger
    BY <1>6 DEF Correct, ObservationInv
  <2> QED
    BY <1>12, <2>1 DEF ForksWhole, GraphFollowsLedger, Exists
<1>19. AnswersHeld' /\ WaitVouches'
  <2>1. ASSUME NEW v \in Worker, NEW c \in Channel, attempt'[v][c].phase = "answered"
        PROVE  Holds(c, attempt'[v][c].through)
    <3>1. Continues(attempt'[v][c], attempt[v][c], c)
      BY <1>8 DEF AttemptsKept
    <3>2. attempt[v][c].phase = "answered" /\ attempt'[v][c].through = attempt[v][c].through
      BY <2>1, <3>1, IdleType DEF Continues, SameWork
    <3> QED
      BY <3>2 DEF Correct, ObservationInv, AnswersHeld
  <2>2. ASSUME NEW v \in Worker, NEW c \in Channel, attempt'[v][c].kind = "fork",
               attempt'[v][c].phase \in {"prepared", "asked", "answered"}
        PROVE  Holds(ledger'[c].parent, ledger'[c].forkSeq)
    <3>1. Continues(attempt'[v][c], attempt[v][c], c)
      BY <1>8 DEF AttemptsKept
    <3>2. attempt'[v][c] # Idle
      BY <2>2, IdleType
    <3>3. attempt[v][c].kind = "fork" /\ attempt[v][c].phase # "idle"
      BY <2>2, <3>1, <3>2 DEF Continues, SameWork
    <3>4. \/ attempt[v][c].phase \in {"prepared", "asked", "answered"}
          \/ Holds(ledger[c].parent, ledger[c].forkSeq)
      BY <2>2, <3>1, <3>2, <3>3 DEF Continues
    <3>5. Exists(c) /\ Holds(ledger[c].parent, ledger[c].forkSeq)
      BY <3>3, <3>4 DEF Correct, ObservationInv, WaitVouches, AttemptsOK, AttemptOK
    <3> QED
      BY <3>5, <1>12
  <2> QED
    BY <1>6, <1>8, <2>1, <2>2 DEF Holds, EventsOf, AnswersHeld, WaitVouches, WaitersTold
<1> QED
  BY <1>11, <1>13, <1>14, <1>15, <1>16, <1>17, <1>18, <1>19 DEF Correct, ObservationInv

\* Concluding without marking anything keeps the invariant.
LEMMA ConcludeQuiet ==
  ASSUME Correct, NEW w \in Worker, NEW ch \in Channel, attempt[w][ch].phase # "idle", NEW r,
         row[ch] = NoRow => r = NoRow,
         row[ch] # NoRow => r \in RowState /\ SameWork(r, row[ch]),
         Conclude(w, ch, ledger[ch], r), offered' \in [Channel -> BOOLEAN]
  PROVE  Correct'
<1>1. Exists(ch)
  BY DEF Correct, ObservationInv, AttemptsOK, AttemptOK
<1>2. PICK l : l = ledger[ch]
  OBVIOUS
<1>3. l.observed \in Nat /\ Vouched(l, ch) /\ Conclude(w, ch, l, r)
  BY <1>1, <1>2, LedgerIs, LedgerType, LedgerVouched DEF Correct
<1>4. /\ attempt' \in [Worker -> [Channel -> AttemptState]] /\ AttemptsKept
      /\ waiter' \in [Awaited -> WaiterState] /\ WaitersTold
  BY <1>3, ConcludeFact
<1>5. /\ ledger' = [ledger EXCEPT ![ch] = l] /\ row' = [row EXCEPT ![ch] = r]
      /\ UNCHANGED <<issued, worker, host, request, graph>>
  BY <1>3 DEF Conclude
<1>6. ledger' = ledger
  BY <1>2, <1>5 DEF Correct, ObservationTypeOK
<1>7. /\ row' \in [Channel -> RowState \cup {NoRow}]
      /\ row'[ch] = r /\ \A c \in Channel \ {ch} : row'[c] = row[c]
  BY <1>5 DEF Correct, ObservationTypeOK
<1>8. ObservationTypeOK'
  BY <1>4, <1>5, <1>6, <1>7 DEF Correct, ObservationTypeOK
<1>9. RowsKept
  <2>1. ASSUME NEW c \in Channel
        PROVE  (row'[c] = NoRow <=> row[c] = NoRow) /\ (row[c] # NoRow => SameWork(row'[c], row[c]))
    <3>1. CASE c = ch
      BY <1>7, <3>1, AbsenceAssumption
    <3>2. CASE c # ch
      BY <1>7, <3>2 DEF SameWork
    <3> QED
      BY <3>1, <3>2
  <2> QED
    BY <2>1 DEF RowsKept
<1>10. Still /\ request' = request
  BY <1>5, <1>6 DEF Still
<1>11. ObservationInv'
  BY <1>4, <1>9, <1>10, Quiet DEF Correct
<1> QED
  BY <1>8, <1>11 DEF Correct

\* Settling keeps the invariant, for the owner and for a stale driver (settleObservation).
LEMMA SettleKeeps ==
  ASSUME Correct, NEW w \in Worker, NEW ch \in Channel, SettleObservation(w, ch)
  PROVE  Correct'
<1> DEFINE owns == Leases(w, ch) /\ row[ch].owner = w
<1>1. PICK l : l = IF owns THEN Marked(ledger[ch], row[ch]) ELSE ledger[ch]
  OBVIOUS
<1>2. PICK r : r = IF owns THEN NoRow ELSE row[ch]
  OBVIOUS
<1>3. /\ attempt[w][ch].phase = "answered" /\ Conclude(w, ch, l, r)
      /\ offered' = [offered EXCEPT ![ch] = ObservationReady(l, r)]
  BY <1>1, <1>2 DEF SettleObservation
<1>4. offered' \in [Channel -> BOOLEAN]
  <2>1. ObservationReady(l, r) \in BOOLEAN
    BY DEF ObservationReady
  <2> QED
    BY <1>3, <2>1 DEF Correct, ObservationTypeOK
<1>5. CASE owns
  BY <1>1, <1>2, <1>3, <1>4, <1>5, SettleOwned
<1>6. CASE ~owns
  <2>1. l = ledger[ch] /\ r = row[ch] /\ attempt[w][ch].phase # "idle"
    BY <1>1, <1>2, <1>3, <1>6
  <2>2. row[ch] # NoRow => r \in RowState /\ SameWork(r, row[ch])
    BY <2>1, RowIs DEF Correct, SameWork
  <2> QED
    BY <1>3, <1>4, <2>1, <2>2, ConcludeQuiet
<1> QED
  BY <1>5, <1>6

\* Failing keeps the invariant (failObservation).
LEMMA FailKeeps ==
  ASSUME Correct, NEW w \in Worker, NEW ch \in Channel, FailObservation(w, ch)
  PROVE  Correct'
<1> DEFINE owns == Leases(w, ch) /\ row[ch].owner = w
<1>1. PICK r : r = [row[ch] EXCEPT !.disposition = "failed", !.owner = NoWorker]
  OBVIOUS
<1>2. attempt[w][ch].phase = "refused"
  BY DEF FailObservation
<1>3. CASE owns
  <2>1. Conclude(w, ch, ledger[ch], r) /\ offered' = [offered EXCEPT ![ch] = FALSE]
    BY <1>1, <1>3 DEF FailObservation
  <2>2. row[ch] # NoRow
    BY <1>3 DEF Leases
  <2>3. r \in RowState /\ SameWork(r, row[ch])
    BY <1>1, <2>2, RowIs, RowFact DEF Correct
  <2>4. offered' \in [Channel -> BOOLEAN]
    BY <2>1 DEF Correct, ObservationTypeOK
  <2> QED
    BY <1>2, <2>1, <2>2, <2>3, <2>4, ConcludeQuiet
<1>4. CASE ~owns
  <2>1. /\ attempt' = [attempt EXCEPT ![w][ch] = Idle]
        /\ UNCHANGED <<ledger, issued, row, worker, offered, host, request, graph, waiter>>
    BY <1>4 DEF FailObservation
  <2>2. attempt \in [Worker -> [Channel -> AttemptState]]
    BY DEF Correct, ObservationTypeOK
  <2>3. attempt' = [attempt EXCEPT ![w] = [attempt[w] EXCEPT ![ch] = Idle]]
    BY <2>1, <2>2
  <2>4. attempt'[w] = [attempt[w] EXCEPT ![ch] = Idle] /\ \A v \in Worker \ {w} : attempt'[v] = attempt[v]
    BY <2>2, <2>3
  <2>5. attempt' \in [Worker -> [Channel -> AttemptState]]
    BY <2>2, <2>3, IdleType
  <2>6. attempt'[w][ch] = Idle /\ \A c \in Channel \ {ch} : attempt'[w][c] = attempt[w][c]
    BY <2>2, <2>4
  <2>7. AttemptsKept
    BY <2>4, <2>6 DEF AttemptsKept, Continues
  <2>8. ObservationTypeOK'
    BY <2>1, <2>5 DEF Correct, ObservationTypeOK
  <2>9. Still /\ RowsKept /\ request' = request /\ WaitersTold
    BY <2>1, SameRows, SameWaiters DEF Still, Correct
  <2>10. ObservationInv'
    BY <2>7, <2>9, Quiet DEF Correct
  <2> QED
    BY <2>8, <2>10 DEF Correct
<1> QED
  BY <1>3, <1>4

\* An append keeps the invariant.
LEMMA AppendKeeps ==
  ASSUME Correct, NEW ch \in Channel, AppendDurable(ch)
  PROVE  Correct'
<1>1. /\ Exceeds /\ NewbornDue /\ Unrelated /\ LedgersOK'
      /\ ledger' \in [Channel -> LedgerState \cup {Unborn}]
  BY LedgersKept DEF Correct
<1> QED
  BY <1>1, AppendTyped, Grown DEF Correct

\* A clone keeps the invariant.
LEMMA CloneKeeps ==
  ASSUME Correct, NEW f \in ForkPlan, NEW n \in 0 .. MaxEvent, PostClone(f, n)
  PROVE  Correct'
<1>1. /\ Exceeds /\ NewbornDue /\ Unrelated /\ LedgersOK'
      /\ ledger' \in [Channel -> LedgerState \cup {Unborn}]
  BY LedgersKeptByClone DEF Correct
<1> QED
  BY <1>1, CloneTyped, Grown DEF Correct

-----------------------------------------------------------------------------
(* The log follows the ledger *)

\* The invariant holds at first.
LEMMA ObservationStart == ObservationInit => Correct
<1> SUFFICES ASSUME ObservationInit PROVE Correct
  OBVIOUS
<1>1. ObservationTypeOK
  BY ObservationTypeInit
<1>2. /\ \A c \in Channel : Exists(c) => ledger[c] = NewLedger
      /\ \A c \in Channel : row[c] = NoRow /\ graph[c] = Absent
      /\ \A w \in Worker, c \in Channel : attempt[w][c] = Idle /\ request[w][c] = NoRequest
      /\ \A c \in Awaited : waiter[c] = NotWaiting
  BY DEF ObservationInit, Exists
<1>3. LedgerOK(NewLedger, issued) /\ LineageOK(NewLedger)
  <2>1. Len(<<>>) = 0 /\ DOMAIN <<>> = {}
    OBVIOUS
  <2>2. /\ NewLedger.events = <<>> /\ NewLedger.observed = 0 /\ NewLedger.parentObserved
        /\ NewLedger.parent = NoParent /\ NewLedger.forkSeq = 0
    BY DEF NewLedger
  <2> QED
    BY <2>1, <2>2 DEF LedgerOK, LineageOK, Increasing
<1>4. LedgersOK
  BY <1>2, <1>3 DEF LedgersOK
<1>5. RowsOK /\ AttemptsOK /\ RequestsOK /\ AnswersHeld /\ ForksWhole /\ GraphFollowsLedger
  BY <1>2, IdleType DEF RowsOK, AttemptsOK, AttemptOK, RequestsOK, AnswersHeld, ForksWhole, GraphFollowsLedger
<1>6. ObservedHeld
  <2>1. NewLedger.observed = 0 /\ ~NewLedger.rootObserved
    BY DEF NewLedger
  <2> QED
    BY <1>1, <1>2, <2>1, HeldType DEF ObservedHeld
<1>7. WaitVouches
  BY <1>2, IdleType DEF WaitVouches, NotWaiting
<1> QED
  BY <1>1, <1>4, <1>5, <1>6, <1>7 DEF Correct, ObservationInv

\* Every step keeps the invariant.
LEMMA ObservationStep == Correct /\ [ObservationNext]_observationVars => Correct'
<1> SUFFICES ASSUME Correct, [ObservationNext]_observationVars PROVE Correct'
  OBVIOUS
<1>1. ASSUME NEW ch \in Channel,
             AppendDurable(ch) \/ Evict(ch) \/ AdoptDurableWorkWorker(ch) \/ ClaimObservation(ch)
      PROVE  Correct'
  BY <1>1, AppendKeeps, EvictKeeps, AdoptKeeps, ClaimKeeps
<1>2. ASSUME NEW f \in ForkPlan, NEW n \in 0 .. MaxEvent, PostClone(f, n)
      PROVE  Correct'
  BY <1>2, CloneKeeps
<1>3. ASSUME NEW w \in Worker, NEW ch \in Channel, Drive(w, ch) \/ Serve(w, ch) \/ LoseAnswer(w, ch)
      PROVE  Correct'
  BY <1>3, PrepareClaimKeeps, ExecuteKeeps, SettleKeeps, FailKeeps, ServeKeeps, LoseKeeps DEF Drive
<1>4. ASSUME NEW ch \in Awaited, AbortWait(ch) \/ \E n \in 0 .. MaxEvent : WaitObservedThrough(ch, n)
      PROVE  Correct'
  BY <1>4, AbortKeeps, WaitKeeps
<1>5. CASE HostRestart
  BY <1>5, RestartKeeps
<1>6. CASE UNCHANGED observationVars
  <2>1. UNCHANGED <<ledger, issued, row, worker, offered, host, attempt, request, graph, waiter>>
    BY <1>6 DEF observationVars
  <2>2. ObservationTypeOK'
    BY <2>1 DEF Correct, ObservationTypeOK
  <2>3. Still /\ RowsKept /\ AttemptsKept /\ request' = request /\ WaitersTold
    BY <2>1, SameAttempts, SameRows, SameWaiters DEF Still, Correct
  <2>4. ObservationInv'
    BY <2>3, Quiet DEF Correct
  <2> QED
    BY <2>2, <2>4 DEF Correct
<1> QED
  BY <1>1, <1>2, <1>3, <1>4, <1>5, <1>6 DEF ObservationNext

\* The invariant always holds.
LEMMA ObservationCorrect == ObservationSpec => []Correct
  BY ObservationStart, ObservationStep, PTL DEF ObservationSpec

\* Every variable of the observation keeps its type, for any channels, forks, events and
\* generations of the driver.
THEOREM ObservationTypeCorrect == ObservationSpec => []ObservationTypeOK
<1>1. Correct => ObservationTypeOK
  BY DEF Correct
<1> QED
  BY <1>1, ObservationCorrect, PTL

\* The log authority never holds anything of a channel but a prefix of its ledger under
\* its lineage, for any number of drivers, late and lost calls, forks and evictions
\* (executeChannelObservationClaim, appendLogEvent, forkLog).
THEOREM LogFollows == ObservationSpec => []GraphFollowsLedger
<1>1. Correct => GraphFollowsLedger
  BY DEF Correct, ObservationInv
<1> QED
  BY <1>1, ObservationCorrect, PTL

\* Whoever is told that a prefix is observed finds it in the log authority, callers and
\* children whose fork is about to be made (settleObservationWaiters,
\* prepareChannelObservationClaim).
THEOREM Vouches == ObservationSpec => []WaitVouches
<1>1. Correct => WaitVouches
  BY DEF Correct, ObservationInv
<1> QED
  BY <1>1, ObservationCorrect, PTL

\* each log is left or goes on
LogsGrow == \A c \in Channel : graph[c] # Absent =>
  graph'[c] # Absent /\ IsPrefix(graph[c].events, graph'[c].events)

\* A step takes nothing away from a log, and puts nothing before its end.
LEMMA LogsStep == Correct /\ [ObservationNext]_observationVars => [LogsGrow]_observationVars
<1> SUFFICES ASSUME Correct, [ObservationNext]_observationVars PROVE LogsGrow
  OBVIOUS
<1>1. ASSUME NEW c \in Channel, graph[c] # Absent, graph' = graph
      PROVE  graph'[c] # Absent /\ IsPrefix(graph[c].events, graph'[c].events)
  <2>1. graph[c].events \in Seq(Event) /\ Len(graph[c].events) \in Nat
    BY <1>1, GraphIs DEF Correct
  <2>2. graph[c].events = Prefix(graph[c].events, Len(graph[c].events))
    BY <2>1 DEF Prefix
  <2> QED
    BY <1>1, <2>1, <2>2, IsPrefixFact
<1>2. ASSUME graph' = graph PROVE LogsGrow
  BY <1>1, <1>2 DEF LogsGrow
<1>3. ASSUME NEW w \in Worker, NEW ch \in Channel, Serve(w, ch)
      PROVE  LogsGrow
  <2>1. PICK q : q = request[w][ch]
    OBVIOUS
  <2>2. PICK s : s = AnswerTo(q, ch)
    OBVIOUS
  <2>3. q # NoRequest /\ graph' = s.graph /\ ledger' = ledger
    BY <1>3, <2>1, <2>2 DEF Serve, AnswerTo
  <2>4. q \in RequestState /\ RequestOK(q, ch)
    BY <2>1, <2>3, RequestIs DEF Correct, ObservationInv, RequestsOK
  <2>5. Served(s, ch, q.through)
    BY <2>2, <2>4, AnswerServed
  <2>6. SUFFICES ASSUME NEW c \in Channel, graph[c] # Absent
                 PROVE  graph'[c] # Absent /\ IsPrefix(graph[c].events, graph'[c].events)
    BY DEF LogsGrow
  <2>7. CASE c # ch
    <3>1. graph'[c] = graph[c]
      BY <2>3, <2>5, <2>7 DEF Served
    <3>2. graph[c].events \in Seq(Event) /\ Len(graph[c].events) \in Nat
      BY <2>6, GraphIs DEF Correct
    <3>3. graph[c].events = Prefix(graph[c].events, Len(graph[c].events))
      BY <3>2 DEF Prefix
    <3> QED
      BY <2>6, <3>1, <3>2, <3>3, IsPrefixFact
  <2>8. CASE c = ch
    <3>1. PICK l : l = ledger[ch].events
      OBVIOUS
    <3>2. PICK a : a = graph[ch].events
      OBVIOUS
    <3>3. PICK b : b = s.graph[ch].events
      OBVIOUS
    <3>4. s.graph[ch] # Absent /\ Len(a) <= Len(b) /\ IsPrefix(b, l) /\ s.graph[ch] \in LogState
      BY <2>5, <2>6, <2>8, <3>1, <3>2, <3>3 DEF Served, Faithful
    <3>5. IsPrefix(a, l)
      BY <2>6, <2>8, <3>1, <3>2 DEF Correct, ObservationInv, GraphFollowsLedger
    <3>6. a \in Seq(Event) /\ b \in Seq(Event) /\ l \in Seq(Event) /\ Len(l) \in Nat
      <4>1. Exists(ch)
        BY <2>4 DEF RequestOK
      <4> QED
        BY <2>6, <2>8, <3>1, <3>2, <3>3, <3>4, <4>1, GraphIs, LedgerIs, LedgerType DEF Correct, LogState
    <3>7. /\ Len(a) <= Len(l) /\ a = Prefix(l, Len(a))
          /\ Len(b) <= Len(l) /\ b = Prefix(l, Len(b))
      BY <3>4, <3>5, <3>6, IsPrefixFact
    <3>8. Len(a) \in Nat /\ Len(b) \in Nat /\ Len(b) \in 0 .. Len(l) /\ Len(a) \in 0 .. Len(b)
      BY <3>4, <3>6, <3>7
    <3>9. Prefix(Prefix(l, Len(b)), Len(a)) = Prefix(l, Len(a))
      BY <3>6, <3>8, PrefixOfPrefix
    <3>10. a = Prefix(b, Len(a))
      BY <3>7, <3>9
    <3>11. IsPrefix(a, b)
      BY <3>4, <3>6, <3>10, IsPrefixFact
    <3> QED
      BY <2>3, <2>8, <3>2, <3>3, <3>4, <3>11
  <2> QED
    BY <2>7, <2>8
<1>4. ASSUME NEW ch \in Channel,
             AppendDurable(ch) \/ Evict(ch) \/ AdoptDurableWorkWorker(ch) \/ ClaimObservation(ch)
      PROVE  graph' = graph
  BY <1>4 DEF AppendDurable, Evict, AdoptDurableWorkWorker, ClaimObservation
<1>5. ASSUME NEW f \in ForkPlan, NEW n \in 0 .. MaxEvent, PostClone(f, n)
      PROVE  graph' = graph
  BY <1>5 DEF PostClone
<1>6. ASSUME NEW w \in Worker, NEW ch \in Channel, Drive(w, ch) \/ LoseAnswer(w, ch)
      PROVE  graph' = graph
  BY <1>6 DEF Drive, PrepareClaim, ExecuteObservation, SettleObservation, FailObservation,
              LoseAnswer, Conclude
<1>7. ASSUME NEW ch \in Awaited, AbortWait(ch) \/ \E n \in 0 .. MaxEvent : WaitObservedThrough(ch, n)
      PROVE  graph' = graph
  BY <1>7 DEF AbortWait, WaitObservedThrough
<1>8. HostRestart => graph' = graph
  BY DEF HostRestart
<1>9. UNCHANGED observationVars => graph' = graph
  BY DEF observationVars
<1> QED
  BY <1>2, <1>3, <1>4, <1>5, <1>6, <1>7, <1>8, <1>9 DEF ObservationNext

\* No request, however late or repeated, takes anything away from a log: each step leaves
\* it or adds to its end (appendLogEvent, forkLog, initializeLogHead).
THEOREM LogsOnlyGrow == ObservationSpec => [][LogsGrow]_observationVars
  BY ObservationCorrect, LogsStep, PTL DEF ObservationSpec
=============================================================================
