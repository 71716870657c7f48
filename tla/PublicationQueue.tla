--------------------------- MODULE PublicationQueue --------------------------
(***************************************************************************)
(* The channel's one append pipeline: class PublicationQueue of            *)
(* workers/pubsub-channel/publication-queue.ts as appendDurable and        *)
(* admitPublishedEnvelopes of channel-do.ts use it, and the lifecycle      *)
(* release that seals and drains it.                                       *)
(*                                                                         *)
(* A publication waits for room, enters, is admitted (its envelope is      *)
(* stored), its receipt settles, and its completion, the recipients'       *)
(* answers, ends later.  Admissions are serial, and so are receipts.  A    *)
(* recipient may publish in turn before it answers.                        *)
(***************************************************************************)
EXTENDS Naturals, Sequences, SequencesExt, FiniteSets

CONSTANTS
  Pub,          \* publications, each one call of enqueue
  NoPub,
  ParentOf,     \* the publication whose recipient publishes p, or NoPub
  Envelope,     \* envelope ids
  EnvelopeOf,   \* the envelope a publication carries; a retry carries the same
  Observer,     \* slots for host requests that observe the queue
  Capacity,     \* 128 in the code
  NoHorizon

ASSUME PubAssumption ==
  /\ NoPub \notin Pub
  /\ ParentOf \in [Pub -> Pub \cup {NoPub}]
  /\ EnvelopeOf \in [Pub -> Envelope]
ASSUME CapacityAssumption == Capacity \in Nat \ {0}
ASSUME HorizonAssumption == NoHorizon \notin Nat

VARIABLES
  stage,        \* how far each publication got
  waitsOn,      \* the pending publication a publication without room awaits
  order,        \* the publications that entered, in order: both promise chains
  pending,      \* publications whose receipts are not settled
  completions,  \* publications whose completion has not ended
  faulted,      \* hasCompletionFailure
  sealed,
  aborted,      \* publicationLifetime
  log,          \* the ledger
  observer,     \* commitBarrier and drain promises, with the request they serve
  horizon       \* observationReleaseBarrier

queue == <<stage, waitsOn, order, pending, completions, faulted>>
vars == <<queue, sealed, aborted, log, observer, horizon>>

Settled == {"committed", "rejected", "completed", "dropped", "failed"}
Stage == {"new", "waiting", "refused", "queued", "admitting", "prepared",
          "unprepared"} \cup Settled
CommitRole == {"deliveryBarrier", "observationBarrier"}
CompletionRole == {"deliveryJoin", "release"}
Free == [role |-> "none", state |-> "free", failed |-> FALSE]
ObserverState ==
  {Free} \cup [role : CommitRole \cup CompletionRole,
               state : {"open", "resolved", "rejected"}, failed : BOOLEAN]

-----------------------------------------------------------------------------
(* The queue *)

Before(q, p) == \E i, j \in DOMAIN order : i < j /\ order[i] = q /\ order[j] = p
Oldest(S) == CHOOSE p \in S : \A q \in S : q = p \/ Before(p, q)

Waits(p, q) == /\ stage' = [stage EXCEPT ![p] = "waiting"]
               /\ waitsOn' = [waitsOn EXCEPT ![p] = q]
               /\ UNCHANGED <<order, pending, completions>>
Refused(p) == /\ stage' = [stage EXCEPT ![p] = "refused"]
              /\ waitsOn' = [waitsOn EXCEPT ![p] = NoPub]
              /\ UNCHANGED <<order, pending, completions>>
Entered(p) == /\ stage' = [stage EXCEPT ![p] = "queued"]
              /\ waitsOn' = [waitsOn EXCEPT ![p] = NoPub]
              /\ order' = Append(order, p)
              /\ pending' = pending \cup {p}
              /\ completions' = completions \cup {p}

\* mutant: the seal is looked at before the wait for room only
EnqueueSealedFirst(p) ==
  \/ stage[p] = "new" /\ sealed /\ Refused(p)
  \/ /\ stage[p] = "new" => ~sealed
     /\ \/ Cardinality(pending) >= Capacity /\ Waits(p, Oldest(pending))
        \/ Cardinality(pending) < Capacity /\ Entered(p)
\* enqueue up to its first wait, and again whenever the awaited receipt settled
Enqueue(p) ==
  \/ Cardinality(pending) >= Capacity /\ Waits(p, Oldest(pending))
  \/ Cardinality(pending) < Capacity /\ sealed /\ Refused(p)
  \/ Cardinality(pending) < Capacity /\ ~sealed /\ Entered(p)

Publish(p) ==
  /\ stage[p] = "new"
  /\ ParentOf[p] # NoPub => stage[ParentOf[p]] = "committed"
  /\ Enqueue(p)
  /\ UNCHANGED <<faulted, sealed, aborted, log, observer, horizon>>

Awake(p) ==
  /\ stage[p] = "waiting" /\ waitsOn[p] \notin pending
  /\ Enqueue(p)
  /\ UNCHANGED <<faulted, sealed, aborted, log, observer, horizon>>

Goto(p, s) == stage' = [stage EXCEPT ![p] = s]

\* mutant: an admission does not await the previous one
AdmitAtOnce(p) ==
  /\ stage[p] = "queued"
  /\ Goto(p, "admitting")
  /\ UNCHANGED <<waitsOn, order, pending, completions, faulted, sealed, aborted,
                 log, observer, horizon>>
Admit(p) ==
  /\ stage[p] = "queued"
  /\ \A q \in Pub : Before(q, p) => stage[q] \notin {"queued", "admitting"}
  /\ Goto(p, "admitting")
  /\ UNCHANGED <<waitsOn, order, pending, completions, faulted, sealed, aborted,
                 log, observer, horizon>>

Stored(e) == IF e \in Range(log) THEN log ELSE Append(log, e)

\* commitPublication and appendPrepared: an envelope that is stored is not
\* stored again, its stored event is the answer
Prepare(p) ==
  /\ stage[p] = "admitting"
  /\ log' = Stored(EnvelopeOf[p])
  /\ Goto(p, "prepared")
  /\ UNCHANGED <<waitsOn, order, pending, completions, faulted, sealed, aborted,
                 observer, horizon>>

\* they throw, before the ledger append or in the folds that follow it
PrepareFails(p) ==
  /\ stage[p] = "admitting"
  /\ log' \in {log, Stored(EnvelopeOf[p])}
  /\ Goto(p, "unprepared")
  /\ UNCHANGED <<waitsOn, order, pending, completions, faulted, sealed, aborted,
                 observer, horizon>>

\* settleCompletionObservers
SettleObservers(failed) ==
  observer' = [o \in Observer |->
    LET s == observer[o]
        busy == pending' # {} \/ (s.role \in CompletionRole /\ completions' # {})
        bad == s.failed \/ failed \/ (s.role \in CompletionRole /\ faulted')
    IN  IF s.state # "open" THEN s
        ELSE IF busy THEN [s EXCEPT !.failed = @ \/ failed]
        ELSE [s EXCEPT !.failed = @ \/ failed,
                       !.state = IF bad THEN "rejected" ELSE "resolved"]]

IsNext(p) == \A q \in Pub : Before(q, p) => stage[q] \in Settled

\* mutant: a receipt holds its room until the recipients answered
SettleReceiptKeepsRoom(p) ==
  /\ stage[p] \in {"prepared", "unprepared"} /\ IsNext(p)
  /\ Goto(p, IF stage[p] = "prepared" THEN "committed" ELSE "rejected")
  /\ IF stage[p] = "prepared" THEN UNCHANGED pending ELSE pending' = pending \ {p}
  /\ UNCHANGED <<waitsOn, order, completions, faulted, sealed, aborted, log, horizon>>
  /\ SettleObservers(stage[p] = "unprepared")
\* the receipt certifies that the envelope is stored and gives the room back
SettleReceipt(p) ==
  /\ stage[p] \in {"prepared", "unprepared"} /\ IsNext(p)
  /\ Goto(p, IF stage[p] = "prepared" THEN "committed" ELSE "rejected")
  /\ pending' = pending \ {p}
  /\ UNCHANGED <<waitsOn, order, completions, faulted, sealed, aborted, log, horizon>>
  /\ SettleObservers(stage[p] = "unprepared")

\* the recipients answered, or their failures were recorded: a recipient that
\* published answers after its own receipts, an aborted call ends without it
Answered(p) ==
  /\ stage[p] = "committed"
  /\ \/ aborted
     \/ \A c \in Pub : ParentOf[c] = p => stage[c] \in Settled \cup {"new", "refused"}

Complete(p) ==
  /\ Answered(p)
  /\ Goto(p, "completed")
  /\ completions' = completions \ {p}
  /\ UNCHANGED <<waitsOn, order, pending, faulted, sealed, aborted, log, horizon>>
  /\ SettleObservers(FALSE)

\* a failure could not even be recorded with the delivery
\* mutant: only the observers of the moment learn of it
CompleteFailsForgotten(p) ==
  /\ Answered(p)
  /\ Goto(p, "failed")
  /\ completions' = completions \ {p}
  /\ UNCHANGED <<waitsOn, order, pending, faulted, sealed, aborted, log, horizon>>
  /\ SettleObservers(TRUE)
CompleteFails(p) ==
  /\ Answered(p)
  /\ Goto(p, "failed")
  /\ completions' = completions \ {p}
  /\ faulted' = TRUE
  /\ UNCHANGED <<waitsOn, order, pending, sealed, aborted, log, horizon>>
  /\ SettleObservers(TRUE)

\* a rejected publication has no recipients: its completion just ends
Drop(p) ==
  /\ stage[p] = "rejected"
  /\ Goto(p, "dropped")
  /\ completions' = completions \ {p}
  /\ UNCHANGED <<waitsOn, order, pending, faulted, sealed, aborted, log, horizon>>
  /\ SettleObservers(FALSE)

-----------------------------------------------------------------------------
(* The lifecycle of the owner *)

\* observe: a new observer settles at once when there is nothing to wait for
Observe(o, role) ==
  LET busy == pending # {} \/ (role \in CompletionRole /\ completions # {})
      bad == role \in CompletionRole /\ faulted
  IN
  /\ observer[o] = Free
  /\ observer' = [observer EXCEPT ![o] =
       [role |-> role, failed |-> FALSE,
        state |-> IF busy THEN "open" ELSE IF bad THEN "rejected" ELSE "resolved"]]

\* prepareDurableWorkRelease("delivery") and waitDurableWorkRelease("delivery")
DeliveryRelease(o) ==
  /\ \/ Observe(o, "deliveryBarrier") \/ Observe(o, "deliveryJoin")
  /\ UNCHANGED <<queue, sealed, aborted, log, horizon>>

\* prepareDurableWorkRelease("observation"): seal, then await the receipts
PrepareObservation(o) ==
  /\ Observe(o, "observationBarrier")
  /\ sealed' = TRUE
  /\ UNCHANGED <<queue, aborted, log, horizon>>

\* releaseForLifecycle: seal, abort the recipients' calls, drain
\* mutant: the calls to recipients go on
ReleaseWithoutAbort(o) ==
  /\ Observe(o, "release")
  /\ sealed' = TRUE
  /\ UNCHANGED <<queue, aborted, log, horizon>>
Release(o) ==
  /\ Observe(o, "release")
  /\ sealed' = TRUE
  /\ aborted' = TRUE
  /\ UNCHANGED <<queue, log, horizon>>

\* the host aborts its request
AbortObserver(o) ==
  /\ observer[o].state = "open" /\ observer[o].role # "release"
  /\ observer' = [observer EXCEPT ![o] = Free]
  /\ UNCHANGED <<queue, sealed, aborted, log, horizon>>

\* the request goes on after its wait; an observation release captures the head
Return(o) ==
  /\ observer[o].state \in {"resolved", "rejected"}
  /\ observer' = [observer EXCEPT ![o] = Free]
  /\ horizon' = IF observer[o].role = "observationBarrier" /\ observer[o].state = "resolved"
                  THEN Len(log) ELSE horizon
  /\ UNCHANGED <<queue, sealed, aborted, log>>

\* cancelLifecyclePreparation: the host has ended its preparation requests and
\* has not released
Cancel ==
  /\ \A o \in Observer : observer[o] = Free
  /\ ~aborted
  /\ sealed' = FALSE
  /\ horizon' = NoHorizon
  /\ UNCHANGED <<queue, aborted, log, observer>>

-----------------------------------------------------------------------------

Init ==
  /\ stage = [p \in Pub |-> "new"] /\ waitsOn = [p \in Pub |-> NoPub]
  /\ order = <<>> /\ pending = {} /\ completions = {} /\ faulted = FALSE
  /\ sealed = FALSE /\ aborted = FALSE
  /\ log = <<>>
  /\ observer = [o \in Observer |-> Free]
  /\ horizon = NoHorizon

Progress(p) ==
  \/ Awake(p) \/ Admit(p) \/ Prepare(p) \/ PrepareFails(p)
  \/ SettleReceipt(p) \/ Drop(p)
Finish(p) == Complete(p) \/ CompleteFails(p)

Next ==
  \/ \E p \in Pub : Publish(p) \/ Progress(p) \/ Finish(p)
  \/ \E o \in Observer : \/ DeliveryRelease(o) \/ PrepareObservation(o) \/ Release(o)
                         \/ AbortObserver(o) \/ Return(o)
  \/ Cancel

\* the activation runs its own continuations.  A recipient may never answer:
\* only the abort of the release makes its call end
Fairness ==
  \A p \in Pub : WF_vars(Progress(p)) /\ WF_vars(aborted /\ Finish(p))

Spec == Init /\ [][Next]_vars /\ Fairness

-----------------------------------------------------------------------------
(* Properties *)

\* Every variable has its type.
TypeOK ==
  /\ stage \in [Pub -> Stage] /\ waitsOn \in [Pub -> Pub \cup {NoPub}]
  /\ order \in Seq(Pub) /\ pending \subseteq Pub /\ completions \subseteq Pub
  /\ faulted \in BOOLEAN /\ sealed \in BOOLEAN /\ aborted \in BOOLEAN
  /\ log \in Seq(Envelope)
  /\ observer \in [Observer -> ObserverState]
  /\ horizon \in Nat \cup {NoHorizon}

\* However many publications wait for the same receipt, and whoever overtakes
\* them when it settles, no more than Capacity receipts are open.
BacklogBounded == Cardinality(pending) <= Capacity

\* A fulfilled receipt means the envelope is stored, and envelopes are stored in
\* the order their publications entered, failed and retried ones included.
Carries(i, e) == EnvelopeOf[order[i]] = e
StoredInOrder ==
  /\ \A p \in Pub : stage[p] \in {"committed", "completed", "failed"}
                      => EnvelopeOf[p] \in Range(log)
  /\ \A i, j \in DOMAIN log : i < j =>
       \E a, b \in DOMAIN order : a < b /\ Carries(a, log[i]) /\ Carries(b, log[j])

\* The head an observation release captured stays the head until the release is
\* cancelled: no publication that waited for room when the queue was sealed, and
\* none that was under way, moves the log past it.
HorizonHolds == horizon # NoHorizon => horizon = Len(log)

\* A drain that resolves vouches for everything: no receipt is open, every
\* completion has ended, and none has ever failed.
DrainVouches ==
  [][\A o \in Observer :
       /\ observer[o].state # "resolved" /\ observer'[o].state = "resolved"
       /\ observer'[o].role \in CompletionRole
       => \A p \in Pub : stage'[p] \in {"new", "waiting", "refused", "completed", "dropped"}]_vars

\* Receipts never depend on recipients: even when no recipient ever answers and
\* recipients publish in turn into a full queue, every publication gets its
\* receipt or is refused.
ReceiptsSettle ==
  \A p \in Pub : stage[p] # "new" ~> stage[p] \in Settled \cup {"refused"}

\* A release always comes to its end, recipients that hang included.
ReleaseEnds ==
  \A o \in Observer : observer[o].role = "release" ~> observer[o].state # "open"
=============================================================================
