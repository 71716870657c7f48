-------------------------- MODULE ChannelDelivery --------------------------
(***************************************************************************)
(* One lane of a channel's mailbox (workers/pubsub-channel/channel-do.ts,  *)
(* delivery-projection.ts): the deliveries one participant is owed, from   *)
(* the event's publication to the participant's admission of it.  A        *)
(* delivery travels twice: in a live attempt made by the activation that   *)
(* published, and in a claim the host's work driver leases, executes and   *)
(* settles.  The participant is an agent that admits durably               *)
(* (agentic-do/native-channel-session.ts), reached "direct", or a session  *)
(* resident in memory, reached through the "mailbox".  The ledger is the   *)
(* number of events addressed to the participant: ChannelMembership models *)
(* how handlers append and fold, here both are one step.                   *)
(***************************************************************************)
EXTENDS Naturals, FiniteSets, FiniteSetsExt

CONSTANTS
  Route,        \* how the participant may be reached
  Call,         \* the events that are calls still pending when it joins again
  MaxEvent,     \* bound on the events
  MaxWorker,    \* bound on the generations of the host's work driver
  MaxFault      \* bound on failures, refusals, losses, departures and crashes

ASSUME RouteAssumption == Route \subseteq {"direct", "mailbox"}
ASSUME LimitAssumption ==
  /\ MaxEvent \in Nat /\ MaxWorker \in Nat \ {0} /\ MaxFault \in Nat
  /\ Call \subseteq 1 .. MaxEvent

VARIABLES
  route,
  len,          \* the ledger's last event
  rel,          \* the relationship: revision, attached, the range owed
  box,          \* the mailbox rows
  owner,        \* the work driver generation the channel has adopted
  host,         \* the work driver generation that runs
  going,        \* the deliveries under way to the participant
  lock,         \* who mutates the relationship
  waiter,       \* the release that waits for deliveries, an event or 0
  session,      \* the participant: none, opening its join, joined by it, or
                \* joined by the answer to an operation tried again
  op,           \* the revision its unanswered join operation committed, or 0
  taken,        \* history: how often an agent admitted each event; for a
                \* session, 1 once it took the event
  faults

channel == <<len, rel, box, owner, lock, waiter>>
vars == <<route, channel, host, going, session, op, taken, faults>>

Open == {"ready", "leased", "retrying"}
NoLock == [by |-> "nobody", at |-> 0]

NewRow(s, rev) == [seq |-> s, rev |-> rev, st |-> "ready", owner |-> 0, gen |-> 0,
                   crev |-> 0, failed |-> FALSE]
OpenRows == {r \in box : r.st \in Open}
\* no lease: the generation is read again only by the next one
Freed(r, st) == [r EXCEPT !.st = st, !.owner = 0, !.crev = 0,
                          !.gen = IF st \in Open THEN @ ELSE 0]
Sent(r) == [by |-> r.owner, seq |-> r.seq, rev |-> r.rev, gen |-> r.gen, pc |-> "sent"]

Init ==
  /\ route \in Route
  /\ len = 0
  /\ rel = [rev |-> 1, attached |-> TRUE, at |-> 0, gap |-> <<>>]
  /\ box = {} /\ owner = 1 /\ host = 1 /\ going = {}
  /\ lock = NoLock /\ waiter = 0
  /\ session = "joined" /\ op = 0
  /\ taken = [s \in 1 .. MaxEvent |-> 0] /\ faults = 0

Fault == faults < MaxFault /\ faults' = faults + 1
Joined == session \in {"joined", "retried"}

(* settleDeliveryWaiters: the release that waits for the events up to s is   *)
(* told of a failure, or that none of the deliveries is open                 *)
Blocks(rows, s) == {r \in rows : r.seq <= s /\ r.st \in Open}
Breaks(rows, s) ==
  {r \in rows : /\ r.seq <= s
                /\ \/ r.st \in {"ready", "retrying"} /\ r.failed
                   \/ r.st = "integrity"}
Waits(rows, s) == s # 0 /\ Breaks(rows, s) = {} /\ Blocks(rows, s) # {}
SettleDeliveryWaiters == waiter' = IF Waits(box', waiter) THEN waiter ELSE 0

-----------------------------------------------------------------------------
(* Publication *)

(* the delivery is derived and a live attempt starts at once, beside those  *)
(* under way: by 0 stands for the publishing activation                     *)
Publish ==
  /\ len < MaxEvent /\ rel.gap = <<>>
  /\ len' = len + 1
  /\ LET row == NewRow(len + 1, rel.rev) IN
     IF rel.attached
       THEN box' = box \cup {row} /\ going' = going \cup {Sent(row)}
       ELSE UNCHANGED <<box, going>>
  /\ SettleDeliveryWaiters
  /\ UNCHANGED <<route, rel, owner, lock, host, session, op, taken, faults>>

-----------------------------------------------------------------------------
(* Claims *)

\* mutant: the leases of the generation before stay
ReleasedNothing(w) == box
\* adopting another generation takes back what the previous one leased
Released(w) ==
  IF w = owner THEN box
  ELSE {IF r.st = "leased" /\ r.owner = owner THEN Freed(r, "ready") ELSE r : r \in box}

\* an earlier delivery that is still open holds the lane
Candidates(rows) ==
  {r \in rows : /\ r.st \in {"ready", "retrying"} /\ rel.attached
                /\ \A b \in rows : b.st \in Open => b.seq >= r.seq}

Lease(r, w) == [r EXCEPT !.st = "leased", !.owner = w, !.gen = @ + 1, !.crev = rel.rev]

\* D: the candidates that are due and within the request's limit
ClaimReadyWork(w) ==
  LET rows == Released(w) IN
  \E D \in SUBSET Candidates(rows) :
    /\ D # {} \/ w # owner
    /\ owner' = w
    /\ box' = (rows \ D) \cup {Lease(r, w) : r \in D}
    /\ going' = going \cup {Sent(Lease(r, w)) : r \in D}
    /\ SettleDeliveryWaiters
    /\ UNCHANGED <<route, len, rel, lock, host, session, op, taken, faults>>

\* the server is replaced: what it executes is lost, or still reports
HostRestarts ==
  /\ host < MaxWorker /\ host' = host + 1
  /\ \E L \in SUBSET {c \in going : c.by # 0 /\ c.pc # "detaching"} : going' = going \ L
  /\ UNCHANGED <<route, channel, session, op, taken, faults>>

-----------------------------------------------------------------------------
(* The participant *)

Becomes(c, pc) ==
  /\ going' = (going \ {c}) \cup {[c EXCEPT !.pc = pc]}
  /\ UNCHANGED <<route, channel, host, session, op>>

Taken(s) == taken[s] > 0

(* acceptChannelDelivery, direct: a delivery or an event admitted before is *)
(* answered as a duplicate                                                  *)
AgentVerifies(c) ==
  /\ route = "direct" /\ c.pc = "sent" /\ (Taken(c.seq) \/ Joined)
  /\ Becomes(c, IF Taken(c.seq) THEN "duplicate" ELSE "verified")
  /\ UNCHANGED <<taken, faults>>

\* mutant: the submission relies on the verification that came before it
AdmitUnchecked(c) ==
  /\ c.pc = "verified"
  /\ taken' = [taken EXCEPT ![c.seq] = @ + 1] /\ Becomes(c, "processed") /\ UNCHANGED faults
(* submitNativeChannelDelivery: one transaction writes the admission of the *)
(* delivery and of its source event; it throws when either exists, and the  *)
(* replay is verified instead                                               *)
Admit(c) ==
  /\ c.pc = "verified"
  /\ IF Taken(c.seq) THEN UNCHANGED taken /\ Becomes(c, "duplicate")
     ELSE taken' = [taken EXCEPT ![c.seq] = @ + 1] /\ Becomes(c, "processed")
  /\ UNCHANGED faults

\* mailbox: the receiver that is registered takes it, without one it fails
SessionTakes(c) ==
  /\ route = "mailbox" /\ c.pc = "sent"
  /\ \/ session = "none" /\ UNCHANGED taken /\ Becomes(c, "unavailable")
     \/ Joined /\ taken' = [taken EXCEPT ![c.seq] = 1] /\ Becomes(c, "processed")
  /\ UNCHANGED faults

(* not taken yet: the replay is being applied (ResidentReplayInProgress),   *)
(* the agent's subscription is not stored (SubscriptionCommitPending)       *)
Defers(c) ==
  /\ Fault /\ c.pc = "sent"
  /\ IF route = "mailbox" THEN session = "opening" ELSE ~Joined /\ ~Taken(c.seq)
  /\ Becomes(c, "failed") /\ UNCHANGED taken
\* the participant fails, or its answer is lost
Fails(c) ==
  /\ Fault /\ c.pc \in {"sent", "verified", "processed", "duplicate"}
  /\ Becomes(c, "failed") /\ UNCHANGED taken
\* PermanentChannelDelivery
Refuses(c) ==
  /\ Fault /\ c.pc = "sent" /\ ~Taken(c.seq)
  /\ Becomes(c, "permanent") /\ UNCHANGED taken

-----------------------------------------------------------------------------
(* What the channel does with the answer *)

Acknowledged(c) == c.pc \in {"processed", "duplicate"}
Answered(c) == c.pc \notin {"sent", "verified"}
Completed(r) == [Freed(r, "completed") EXCEPT !.failed = FALSE]

Answers(c) ==
  /\ going' = going \ {c} /\ SettleDeliveryWaiters
  /\ UNCHANGED <<route, len, owner, host, session, op, taken, faults>>

Row(c) == {r \in box : r.seq = c.seq /\ r.rev = c.rev}
Held(c) == {r \in Row(c) : r.st = "leased" /\ r.owner = c.by /\ r.gen = c.gen}

(* settleOwnedDelivery: a delivery the host has leased meanwhile stays its  *)
(* claim's                                                                  *)
SettleOwned(c) ==
  /\ c.by = 0 /\ Acknowledged(c)
  /\ box' = {IF r \in Row(c) /\ r.st = "ready" THEN Completed(r) ELSE r : r \in box}
  /\ Answers(c) /\ UNCHANGED <<rel, lock>>

RecordOwnedFailure(c) ==
  /\ c.by = 0 /\ Answered(c) /\ ~Acknowledged(c)
  /\ box' = {IF r \in Row(c) /\ r.st \in Open THEN [r EXCEPT !.failed = TRUE] ELSE r :
               r \in box}
  /\ Answers(c) /\ UNCHANGED <<rel, lock>>

SettleReadyWork(c) ==
  /\ c.by # 0 /\ Acknowledged(c)
  /\ box' = {IF r \in Held(c) THEN Completed(r) ELSE r : r \in box}
  /\ Answers(c) /\ UNCHANGED <<rel, lock>>

FailReadyWork(c) ==
  /\ c.by # 0 /\ c.pc \in {"failed", "permanent"}
  /\ box' = {IF r \in Held(c)
               THEN [Freed(r, IF c.pc = "failed" THEN "retrying" ELSE "integrity")
                       EXCEPT !.failed = TRUE]
               ELSE r : r \in box}
  /\ Answers(c) /\ UNCHANGED <<rel, lock>>

-----------------------------------------------------------------------------
(* ResidentSessionUnavailable *)

\* mutant: the participant's outstanding deliveries are not looked up
DetachBoundaryAsked(upper) == upper
\* the least open event bounds what a detachment may declare delivered
DetachRecoveryBoundary(upper) ==
  LET S == {r.seq : r \in OpenRows}
  IN IF S = {} \/ upper < Min(S) THEN upper ELSE Min(S) - 1

Stale(c) ==
  /\ c.by # 0 /\ c.pc = "unavailable" /\ Held(c) = {}
  /\ UNCHANGED <<box, rel, lock>> /\ Answers(c)

\* mutant: the relationship the claim was made under is not compared
PredatesNone(r) == FALSE
Predates(r) == r.crev # rel.rev

\* mutant: the delivery stays leased to a claim that has ended
RequeuedNot(r) == r
Requeued(r) == Freed(r, "ready")

\* under the participant's lock: the claim may predate the relationship
FailUnavailable(c) ==
  /\ c.by # 0 /\ c.pc = "unavailable" /\ lock = NoLock
  /\ \E r \in Held(c) :
       \/ /\ Predates(r)
          /\ box' = (box \ {r}) \cup {Requeued(r)}
          /\ UNCHANGED <<rel, lock>> /\ Answers(c)
       \/ /\ ~Predates(r) /\ rel.attached /\ rel.gap = <<>>
          /\ lock' = [by |-> "detach", at |-> DetachRecoveryBoundary(c.seq - 1)]
          /\ going' = (going \ {c}) \cup {[c EXCEPT !.pc = "detaching"]}
          /\ UNCHANGED <<route, len, rel, box, owner, waiter, host, session, op, taken, faults>>

\* the participant asks to be detached
DetachRequested ==
  /\ Fault /\ Joined /\ lock = NoLock /\ rel.gap = <<>>
  /\ lock' = IF rel.attached THEN [by |-> "detach", at |-> DetachRecoveryBoundary(len)]
             ELSE NoLock
  /\ session' = "none"
  /\ UNCHANGED <<route, len, rel, box, owner, waiter, host, going, op, taken>>

Retired(r) == IF r.st \in Open THEN Freed(r, "retired") ELSE r
\* channel.subscription.detached is in the ledger and folded
Detached ==
  /\ lock.by = "detach" /\ lock' = NoLock
  /\ rel' = [rev |-> rel.rev + 1, attached |-> FALSE, at |-> lock.at, gap |-> <<>>]
  /\ box' = {Retired(r) : r \in box}
  /\ going' = {c \in going : c.pc # "detaching"} /\ SettleDeliveryWaiters
  /\ UNCHANGED <<route, len, owner, host, session, op, taken, faults>>

-----------------------------------------------------------------------------
(* Joining again *)

\* the resident session registers, the agent prepares its subscription
Opens ==
  /\ session = "none" /\ session' = "opening"
  /\ UNCHANGED <<route, channel, host, going, op, taken, faults>>

(* an operation that committed before answers with its revision, whatever   *)
(* became of the relationship since                                         *)
Join ==
  /\ session = "opening" /\ lock = NoLock /\ rel.gap = <<>>
  /\ IF op # 0 THEN UNCHANGED <<rel, op>>
     ELSE /\ rel' = [rev |-> rel.rev + 1, attached |-> TRUE, at |-> 0,
                     gap |-> IF rel.attached THEN <<>> ELSE <<rel.at, len>>]
          /\ op' = rel.rev + 1
  /\ lock' = [by |-> IF op = 0 THEN "join" ELSE "rejoin", at |-> 0]
  /\ UNCHANGED box /\ SettleDeliveryWaiters
  /\ UNCHANGED <<route, len, owner, host, going, session, taken, faults>>

(* resumeReattachBackfills: deliveries for the events missed while detached *)
Backfill ==
  /\ rel.gap # <<>>
  /\ box' = box \cup {NewRow(s, rel.rev) : s \in rel.gap[1] + 1 .. rel.gap[2]}
  /\ rel' = [rel EXCEPT !.gap = <<>>]
  /\ UNCHANGED <<route, len, owner, lock, waiter, host, going, session, op, taken, faults>>

Joining == lock.by \in {"join", "rejoin", "orphan"} /\ rel.gap = <<>>

RearmRetryingFor ==
  /\ Joining /\ lock.at = 0 /\ lock' = [lock EXCEPT !.at = 1]
  /\ box' = {IF r.st = "retrying" THEN Freed(r, "ready") ELSE r : r \in box}
  /\ UNCHANGED <<route, len, rel, owner, waiter, host, going, session, op, taken, faults>>

(* redeliverPendingCallsTo: the event of a call that is pending still is    *)
(* derived again under the present revision; a delivery of that revision    *)
(* that ended starts afresh                                                 *)
RedeliverPendingCallsTo ==
  /\ Joining /\ lock.at = 1 /\ lock' = [lock EXCEPT !.at = 2]
  /\ \E P \in SUBSET {s \in Call : s <= len} :
       LET Old(s) == {r \in box : r.seq = s /\ r.rev = rel.rev}
           again == {s \in P : /\ route = "mailbox" /\ rel.attached
                               /\ \A r \in Old(s) : r.st \notin Open}
           Fresh(s) == [NewRow(s, rel.rev) EXCEPT !.failed = \E r \in Old(s) : r.failed]
       IN box' = (box \ UNION {Old(s) : s \in again}) \cup {Fresh(s) : s \in again}
  /\ UNCHANGED <<route, len, rel, owner, waiter, host, going, session, op, taken, faults>>

(* an answer lost on the way ends the attempt, and the client's next one    *)
(* tries the operation again; nobody hears the answer to an orphan          *)
JoinAnswered ==
  /\ Joining /\ lock.at = 2 /\ lock' = NoLock
  /\ \/ /\ lock.by # "orphan" /\ op' = 0 /\ UNCHANGED faults
        /\ session' = IF lock.by = "join" THEN "joined" ELSE "retried"
     \/ lock.by # "orphan" /\ Fault /\ session' = "none" /\ UNCHANGED op
     \/ lock.by = "orphan" /\ UNCHANGED <<session, op, faults>>
  /\ UNCHANGED <<route, len, rel, box, owner, waiter, host, going, taken>>

\* the resident session goes, and with it the operation it would repeat
SessionEnds ==
  /\ Fault /\ route = "mailbox" /\ session # "none" /\ session' = "none" /\ op' = 0
  /\ lock' = IF lock.by \in {"join", "rejoin"} THEN [lock EXCEPT !.by = "orphan"] ELSE lock
  /\ UNCHANGED <<route, len, rel, box, owner, waiter, host, going, taken>>

-----------------------------------------------------------------------------
(* Release and crash *)

\* waitDeliveryThrough, after the live attempts have ended (drain)
WaitDeliveryThrough ==
  /\ waiter = 0 /\ Waits(box, len) /\ \A c \in going : c.by # 0
  /\ waiter' = len
  /\ UNCHANGED <<route, len, rel, box, owner, lock, host, going, session, op, taken, faults>>

\* live attempts, the lock and the waiter are the activation's
ActivationEnds ==
  /\ Fault
  /\ going' = {IF c.pc = "detaching" THEN [c EXCEPT !.pc = "unavailable"] ELSE c :
                c \in {d \in going : d.by # 0}}
  /\ lock' = NoLock /\ waiter' = 0
  /\ session' = IF lock.by \in {"join", "rejoin"} THEN "none" ELSE session
  /\ UNCHANGED <<route, len, rel, box, owner, host, op, taken>>

-----------------------------------------------------------------------------

Participates(c) == AgentVerifies(c) \/ Admit(c) \/ SessionTakes(c)
Reports(c) ==
  \/ SettleOwned(c) \/ RecordOwnedFailure(c) \/ SettleReadyWork(c) \/ FailReadyWork(c)
  \/ Stale(c) \/ FailUnavailable(c)
Joins == Join \/ Backfill \/ RearmRetryingFor \/ RedeliverPendingCallsTo \/ JoinAnswered

Next ==
  \/ Publish \/ ClaimReadyWork(host) \/ HostRestarts
  \/ \E c \in going : Participates(c) \/ Defers(c) \/ Fails(c) \/ Refuses(c) \/ Reports(c)
  \/ DetachRequested \/ Detached \/ Opens \/ Joins \/ SessionEnds
  \/ WaitDeliveryThrough \/ ActivationEnds

Spec == Init /\ [][Next]_vars

(* Fairness.  The host claims while the channel reports work ready and       *)
(* executes and reports what it claimed; a participant that is up answers;   *)
(* a session that is wanted opens; the channel's handlers run on.  Nothing   *)
(* makes a publication, a restart or a fault happen.                         *)
FairSpec ==
  /\ Spec
  /\ WF_vars(ClaimReadyWork(host))
  /\ WF_vars(\E c \in going : Participates(c)) /\ WF_vars(\E c \in going : Reports(c))
  /\ WF_vars(Detached) /\ WF_vars(Opens) /\ WF_vars(Joins)
-----------------------------------------------------------------------------

(* The variables have their types. *)
Answer == {"sent", "verified", "processed", "duplicate", "failed", "permanent",
           "unavailable", "detaching"}
RowState == [seq : Nat, rev : Nat, st : Open \cup {"completed", "integrity", "retired"},
             owner : Nat, gen : Nat, crev : Nat, failed : BOOLEAN]
ClaimState == [by : Nat, seq : Nat, rev : Nat, gen : Nat, pc : Answer]
TypeOK ==
  /\ route \in Route /\ len \in 0 .. MaxEvent
  /\ rel \in [rev : Nat \ {0}, attached : BOOLEAN, at : Nat, gap : {<<>>} \cup (Nat \X Nat)]
  /\ box \subseteq RowState
  /\ \A r \in box : /\ r.seq \in 1 .. len /\ r.rev \in 1 .. rel.rev /\ r.crev \in 0 .. rel.rev
                     /\ IF r.st = "leased" THEN r.owner = owner ELSE r.owner = 0
  /\ owner \in 1 .. host /\ host \in 1 .. MaxWorker
  /\ going \subseteq ClaimState
  /\ \A c \in going : c.by \in 0 .. owner /\ c.seq \in 1 .. len /\ c.rev \in 1 .. rel.rev
  /\ lock \in [by : {"nobody", "detach", "join", "rejoin", "orphan"}, at : Nat]
  /\ waiter \in 0 .. len /\ op \in 0 .. rel.rev
  /\ session \in {"none", "opening", "joined", "retried"}
  /\ taken \in [1 .. MaxEvent -> Nat]
  /\ faults \in 0 .. MaxFault

(* An agent admits an event once, though the publication's live attempt,     *)
(* claims of several work drivers and deliveries of several revisions carry  *)
(* it at the same time (native-channel-session.ts, SourceEventAdmission).    *)
AdmittedOnce == \A s \in 1 .. len : taken[s] <= 1

(* Whatever fails, restarts or detaches, an event the participant has not    *)
(* taken is open in the mailbox, was given up as an integrity error, or lies *)
(* in the range the next join brings back (detachRecoveryBoundary).          *)
Owed(s) ==
  \/ \E r \in box : r.seq = s /\ r.st \in Open \cup {"integrity"}
  \/ ~rel.attached /\ s > rel.at
  \/ rel.gap # <<>> /\ s \in rel.gap[1] + 1 .. rel.gap[2]
OwedIsKept == \A s \in 1 .. len : Taken(s) \/ Owed(s)

(* A session that has joined stays attached: a claim that found no session   *)
(* before it joined does not detach it, however late its failure is reported *)
(* and whoever has claimed the delivery since (failReadyWork).               *)
JoinStaysAttached == session = "joined" => rel.attached

(* The same of a session whose join was answered at its second try: the     *)
(* answer names the relationship the first try opened, detached since or not *)
(* (rpc-client.ts, "A lost opening response retries the same admitted        *)
(* relationship").                                                           *)
JoinedIsAttached == Joined => rel.attached

(* Every event is taken or given up at last, unless the session was stranded *)
(* by a second try (JoinedIsAttached).                                       *)
Stranded == session = "retried" /\ ~rel.attached
OwedIsTaken ==
  \A s \in 1 .. MaxEvent :
    (s <= len) ~> (Taken(s) \/ Stranded \/ \E r \in box : r.seq = s /\ r.st = "integrity")

(* A release that waits for deliveries is answered, also when the           *)
(* participant is gone (fold of channel.subscription.detached).              *)
ReleaseEnds == (waiter # 0) ~> (waiter = 0)
=============================================================================
