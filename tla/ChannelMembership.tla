------------------------- MODULE ChannelMembership -------------------------
(***************************************************************************)
(* Who is in a channel (workers/pubsub-channel/channel-do.ts): join, leave *)
(* and detach of agents, roster updates, and the session relationships of  *)
(* people, each an event of the channel's ledger that the delivery         *)
(* projection folds.  A Task is one running handler.  join, leave and      *)
(* detach of one participant exclude each other, the others do not.  Every *)
(* handler first brings the projection up to the ledger, decides on the    *)
(* folded relationship, appends through the publication queue and folds    *)
(* what it appended; between any two of these it waits.                    *)
(***************************************************************************)
EXTENDS DeliveryProjection

CONSTANTS
  Session,      \* the participants that are people
  Task,         \* slots for running handlers
  NoTask,
  Op,           \* join operation ids, each with its exact input
  RouteOf,      \* the invocation route a join operation asks for
  Handler,      \* the kinds of handler that run
  Inherited,    \* the prefix a fork copied from its parent
  Page,         \* the most events one page of a backfill holds
  MaxLog,       \* bound on the ledger
  MaxFact,      \* bound on the facts in it
  MaxStream,    \* bound on the open responses of a person
  MaxFault,     \* bound on crashes and failed waits
  MaxUpgrade    \* bound on changes of the projection's version

ASSUME SessionAssumption == Session \subseteq Participant
ASSUME TaskAssumption == NoTask \notin Task
ASSUME OpAssumption == NoOp \notin Op /\ RouteOf \in [Op -> {"direct", "mailbox"}]
ASSUME HandlerAssumption ==
  Handler \subseteq {"join", "leave", "detach", "update", "open", "close",
                     "publish", "derive"}
ASSUME LimitAssumption ==
  /\ Page \in Nat \ {0}
  /\ MaxLog \in Nat /\ MaxFact \in Nat /\ MaxStream \in Nat
  /\ MaxFault \in Nat /\ MaxUpgrade \in Nat

Agent == Participant \ Session
Route == {"session", "direct", "mailbox"}
LedgerEvent ==
  [kind : Subscription \cup {"fact", "detached", "ended"}, p : Participant \cup {NoOne},
   rev : Nat, op : Op \cup {NoOp}, route : Route, after : 0 .. MaxLog, to : SUBSET Agent]

ASSUME InheritedAssumption == Inherited \in Seq(LedgerEvent) /\ Len(Inherited) <= MaxLog

VARIABLES
  log,          \* the ledger: relationship events and facts
  proj,         \* the delivery projection
  task,         \* the running handlers
  held,         \* relationshipMutations: who mutates a participant
  writer,       \* whose publication the queue is committing
  streams,      \* subscriptionStreams: a person's open responses
  answered,     \* history: the joins answered, [p, op, rev]
  asked,        \* history: the leaves asked, [p, rev]
  done,         \* history: the facts a participant acknowledged, [seq, p]
  slipped,      \* history: events passed over while they were owed, [seq, p]
  faults,
  upgrades

resident == <<task, held, writer, streams>>
history == <<answered, asked, done, slipped>>
bounds == <<faults, upgrades>>
vars == <<log, proj, resident, history, bounds>>

Idle == [pc |-> "idle", kind |-> "derive", p |-> NoOne, op |-> NoOp, rev |-> 0,
         ev |-> Fact({}), app |-> 0, batch |-> 0, next |-> 1, snap |-> {}]

Init ==
  /\ log = Inherited
  /\ proj = Empty(Len(Inherited))
  /\ task = [t \in Task |-> Idle]
  /\ held = [p \in Participant |-> NoTask]
  /\ writer = NoTask
  /\ streams = [p \in Session |-> 0]
  /\ answered = {} /\ asked = {} /\ done = {} /\ slipped = {}
  /\ faults = 0 /\ upgrades = 0

-----------------------------------------------------------------------------
(* Handlers *)

At(t, pc) == task[t].pc = pc

\* mutant: a handler that ends keeps the queue
FinishKeepsWriter(t) ==
  /\ task' = [task EXCEPT ![t] = Idle]
  /\ held' = [p \in Participant |-> IF held[p] = t THEN NoTask ELSE held[p]]
  /\ UNCHANGED <<writer, streams>>
\* the handler's locks go, and the queue goes on
Finish(t) ==
  /\ task' = [task EXCEPT ![t] = Idle]
  /\ held' = [p \in Participant |-> IF held[p] = t THEN NoTask ELSE held[p]]
  /\ writer' = IF writer = t THEN NoTask ELSE writer
  /\ UNCHANGED streams
Ends(t) == Finish(t) /\ UNCHANGED <<log, proj, history, bounds>>

Goes(t, pc) ==
  /\ task' = [task EXCEPT ![t].pc = pc]
  /\ UNCHANGED <<log, proj, held, writer, streams, history, bounds>>

\* deriveDeliveries starts with the pending reattachments
Deriving(rec, app) ==
  [rec EXCEPT !.pc = "derive", !.app = app, !.batch = 0, !.next = 1,
              !.snap = Pending(proj)]

Begin(t, rec) ==
  /\ At(t, "idle") /\ rec.kind \in Handler
  /\ task' = [task EXCEPT ![t] = rec]
  /\ UNCHANGED <<log, proj, held, writer, done, answered, slipped, bounds>>

Handling(kind, p) == [Idle EXCEPT !.kind = kind, !.p = p]
Waiting(kind, p) == [Handling(kind, p) EXCEPT !.pc = "lock"]

\* an agent asks again with the operation it already used
Join(t, p, op) ==
  Begin(t, [Waiting("join", p) EXCEPT !.op = op]) /\ UNCHANGED <<asked, streams>>
Leave(t, p, rev) ==
  /\ Begin(t, [Waiting("leave", p) EXCEPT !.rev = rev])
  /\ asked' = asked \cup {[p |-> p, rev |-> rev]}
  /\ UNCHANGED streams
Detach(t, p) == Begin(t, Waiting("detach", p)) /\ UNCHANGED <<asked, streams>>
UpdateMetadata(t, p) ==
  Begin(t, Deriving(Handling("update", p), 0)) /\ UNCHANGED <<asked, streams>>
Subscribe(t, p) ==
  /\ streams[p] < MaxStream
  /\ Begin(t, Deriving(Handling("open", p), 0))
  /\ UNCHANGED <<asked, streams>>
Derivation(t) ==
  Begin(t, Deriving(Handling("derive", NoOne), 0)) /\ UNCHANGED <<asked, streams>>
\* an ordinary event needs no derivation before its append
Publish(t, to) ==
  /\ Begin(t, [Idle EXCEPT !.pc = "queued", !.kind = "publish", !.ev = Fact(to)])
  /\ UNCHANGED <<asked, streams>>

\* one response is closed; other responses of the person keep it in
Unsubscribe(t, p) ==
  LET n == IF streams[p] = 0 THEN 0 ELSE streams[p] - 1 IN
  /\ At(t, "idle") /\ "close" \in Handler
  /\ streams' = [streams EXCEPT ![p] = n]
  /\ task' = IF n > 0 THEN task
              ELSE [task EXCEPT ![t] = [Handling("close", p) EXCEPT !.pc = "closing"]]
  /\ UNCHANGED <<log, proj, held, writer, history, bounds>>

\* ... counted again after the person's calls were failed
CountsResponses(t) ==
  /\ At(t, "closing")
  /\ IF streams[task[t].p] > 0 THEN Ends(t)
     ELSE /\ task' = [task EXCEPT ![t] = Deriving(@, 0)]
          /\ UNCHANGED <<log, proj, held, writer, streams, history, bounds>>

Acquire(t) ==
  /\ At(t, "lock") /\ held[task[t].p] = NoTask
  /\ held' = [held EXCEPT ![task[t].p] = t]
  /\ task' = [task EXCEPT ![t] = Deriving(@, 0)]
  /\ UNCHANGED <<log, proj, writer, streams, history, bounds>>

-----------------------------------------------------------------------------
(* deriveDeliveries *)

FoldsNext(t, s) ==
  /\ CanFold(proj, s)
  /\ proj' = Fold(proj, log, s)
  /\ task' = [task EXCEPT ![t].next = s + 1, ![t].snap = Pending(proj')]
  /\ UNCHANGED <<log, held, writer, streams, history, bounds>>

\* the page of x that is read next
PageOf(x) ==
  [x EXCEPT !.through = IF x.after + Page < @ THEN x.after + Page ELSE @]
\* a page read for an older range starts behind what is owed now
Skipped(x) ==
  IF proj.rel[x.p].gap = <<>> \/ x.after >= x.through THEN {}
  ELSE {[seq |-> s, p |-> x.p] : s \in proj.rel[x.p].gap[1] + 1 .. x.after}

\* the range may have been finished, or replaced, while its page was read
ResumeBackfill(t) ==
  /\ At(t, "derive")
  /\ \E x \in task[t].snap :
       LET page == PageOf(x) IN
       /\ ~Overtaken(proj, page)
       /\ proj' = IF x.after >= x.through
                    THEN CompleteEmptyReattachBackfill(proj, x.p)
                    ELSE AdvanceReattachBackfill(proj, log, page)
       /\ slipped' = slipped \cup Skipped(x)
       /\ task' = [task EXCEPT ![t].snap = (@ \ {x}) \cup
                     IF page = x THEN {} ELSE {[x EXCEPT !.after = page.through]}]
  /\ UNCHANGED <<log, held, writer, streams, answered, asked, done, bounds>>

Resumed(t) == At(t, "derive") /\ task[t].snap = {}
Replaying(t) == Resumed(t) /\ task[t].next <= task[t].batch

\* the event just appended is folded from memory when it comes next
FoldAppended(t) ==
  /\ Resumed(t) /\ task[t].batch = 0 /\ task[t].app = proj.cursor + 1
  /\ FoldsNext(t, task[t].app)

ReadEvents(t) ==
  /\ Resumed(t) /\ task[t].batch = 0
  /\ task[t].app = 0 \/ task[t].app > proj.cursor + 1
  /\ proj.cursor # Len(log)
  /\ task' = [task EXCEPT ![t].batch = Len(log), ![t].next = proj.cursor + 1]
  /\ UNCHANGED <<log, proj, held, writer, streams, history, bounds>>

FoldReplayed(t) ==
  /\ Replaying(t) /\ task[t].next > proj.cursor
  /\ FoldsNext(t, task[t].next)

\* folded by another handler meanwhile
SkipFolded(t) ==
  /\ Replaying(t) /\ task[t].next <= proj.cursor
  /\ task' = [task EXCEPT ![t].next = proj.cursor + 1, ![t].snap = Pending(proj)]
  /\ UNCHANGED <<log, proj, held, writer, streams, history, bounds>>

Derived(t) ==
  /\ Resumed(t)
  /\ IF task[t].batch > 0 THEN task[t].next > task[t].batch
     ELSE IF task[t].app > 0 THEN task[t].app <= proj.cursor
     ELSE proj.cursor = Len(log)

\* fold and the backfill reject what others have overtaken
DeriveThrows(t) ==
  /\ At(t, "derive")
  /\ \/ \E x \in task[t].snap : Overtaken(proj, PageOf(x))
     \/ /\ Resumed(t) /\ Pending(proj) # {}
        /\ \/ task[t].batch = 0 /\ task[t].app = proj.cursor + 1
           \/ Replaying(t) /\ task[t].next > proj.cursor
  /\ Ends(t)

-----------------------------------------------------------------------------
(* Decisions, on the relationship as folded *)

Me(t) == proj.rel[task[t].p]
Decides(t, kind) == Derived(t) /\ writer # t /\ task[t].kind = kind

\* the handler's event follows the folded revision
Change(t, kind) ==
  [Fact({}) EXCEPT !.kind = kind, !.p = task[t].p, !.rev = Me(t).rev + 1]
Queues(t, e) ==
  /\ task' = [task EXCEPT ![t].pc = "queued", ![t].ev = e,
                          ![t].rev = IF task[t].kind = "join" THEN e.rev ELSE @]
  /\ UNCHANGED <<log, proj, held, writer, streams, answered, asked, done, bounds>>
Queue(t, e) == Queues(t, e) /\ UNCHANGED slipped

Retained(t) == {o \in proj.ops : o.p = task[t].p /\ o.op = task[t].op}
JoinDecides(t) ==
  /\ Decides(t, "join")
  /\ \/ \E o \in Retained(t) :
          /\ task' = [task EXCEPT ![t].pc = "rejoined", ![t].rev = o.rev]
          /\ UNCHANGED <<log, proj, held, writer, streams, history, bounds>>
     \/ /\ Retained(t) = {}
        /\ Queue(t, [Change(t, IF Me(t).active THEN "revised" ELSE "opened")
                       EXCEPT !.op = task[t].op, !.route = RouteOf[task[t].op]])

\* mutant: any leave ends the relationship
LeaveDecidesForAll(t) ==
  /\ Decides(t, "leave")
  /\ IF Me(t).active THEN Queue(t, Change(t, "ended")) ELSE Ends(t)
\* an older revision is not ended, one never given is refused
LeaveDecides(t) ==
  /\ Decides(t, "leave")
  /\ IF Me(t).active /\ task[t].rev = Me(t).rev
       THEN Queue(t, Change(t, "ended")) ELSE Ends(t)

\* what a detachment may declare delivered, and what is owed of it all the same
Boundary(t) == DetachRecoveryBoundary(proj, task[t].p, proj.cursor)
StillOwed(t) ==
  IF Me(t).gap = <<>> THEN {}
  ELSE {[seq |-> s, p |-> task[t].p] :
          s \in {n \in Me(t).gap[1] + 1 .. Me(t).gap[2] : n <= Boundary(t)}}
DetachDecides(t) ==
  /\ Decides(t, "detach")
  /\ IF Me(t).active /\ Me(t).attached
       THEN /\ Queues(t, [Change(t, "detached") EXCEPT !.after = Boundary(t)])
            /\ slipped' = slipped \cup StillOwed(t)
       ELSE Ends(t)

UpdateDecides(t) ==
  /\ Decides(t, "update")
  /\ IF Me(t).active THEN Queue(t, [Change(t, "revised") EXCEPT !.route = Me(t).route])
                     ELSE Ends(t)

\* ensureSessionRelationship: an active one is revised if its metadata changed
OpenDecides(t) ==
  /\ Decides(t, "open")
  /\ \/ Me(t).active /\ Goes(t, "opening")
     \/ Queue(t, Change(t, IF Me(t).rev > 0 THEN "revised" ELSE "opened"))

\* endRelationship
CloseDecides(t) ==
  /\ Decides(t, "close")
  /\ IF Me(t).active THEN Queue(t, Change(t, "ended")) ELSE Ends(t)

DerivationEnds(t) == Decides(t, "derive") /\ Ends(t)

-----------------------------------------------------------------------------
(* commitPublication *)

\* a relationship event's id is channel-subscription:{participant}:{operation
\* or revision}; an ordinary event's is its own
SameId(e, f) ==
  /\ e.kind # "fact" /\ f.kind # "fact" /\ e.p = f.p /\ e.op = f.op
  /\ e.op = NoOp => e.rev = f.rev
Existing(e) == {i \in DOMAIN log : SameId(log[i], e)}

\* the publication is answered; join and subscribe have more to do
Published(t) ==
  LET next == CASE task[t].kind = "join" -> "rejoined"
                [] task[t].kind = "open" -> "opening"
                [] OTHER -> "idle"
  IN IF next = "idle" THEN Finish(t)
     ELSE /\ task' = [task EXCEPT ![t].pc = next]
          /\ writer' = IF writer = t THEN NoTask ELSE writer
          /\ UNCHANGED <<held, streams>>

Commit(t) ==
  /\ At(t, "queued") /\ writer = NoTask /\ Existing(task[t].ev) = {}
  /\ Len(log) < MaxLog
  /\ log' = Append(log, task[t].ev)
  /\ writer' = t
  /\ task' = [task EXCEPT ![t] = Deriving(@, Len(log) + 1)]
  /\ UNCHANGED <<proj, held, streams, history, bounds>>
\* an identity in the ledger answers with the event that has it
CommitExisting(t) ==
  /\ At(t, "queued") /\ writer = NoTask
  /\ \E i \in Existing(task[t].ev) : log[i].kind = task[t].ev.kind
  /\ Published(t)
  /\ UNCHANGED <<log, proj, history, bounds>>
\* ... unless it is of another type; a full ledger stands for any failure
CommitRejects(t) ==
  /\ At(t, "queued") /\ writer = NoTask
  /\ IF Existing(task[t].ev) = {} THEN Len(log) = MaxLog
     ELSE \A i \in Existing(task[t].ev) : log[i].kind # task[t].ev.kind
  /\ Ends(t)

Committed(t) ==
  /\ Derived(t) /\ writer = t
  /\ Published(t)
  /\ UNCHANGED <<log, proj, history, bounds>>

-----------------------------------------------------------------------------
(* After the publication *)

(* the calls still pending at p are facts; each is derived again, also when *)
(* its delivery had ended                                                   *)
RedeliverPendingCall(t) ==
  /\ At(t, "rejoined") /\ Me(t).active /\ Me(t).route = "mailbox"
  /\ \E s \in 1 .. proj.cursor :
       /\ log[s].kind = "fact"
       /\ proj' = Derive(proj, log, {s}, {task[t].p}, TRUE)
  /\ UNCHANGED <<log, resident, history, bounds>>

Answer(t) ==
  /\ At(t, "rejoined")
  /\ answered' = answered \cup
       {[p |-> task[t].p, op |-> task[t].op, rev |-> task[t].rev]}
  /\ Finish(t)
  /\ UNCHANGED <<log, proj, asked, done, slipped, bounds>>

OpenSubscriptionResponse(t) ==
  /\ At(t, "opening")
  /\ streams' = [streams EXCEPT ![task[t].p] = @ + 1]
  /\ task' = [task EXCEPT ![t] = Idle]
  /\ UNCHANGED <<log, proj, held, writer, history, bounds>>

-----------------------------------------------------------------------------
(* Deliveries and faults *)

(* an agent's acknowledgement settles an open delivery, in whichever order  *)
(* the mailbox and the live attempts deliver                                *)
Acknowledge ==
  \E r \in proj.box :
    /\ r.st = "open"
    /\ proj' = Complete(proj, r)
    /\ done' = done \cup {[seq |-> r.seq, p |-> r.p]}
    /\ UNCHANGED <<log, resident, answered, asked, slipped, bounds>>

\* a response is cancelled: that ends no relationship
Disconnect(p) ==
  /\ streams[p] > 0
  /\ streams' = [streams EXCEPT ![p] = @ - 1]
  /\ UNCHANGED <<log, proj, task, held, writer, history, bounds>>

\* a read, an encoding or a policy call rejects
WaitFails(t) ==
  /\ faults < MaxFault /\ task[t].pc \in {"derive", "queued"}
  /\ faults' = faults + 1
  /\ Finish(t)
  /\ UNCHANGED <<log, proj, history, upgrades>>

\* the next activation may bring another version of the projection
Crash ==
  /\ faults < MaxFault
  /\ faults' = faults + 1
  /\ task' = [t \in Task |-> Idle]
  /\ held' = [p \in Participant |-> NoTask]
  /\ writer' = NoTask
  /\ streams' = [p \in Session |-> 0]
  /\ \/ UNCHANGED <<proj, upgrades>>
     \/ /\ upgrades < MaxUpgrade /\ upgrades' = upgrades + 1
        /\ proj' = EnsureProjectionVersion(proj)
  /\ UNCHANGED <<log, history>>

-----------------------------------------------------------------------------

Arrive(t) ==
  \/ /\ Len(log) < MaxLog
     /\ \/ \E p \in Agent : \E op \in Op : Join(t, p, op)
        \/ \E x \in answered : Leave(t, x.p, x.rev)
        \/ \E p \in Agent : Detach(t, p)
        \/ \E p \in Participant : UpdateMetadata(t, p)
        \/ \E p \in Session : Subscribe(t, p) \/ Unsubscribe(t, p)
        \/ /\ Cardinality({i \in DOMAIN log : log[i].kind = "fact"}) < MaxFact
           /\ \E to \in SUBSET Agent \ {{}} : Publish(t, to)
  \/ Derivation(t)

Step(t) ==
  \/ CountsResponses(t)
  \/ ResumeBackfill(t) \/ FoldAppended(t) \/ ReadEvents(t) \/ FoldReplayed(t)
  \/ SkipFolded(t) \/ DeriveThrows(t)
  \/ JoinDecides(t) \/ LeaveDecides(t) \/ DetachDecides(t) \/ UpdateDecides(t)
  \/ OpenDecides(t) \/ CloseDecides(t) \/ DerivationEnds(t)
  \/ Committed(t) \/ Answer(t) \/ OpenSubscriptionResponse(t)
Queued(t) == Commit(t) \/ CommitExisting(t) \/ CommitRejects(t)

Next ==
  \/ \E t \in Task : \/ Arrive(t) \/ Acquire(t) \/ Step(t) \/ Queued(t)
                     \/ RedeliverPendingCall(t) \/ WaitFails(t)
  \/ \E p \in Session : Disconnect(p)
  \/ Acknowledge \/ Crash

Spec == Init /\ [][Next]_vars

(* the event loop runs every started handler; the lock and the publication  *)
(* queue serve in order, so nobody who waits is passed over for ever        *)
FairSpec ==
  /\ Spec
  /\ \A t \in Task : WF_vars(Step(t)) /\ SF_vars(Acquire(t)) /\ SF_vars(Queued(t))
-----------------------------------------------------------------------------
(* What the ledger says *)

(* the relationships after the first n events, read without the projection: *)
(* since is the event after which every addressed fact is owed              *)
NoHistory == [rev |-> 0, active |-> FALSE, attached |-> FALSE,
              route |-> "session", since |-> 0, ops |-> {}]
After(h, s, e) ==
  IF e.rev # h.rev + 1 THEN h
  ELSE CASE e.kind = "detached" /\ h.active /\ h.attached ->
              [h EXCEPT !.rev = e.rev, !.attached = FALSE]
         [] e.kind = "ended" /\ h.active ->
              [h EXCEPT !.rev = e.rev, !.active = FALSE, !.attached = FALSE]
         [] e.kind \in Subscription ->
              [rev |-> e.rev, active |-> TRUE, attached |-> TRUE, route |-> e.route,
               since |-> IF h.active /\ (~h.attached \/ h.route = e.route)
                           THEN h.since ELSE s,
               ops |-> h.ops \cup ({<<e.op, e.rev>>} \ {<<NoOp, e.rev>>})]
         [] OTHER -> h
Recorded ==
  LET f[n \in 0 .. Len(log)] ==
        IF n <= Len(Inherited) THEN [p \in Participant |-> NoHistory]
        ELSE [p \in Participant |-> IF log[n].p = p THEN After(f[n - 1][p], n, log[n])
                                                   ELSE f[n - 1][p]]
  IN f

-----------------------------------------------------------------------------
(* Properties *)

\* every variable holds what the code can put there, in particular the cursor
\* and every delivery stay within the ledger
Gap == {<<>>} \cup ((0 .. MaxLog) \X (0 .. MaxLog))
Relationship ==
  [rev : Nat, active : BOOLEAN, attached : BOOLEAN, route : Route, at : 0 .. MaxLog, gap : Gap]
Projection ==
  [cursor : 0 .. MaxLog, boundary : Nat, rel : [Participant -> Relationship],
   ops : SUBSET [p : Participant, op : Op, rev : Nat, seq : 1 .. MaxLog],
   box : SUBSET [seq : 1 .. MaxLog, p : Agent, rev : Nat, st : {"open"} \cup Terminal]]
Running ==
  [pc : {"idle", "lock", "derive", "queued", "closing", "rejoined", "opening"},
   kind : Handler \cup {"derive", "close"}, p : Participant \cup {NoOne},
   op : Op \cup {NoOp}, rev : Nat, ev : LedgerEvent,
   app : 0 .. MaxLog, batch : 0 .. MaxLog, next : 1 .. MaxLog + 1,
   snap : SUBSET [p : Participant, after : 0 .. MaxLog, through : 0 .. MaxLog]]
TypeOK ==
  /\ log \in Seq(LedgerEvent) /\ Len(log) <= MaxLog
  /\ proj \in Projection
  /\ proj.cursor <= Len(log) /\ \A r \in proj.box : r.seq <= proj.cursor
  /\ task \in [Task -> Running]
  /\ held \in [Participant -> Task \cup {NoTask}] /\ writer \in Task \cup {NoTask}
  /\ streams \in [Session -> Nat]
  /\ answered \subseteq [p : Participant, op : Op, rev : Nat]
  /\ asked \subseteq [p : Participant, rev : Nat]
  /\ done \subseteq [seq : 1 .. Len(log), p : Agent]
  /\ slipped \subseteq [seq : 1 .. MaxLog, p : Participant]
  /\ faults \in 0 .. MaxFault /\ upgrades \in 0 .. MaxUpgrade

(* Handlers that derive side by side (deriveDeliveries resumes after every  *)
(* await) fold each event of the ledger once and in order, over crashes and *)
(* projection upgrades: the relationships are those the ledger records.     *)
ProjectionIsFold ==
  \A p \in Participant :
    LET h == Recorded[proj.cursor][p]
        rel == proj.rel[p]
    IN /\ h.rev = rel.rev /\ h.active = rel.active
       /\ h.attached = rel.attached /\ h.route = rel.route

(* A fact addressed to an agent while its relationship lasts is never lost: *)
(* it was acknowledged, or a delivery is open, or it lies in a range that a *)
(* reattachment owes or will owe, through detachments, joins again, handlers *)
(* that derive at the same time, crashes and projection upgrades            *)
(* (detachRecoveryBoundary, foldRelationship, resumeReattachBackfills).     *)
(* Two windows take a fact all the same, and each is marked when it is      *)
(* entered (slipped): a detachment that is decided while a range is still   *)
(* owed declares the range's facts delivered, and a page that was read for  *)
(* an older range moves the start of the one owed now past facts nobody     *)
(* derived.  Nothing is lost in any other way.                              *)
NothingLost ==
  \A p \in Agent :
    LET h == Recorded[proj.cursor][p]
        rel == proj.rel[p]
    IN h.active => \A s \in h.since + 1 .. proj.cursor :
         log[s].kind = "fact" /\ p \in log[s].to =>
           \/ [seq |-> s, p |-> p] \in done
           \/ \E r \in proj.box : r.seq = s /\ r.p = p /\ r.st = "open"
           \/ ~rel.attached /\ s > rel.at
           \/ rel.gap # <<>> /\ s \in rel.gap[1] + 1 .. rel.gap[2]
           \/ [seq |-> s, p |-> p] \in slipped

(* An agent's relationship ends only because somebody who held exactly that *)
(* revision left: a leave that waited while the agent joined again never    *)
(* ends the replacement (leave).                                            *)
EndedByOwner ==
  [][\A p \in Agent :
       proj.rel[p].active /\ ~proj'.rel[p].active /\ upgrades' = upgrades =>
         [p |-> p, rev |-> proj.rel[p].rev] \in asked]_vars

(* "A newer opening authoritatively superseded this owner's relationship"   *)
(* (leave): a leave that is let pass with the relationship still active has *)
(* a newer join behind it.                                                  *)
LeaveYieldsToNewerOpening ==
  \A t \in Task : Decides(t, "leave") /\ Me(t).active /\ task[t].rev < Me(t).rev =>
    \E i \in DOMAIN log :
      log[i].p = task[t].p /\ log[i].op # NoOp /\ log[i].rev > task[t].rev

(* "The participant's semantic relationship is a canonical log fact"        *)
(* (subscribe): a person with an open response has an active relationship   *)
(* in the ledger.                                                           *)
SessionKeepsRelationship ==
  \A p \in Session : streams[p] > 0 => Recorded[Len(log)][p].active

(* No handler waits for ever on the participant's lock, on the publication  *)
(* queue or on another handler's derivation.                                *)
HandlersEnd == \A t \in Task : ~At(t, "idle") ~> At(t, "idle")
=============================================================================
