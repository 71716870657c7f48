--------------------------- MODULE CallTransport ---------------------------
(***************************************************************************)
(* Method calls through a channel (workers/pubsub-channel/calls.ts and the *)
(* call RPCs of channel-do.ts).                                            *)
(*                                                                         *)
(* The channel's log is the authority: a call is pending when its start is *)
(* durable and no terminal of it is.  pending_calls (row) is a cache of    *)
(* that fold, provider_call_claims (claim) fences the provider executions. *)
(* A Task is one handler activation.  A handler runs to its next wait as   *)
(* one step; the waits are the publication queue, the per-call journal     *)
(* barrier, the hydration of a stored event and a provider's answer.  The  *)
(* model has one provider participant, the target of every call.           *)
(***************************************************************************)
EXTENDS Naturals, Sequences, SequencesExt

CONSTANTS
  Call,         \* transport call ids
  Task,         \* slots for concurrently running handlers
  NoTask,       \* no awaited barrier
  Executor,     \* provider generation ids: the provider's own restarts
  NoExecutor,   \* the channel's own dispatch, and no claim
  LostCall,     \* calls a provider may answer although no start is durable
  Routes,       \* how the target is reached: "entity", "mailbox", "external"
  MaxClaim,     \* bound on claim generations
  MaxOutput,    \* bound on progress outputs in the log
  MaxFault      \* bound on crashes and failed appends

ASSUME CallAssumption == Call # {} /\ LostCall \subseteq Call
ASSUME TaskAssumption == NoTask \notin Task
ASSUME BoundAssumption ==
  MaxClaim \in Nat /\ MaxOutput \in Nat /\ MaxFault \in Nat
ASSUME RouteAssumption == Routes \subseteq {"entity", "mailbox", "external"}

VARIABLES
  log,          \* the durable channel log, calls' events only
  row,          \* pending_calls
  claim,        \* provider_call_claims; gen = 0 is no claim row
  observed,     \* calls_reconciled_through
  joined,       \* the provider's relationship is active
  route,        \* the provider's transport
  inheriting,   \* a fork's postClone has not completed
  cloned,       \* this channel is a fork
  faults,
  task,         \* the running handlers
  barrier,      \* journalInFlight: handlers mutating a call's journal, FIFO
  queue,        \* publicationQueue: handlers waiting for their append
  deliveries,   \* outstanding onMethodCall RPCs to an entity provider
  granted       \* history: the newest generation granted for each call

durable == <<log, row, claim, observed, joined, route, inheriting, cloned>>
resident == <<task, barrier, queue, deliveries>>
vars == <<durable, resident, faults, granted>>

TerminalKind == {"result", "lost", "cancelled", "notAdmitted",
                 "abandoned", "inherited", "unrouted"}
Kind == {"started", "output"} \cup TerminalKind
Event == [call : Call, kind : Kind]

PC == {"idle", "journal", "starting", "journalEnd", "redriven", "dispatch",
       "resolve", "settle", "rooting", "settlePending", "writing", "consume",
       "record", "cancel", "redeliver", "leaving", "loop"}
Claim == [gen : 0 .. MaxClaim, by : Executor \cup {NoExecutor}, exec : BOOLEAN]
NoClaim == [gen |-> 0, by |-> NoExecutor, exec |-> FALSE]
AnyCall == CHOOSE c \in Call : TRUE
Idle == [pc |-> "idle", call |-> AnyCall, how |-> "none", gen |-> 0,
         seq |-> 0, todo |-> {}, wait |-> NoTask, behindStart |-> FALSE]
TaskState == [pc : PC, call : Call, how : Kind \cup {"none"},
              gen : 0 .. MaxClaim, seq : Nat, todo : SUBSET Call,
              wait : Task \cup {NoTask}, behindStart : BOOLEAN]

-----------------------------------------------------------------------------
(* The log *)

IsTerminal(e, c) == e.call = c /\ e.kind \in TerminalKind
IsStart(e, c) == e.call = c /\ e.kind = "started"
\* a start's envelope id is its invocation id, a terminal's is terminal:{call};
\* an output's is fresh
SameId(e, f) ==
  \/ \E c \in Call : IsStart(e, c) /\ IsStart(f, c)
  \/ \E c \in Call : IsTerminal(e, c) /\ IsTerminal(f, c)
HasStart(c) == \E i \in DOMAIN log : IsStart(log[i], c)
HasTerminal(c) == \E i \in DOMAIN log : IsTerminal(log[i], c)

\* derivePendingCalls: the last start is not followed by a terminal
Derived == {c \in Call :
  \E i \in DOMAIN log : /\ IsStart(log[i], c)
                        /\ \A j \in DOMAIN log : j > i => ~IsTerminal(log[j], c)}

Larger(m, n) == IF m > n THEN m ELSE n
RecordObservedHead(seq) == observed' = Larger(observed, seq)

-----------------------------------------------------------------------------
(* The cache *)

DropRows(C) ==
  /\ row' = row \ C
  /\ claim' = [c \in Call |-> IF c \in C THEN NoClaim ELSE claim[c]]

\* mutant: the sweep rebuilds the claims with the rows
ReconcileForgetsClaims ==
  /\ row' = Derived
  /\ claim' = [c \in Call |-> NoClaim]
  /\ observed' = Len(log)

Reconcile ==
  /\ row' = Derived
  /\ claim' = [c \in Call |-> IF c \in Derived THEN claim[c] ELSE NoClaim]
  /\ observed' = Len(log)

\* peek; a missing row of a call without terminal forces a reconcile first
PeekOrReconcile(c) ==
  IF c \in row \/ HasTerminal(c)
    THEN UNCHANGED <<row, claim, observed>>
    ELSE Reconcile

-----------------------------------------------------------------------------
(* Handlers *)

At(p, pc) == task[p].pc = pc
CallOf(p) == task[p].call
Goto(p, t) == task' = [task EXCEPT ![p] = t]
GotoPc(p, pc) == Goto(p, [task[p] EXCEPT !.pc = pc])

\* the journal mutation a settle or submit arriving now would await
InFlight(c) == IF barrier[c] = <<>> THEN NoTask ELSE Last(barrier[c])
\* mutant: submissions do not wait for a start being journaled
AwaitNothing(t, c) == [t EXCEPT !.call = c, !.wait = NoTask]
Await(t, c) == [t EXCEPT !.call = c, !.wait = InFlight(c)]
Released(p) == task[p].wait \notin Range(barrier[CallOf(p)])
HoldsBarrier(p) == barrier[CallOf(p)] # <<>> /\ Head(barrier[CallOf(p)]) = p
LeaveBarrier(p) ==
  barrier' = [barrier EXCEPT ![CallOf(p)] = IF HoldsBarrier(p) THEN Tail(@) ELSE @]

\* what a handler does when its call is settled: the loops go to their next row
Resumed(p) ==
  CASE task[p].how \in {"abandoned", "inherited"} -> [task[p] EXCEPT !.pc = "loop"]
    [] task[p].how = "unrouted" -> [task[p] EXCEPT !.pc = "dispatch"]
    [] OTHER -> Idle

Enqueue(p, t) ==
  /\ Goto(p, t)
  /\ queue' = Append(queue, p)

EventOf(p) ==
  [call |-> CallOf(p),
   kind |-> IF task[p].pc \in {"starting", "rooting"} THEN "started" ELSE task[p].how]
Stored(e) == \E i \in DOMAIN log : SameId(log[i], e)
\* mutant: an id is appended again
AppendedTwice(e) == Append(log, e)
Appended(e) == IF Stored(e) THEN log ELSE Append(log, e)
PositionOf(e) ==
  IF Stored(e) THEN CHOOSE i \in DOMAIN log : SameId(log[i], e) ELSE Len(log) + 1
AfterAppend(p) ==
  CASE task[p].pc = "starting" -> "journalEnd"
    [] task[p].pc = "rooting" -> "settlePending"
    [] At(p, "writing") /\ task[p].how \in {"lost", "notAdmitted", "output"} -> "record"
    [] OTHER -> "consume"

\* the publication queue commits appends one at a time in admission order;
\* an id that is already durable is not appended again
Commit ==
  /\ queue # <<>>
  /\ LET p == Head(queue) IN
       /\ log' = Appended(EventOf(p))
       /\ Goto(p, [task[p] EXCEPT !.pc = AfterAppend(p), !.seq = PositionOf(EventOf(p))])
  /\ queue' = Tail(queue)
  /\ UNCHANGED <<row, claim, observed, joined, route, inheriting, cloned,
                 barrier, deliveries, faults, granted>>

\* an append rejects, before or after the ledger stored the event; the handler
\* unwinds: finally releases the barrier, failPendingCallsTargeting goes on with
\* its next row, deliverDoMethodCall settles once more with the error
AppendRejects(stored) ==
  /\ queue # <<>> /\ faults < MaxFault
  /\ faults' = faults + 1
  /\ LET p == Head(queue) IN
       /\ log' = IF stored THEN Appended(EventOf(p)) ELSE log
       /\ LeaveBarrier(p)
       /\ Goto(p, CASE task[p].how = "abandoned" -> [task[p] EXCEPT !.pc = "loop"]
                    [] /\ task[p].how # "abandoned" /\ route = "entity"
                       /\ task[p].gen > 0 /\ claim[CallOf(p)].gen = task[p].gen ->
                         [Await(task[p], CallOf(p)) EXCEPT !.pc = "settle", !.gen = 0]
                    [] OTHER -> Idle)
  /\ queue' = Tail(queue)
  /\ UNCHANGED <<row, claim, observed, joined, route, inheriting, cloned,
                 deliveries, granted>>

-----------------------------------------------------------------------------
(* callMethod: journal the start, cache the row, then dispatch *)

CallMethod(p, c) ==
  /\ At(p, "idle")
  /\ Goto(p, [Idle EXCEPT !.pc = "journal", !.call = c])
  /\ barrier' = [barrier EXCEPT ![c] = Append(@, p)]
  /\ UNCHANGED <<durable, queue, deliveries, faults, granted>>

\* a call whose terminal is durable is not started again
\* mutant: the row is cached before its start is durable
JournalStartCachesFirst(p) ==
  /\ At(p, "journal") /\ HoldsBarrier(p)
  /\ ~HasTerminal(CallOf(p))
  /\ row' = row \cup {CallOf(p)}
  /\ Enqueue(p, [task[p] EXCEPT !.pc = "starting"])
  /\ UNCHANGED <<log, claim, observed, joined, route, inheriting, cloned,
                 barrier, deliveries, faults, granted>>
JournalStart(p) ==
  /\ At(p, "journal") /\ HoldsBarrier(p)
  /\ \/ HasTerminal(CallOf(p)) /\ GotoPc(p, "redriven") /\ UNCHANGED queue
     \/ ~HasTerminal(CallOf(p)) /\ Enqueue(p, [task[p] EXCEPT !.pc = "starting"])
  /\ UNCHANGED <<durable, barrier, deliveries, faults, granted>>

\* the durable terminal is read back: drop the row, redeliver the terminal
Redriven(p) ==
  /\ At(p, "redriven")
  /\ DropRows({CallOf(p)})
  /\ LeaveBarrier(p)
  /\ Goto(p, Idle)
  /\ UNCHANGED <<log, observed, joined, route, inheriting, cloned,
                 queue, deliveries, faults, granted>>

\* the start is durable: unless a terminal is too, cache the row and dispatch
\* mutant: the terminal is not looked up again after the append
JournalEndNoRecheck(p) ==
  /\ At(p, "journalEnd")
  /\ row' = row \cup {CallOf(p)}
  /\ RecordObservedHead(task[p].seq)
  /\ LeaveBarrier(p)
  /\ Goto(p, [Idle EXCEPT !.pc = "dispatch", !.todo = {CallOf(p)}])
  /\ UNCHANGED <<log, claim, joined, route, inheriting, cloned,
                 queue, deliveries, faults, granted>>
JournalEnd(p) ==
  /\ At(p, "journalEnd")
  /\ \/ /\ HasTerminal(CallOf(p))
        /\ GotoPc(p, "redriven")
        /\ UNCHANGED <<row, observed, barrier>>
     \/ /\ ~HasTerminal(CallOf(p))
        /\ row' = row \cup {CallOf(p)}
        /\ RecordObservedHead(task[p].seq)
        /\ LeaveBarrier(p)
        /\ Goto(p, [Idle EXCEPT !.pc = "dispatch", !.todo = {CallOf(p)}])
  /\ UNCHANGED <<log, claim, joined, route, inheriting, cloned,
                 queue, deliveries, faults, granted>>

\* deliverDoMethodCall's claims for the rows in C, a fresh dispatch id each; D are
\* the rows dropped on the way.  At MaxClaim a claim counts as refused.
Claimable(C) ==
  {c \in C \cap row : claim[c].gen < MaxClaim /\ joined /\ route = "entity"}
ClaimForDispatch(C, D) ==
  /\ claim' = [c \in Call |->
       CASE c \in D -> NoClaim
         [] c \in Claimable(C) \ D ->
              [gen |-> claim[c].gen + 1, by |-> NoExecutor, exec |-> FALSE]
         [] OTHER -> claim[c]]
  /\ granted' = [c \in Call |->
       IF c \in Claimable(C) THEN Larger(granted[c], claim[c].gen + 1) ELSE granted[c]]
  /\ deliveries' = deliveries \cup {<<c, claim[c].gen + 1>> : c \in Claimable(C)}

\* dispatchCallStart to a joined target: an entity gets an RPC of its own; the
\* other routes execute from their durable delivery of the start
Dispatch(p) ==
  /\ At(p, "dispatch") /\ joined
  /\ ClaimForDispatch(task[p].todo, {})
  /\ Goto(p, Idle)
  /\ UNCHANGED <<log, row, observed, joined, route, inheriting, cloned,
                 barrier, queue, faults>>

\* a call to a participant that is not joined is settled with an error
\* mutant: a call to a participant that is not joined is left to a later join
DispatchUnroutedIgnored(p) ==
  /\ At(p, "dispatch") /\ ~joined
  /\ Goto(p, Idle)
  /\ UNCHANGED <<durable, barrier, queue, deliveries, faults, granted>>
DispatchUnrouted(p) ==
  /\ At(p, "dispatch") /\ ~joined
  /\ \/ /\ task[p].todo = {}
        /\ Goto(p, Idle)
     \/ \E c \in task[p].todo :
          Goto(p, [Await(task[p], c) EXCEPT !.pc = "settle", !.how = "unrouted",
                                            !.todo = @ \ {c}])
  /\ UNCHANGED <<durable, barrier, queue, deliveries, faults, granted>>

-----------------------------------------------------------------------------
(* The provider *)

\* onMethodCall answers or fails; the result of a superseded claim is dropped
ProviderReturns(p, c, n) ==
  /\ At(p, "idle")
  /\ <<c, n>> \in deliveries
  /\ deliveries' = deliveries \ {<<c, n>>}
  /\ Goto(p, IF claim[c].gen = n
               THEN [Await(Idle, c) EXCEPT !.pc = "settle", !.how = "result", !.gen = n]
               ELSE Idle)
  /\ UNCHANGED <<durable, barrier, queue, faults, granted>>

\* claimMethodCall: the same executor keeps its generation, another supersedes it
ClaimMethodCall(c, x) ==
  /\ route = "mailbox" /\ c \in row
  /\ claim[c].by # x /\ claim[c].gen < MaxClaim
  /\ claim' = [claim EXCEPT ![c] = [gen |-> @.gen + 1, by |-> x, exec |-> FALSE]]
  /\ granted' = [granted EXCEPT ![c] = Larger(@, claim[c].gen + 1)]
  /\ UNCHANGED <<log, row, observed, joined, route, inheriting, cloned, resident, faults>>

MarkMethodCallExecutionStarted(c, n) ==
  /\ route = "mailbox" /\ c \in row
  /\ claim[c].gen = n /\ ~claim[c].exec
  /\ claim' = [claim EXCEPT ![c].exec = TRUE]
  /\ UNCHANGED <<log, row, observed, joined, route, inheriting, cloned, resident,
                 faults, granted>>

\* the provider holds call c under generation n: it was granted that claim, or,
\* with no claims on its route, it received the start or kept a lost call
Holds(c, n) ==
  CASE route = "mailbox" -> n \in 1 .. granted[c]
    [] route = "external" -> n = 0 /\ (HasStart(c) \/ c \in LostCall)
    [] OTHER -> FALSE

\* submitMethodResult: a mailbox provider must hold the current claim
SubmitMethodResult(p, c, n) ==
  /\ At(p, "idle") /\ Holds(c, n)
  /\ route = "mailbox" => claim[c].gen = n
  /\ Goto(p, [Await(Idle, c) EXCEPT !.pc = "resolve", !.how = "result", !.gen = n,
       !.behindStart = /\ barrier[c] # <<>>
                       /\ task[Last(barrier[c])].pc \in {"journal", "starting", "journalEnd"}])
  /\ UNCHANGED <<durable, barrier, queue, deliveries, faults, granted>>

Outputs == {i \in DOMAIN log : log[i].kind = "output"}
SubmitMethodProgress(p, c, n) ==
  /\ At(p, "idle") /\ Holds(c, n)
  /\ Outputs = {} /\ MaxOutput > 0
  /\ \A q \in Task : task[q].how # "output"
  /\ Goto(p, [Await(Idle, c) EXCEPT !.pc = "resolve", !.how = "output", !.gen = n])
  /\ UNCHANGED <<durable, barrier, queue, deliveries, faults, granted>>

\* resolveSubmitterForCall and what the submit RPCs do with its answer
Resolve(p) ==
  LET c == CallOf(p)
      pending == c \in row'
      current == route = "mailbox" => claim'[c].gen = task[p].gen
  IN
  /\ At(p, "resolve") /\ Released(p)
  /\ PeekOrReconcile(c)
  /\ \/ /\ pending /\ task[p].how = "result"
        /\ Goto(p, [Await(task[p], c) EXCEPT !.pc = "settle"])
        /\ UNCHANGED queue
     \/ /\ pending /\ task[p].how = "output" /\ current
        /\ GotoPc(p, "settlePending")
        /\ UNCHANGED queue
     \/ /\ ~pending /\ task[p].how = "result" /\ ~HasTerminal(c)
        /\ Enqueue(p, [task[p] EXCEPT !.pc = "writing", !.how = "lost"])
     \/ /\ \/ ~pending /\ (task[p].how = "output" \/ HasTerminal(c))
           \/ pending /\ task[p].how = "output" /\ ~current
        /\ Goto(p, Idle)
        /\ UNCHANGED queue
  /\ UNCHANGED <<log, joined, route, inheriting, cloned, barrier, deliveries,
                 faults, granted>>

-----------------------------------------------------------------------------
(* Settling *)

\* settleCall: peek, do not delete; without a row and a durable start, give up
SettleCall(p) ==
  /\ At(p, "settle") /\ Released(p)
  /\ PeekOrReconcile(CallOf(p))
  /\ Goto(p, IF CallOf(p) \in row' THEN [task[p] EXCEPT !.pc = "settlePending"]
                                   ELSE Resumed(p))
  /\ UNCHANGED <<log, joined, route, inheriting, cloned, barrier, queue,
                 deliveries, faults, granted>>

\* settlePendingCall and submitMethodProgress: root the call with its retained
\* request if its start is not in the log, then append; the terminal comes
\* before the row is consumed
SettlePending(p) ==
  LET c == CallOf(p) IN
  /\ At(p, "settlePending")
  /\ \/ ~HasStart(c) /\ Enqueue(p, [task[p] EXCEPT !.pc = "rooting"])
     \/ /\ HasStart(c) /\ (task[p].how = "output" \/ ~HasTerminal(c))
        /\ Enqueue(p, [task[p] EXCEPT !.pc = "writing"])
     \/ /\ HasStart(c) /\ task[p].how # "output" /\ HasTerminal(c)
        /\ Goto(p, [task[p] EXCEPT !.pc = "consume",
             !.seq = PositionOf([call |-> c, kind |-> task[p].how])])
        /\ UNCHANGED queue
  /\ UNCHANGED <<durable, barrier, deliveries, faults, granted>>

\* the terminal is durable: consume the row
\* mutant: the row is left for the next reconcile
ConsumeKeepsRow(p) ==
  /\ At(p, "consume")
  /\ RecordObservedHead(task[p].seq)
  /\ LeaveBarrier(p)
  /\ Goto(p, Resumed(p))
  /\ UNCHANGED <<log, row, claim, joined, route, inheriting, cloned, queue,
                 deliveries, faults, granted>>
Consume(p) ==
  /\ At(p, "consume")
  /\ DropRows({CallOf(p)})
  /\ RecordObservedHead(task[p].seq)
  /\ LeaveBarrier(p)
  /\ Goto(p, Resumed(p))
  /\ UNCHANGED <<log, joined, route, inheriting, cloned, queue, deliveries,
                 faults, granted>>

\* settleMissingCall, a not-admitted cancellation and an output leave the cache
Record(p) ==
  /\ At(p, "record")
  /\ RecordObservedHead(task[p].seq)
  /\ LeaveBarrier(p)
  /\ Goto(p, Idle)
  /\ UNCHANGED <<log, row, claim, joined, route, inheriting, cloned, queue,
                 deliveries, faults, granted>>

\* cancelMethodCall and timeoutMethodCall serialize with callMethod; only a
\* caller passes its original request, which how remembers
CancelMethodCall(p, c, how) ==
  /\ At(p, "idle") /\ how \in {"cancelled", "notAdmitted"}
  /\ Goto(p, [Idle EXCEPT !.pc = "cancel", !.call = c, !.how = how])
  /\ barrier' = [barrier EXCEPT ![c] = Append(@, p)]
  /\ UNCHANGED <<durable, queue, deliveries, faults, granted>>

\* the maintenance queue's call-deadline item for an expired row
TimeoutMethodCall(p, c) == c \in row /\ CancelMethodCall(p, c, "cancelled")

\* mutant: the cancellation settles through settleCall, which awaits its own barrier
CancelThroughSettleCall(p) ==
  /\ At(p, "cancel") /\ HoldsBarrier(p)
  /\ Goto(p, [Await(task[p], CallOf(p)) EXCEPT !.pc = "settle", !.how = "cancelled"])
  /\ UNCHANGED <<durable, barrier, queue, deliveries, faults, granted>>
CancelJournaled(p) ==
  LET c == CallOf(p)
      original == task[p].how = "notAdmitted"
  IN
  /\ At(p, "cancel") /\ HoldsBarrier(p)
  /\ PeekOrReconcile(c)
  /\ \/ /\ c \in row'
        /\ Goto(p, [task[p] EXCEPT !.pc = "settlePending", !.how = "cancelled"])
        /\ UNCHANGED <<queue, barrier>>
     \/ /\ c \notin row' /\ ~HasTerminal(c) /\ original
        /\ Enqueue(p, [task[p] EXCEPT !.pc = "writing"])
        /\ UNCHANGED barrier
     \/ /\ c \notin row' /\ (HasTerminal(c) \/ ~original)
        /\ LeaveBarrier(p)
        /\ Goto(p, Idle)
        /\ UNCHANGED queue
  /\ UNCHANGED <<log, joined, route, inheriting, cloned, deliveries, faults, granted>>

\* one row of a failPendingCallsTargeting or abandonInheritedCalls loop
SettleNext(p) ==
  /\ At(p, "loop")
  /\ \/ /\ task[p].todo = {}
        /\ inheriting' = (inheriting /\ task[p].how # "inherited")
        /\ Goto(p, Idle)
     \/ /\ UNCHANGED inheriting
        /\ \E c \in task[p].todo :
             Goto(p, [Await(task[p], c) EXCEPT !.pc = "settle", !.todo = @ \ {c}])
  /\ UNCHANGED <<log, row, claim, observed, joined, route, cloned, barrier, queue,
                 deliveries, faults, granted>>

-----------------------------------------------------------------------------
(* Membership, reconciliation, forks and restarts *)

\* the provider leaves: its relationship ends, then its pending calls are failed
Leave(p) ==
  /\ At(p, "idle") /\ joined
  /\ joined' = FALSE
  /\ Goto(p, [Idle EXCEPT !.pc = "leaving", !.how = "abandoned"])
  /\ UNCHANGED <<log, row, claim, observed, route, inheriting, cloned, barrier, queue,
                 deliveries, faults, granted>>

FailPendingCallsTargeting(p) ==
  /\ At(p, "leaving")
  /\ Goto(p, [task[p] EXCEPT !.pc = "loop", !.todo = row])
  /\ UNCHANGED <<durable, barrier, queue, deliveries, faults, granted>>

Join(p) ==
  /\ At(p, "idle")
  /\ joined' = TRUE
  /\ GotoPc(p, "redeliver")
  /\ UNCHANGED <<log, row, claim, observed, route, inheriting, cloned, barrier, queue,
                 deliveries, faults, granted>>

\* redeliverPendingCallsTo: prune rows whose terminal is durable and dispatch
\* the others again
Redeliver(p) ==
  LET stale == {c \in row : HasTerminal(c)} IN
  /\ At(p, "redeliver")
  /\ row' = row \ stale
  /\ ClaimForDispatch(row \ stale, stale)
  /\ Goto(p, Idle)
  /\ UNCHANGED <<log, observed, joined, route, inheriting, cloned, barrier, queue,
                 faults>>

\* the reconcilePendingCalls RPC; without force it trusts an unmoved head
ReconcilePendingCalls(force) ==
  /\ force \/ observed # Len(log)
  /\ Reconcile
  /\ UNCHANGED <<log, joined, route, inheriting, cloned, resident, faults, granted>>

Reset ==
  /\ task' = [p \in Task |-> Idle]
  /\ barrier' = [c \in Call |-> <<>>]
  /\ queue' = <<>>
  /\ deliveries' = {}

\* the activation is evicted or restarts: only SQLite survives
Crash ==
  /\ faults < MaxFault
  /\ faults' = faults + 1
  /\ Reset
  /\ UNCHANGED <<durable, granted>>

\* the rows of the source are no knowledge of the child
InitializeClonedStorage == row' = {} /\ claim' = [c \in Call |-> NoClaim]

\* cloneDO and postClone: the child starts from a copy of the SQLite state whose
\* log is cut at the fork point; it has granted nothing to a provider of its own
PostClone(n) ==
  /\ ~cloned
  /\ cloned' = TRUE /\ inheriting' = TRUE
  /\ log' = SubSeq(log, 1, n)
  /\ joined' = FALSE
  /\ granted' = [c \in Call |-> 0]
  /\ InitializeClonedStorage
  /\ Reset
  /\ UNCHANGED <<observed, route, faults>>

\* postClone's last step; its driver repeats it until it completes
AbandonInheritedCalls(p) ==
  /\ inheriting /\ At(p, "idle")
  /\ \A q \in Task : task[q].how # "inherited"
  /\ Reconcile
  /\ Goto(p, [Idle EXCEPT !.pc = "loop", !.how = "inherited", !.todo = Derived])
  /\ UNCHANGED <<log, joined, route, inheriting, cloned, barrier, queue, deliveries,
                 faults, granted>>

-----------------------------------------------------------------------------

Init ==
  /\ log = <<>> /\ row = {} /\ claim = [c \in Call |-> NoClaim] /\ observed = 0
  /\ joined = TRUE /\ route \in Routes
  /\ inheriting = FALSE /\ cloned = FALSE /\ faults = 0
  /\ task = [p \in Task |-> Idle]
  /\ barrier = [c \in Call |-> <<>>]
  /\ queue = <<>> /\ deliveries = {}
  /\ granted = [c \in Call |-> 0]

\* the steps a running handler takes by itself
Continue(p) ==
  \/ JournalStart(p) \/ Redriven(p) \/ JournalEnd(p)
  \/ Dispatch(p) \/ DispatchUnrouted(p)
  \/ Resolve(p) \/ SettleCall(p) \/ SettlePending(p) \/ Consume(p) \/ Record(p)
  \/ CancelJournaled(p) \/ SettleNext(p)
  \/ FailPendingCallsTargeting(p) \/ Redeliver(p)

\* a fork is unknown to callers and providers until postClone completes; only
\* the host's maintenance reaches it before
Request(p) ==
  \/ AbandonInheritedCalls(p)
  \/ \E c \in Call : TimeoutMethodCall(p, c)
  \/ /\ ~inheriting
     /\ \/ Leave(p) \/ Join(p)
        \/ \E c \in Call :
             \/ CallMethod(p, c)
             \/ \E how \in {"cancelled", "notAdmitted"} : CancelMethodCall(p, c, how)
             \/ \E n \in 0 .. MaxClaim : \/ SubmitMethodResult(p, c, n)
                                        \/ SubmitMethodProgress(p, c, n)
                                        \/ ProviderReturns(p, c, n)

Claims ==
  /\ ~inheriting
  /\ \E c \in Call :
    \/ \E x \in Executor : ClaimMethodCall(c, x)
    \/ \E n \in 1 .. MaxClaim : MarkMethodCallExecutionStarted(c, n)

Next ==
  \/ Commit
  \/ \E stored \in BOOLEAN : AppendRejects(stored)
  \/ \E p \in Task : Continue(p) \/ Request(p)
  \/ Claims
  \/ \E force \in BOOLEAN : ReconcilePendingCalls(force)
  \/ Crash
  \/ \E n \in 0 .. Len(log) : PostClone(n)

\* the runtime keeps running a handler once it was admitted.  Strong fairness:
\* an awaited barrier promise stays resolved, although the slot that resolved it
\* may enter the barrier again for another request
Fairness ==
  /\ WF_vars(Commit)
  /\ \A p \in Task : SF_vars(Continue(p))

Spec == Init /\ [][Next]_vars /\ Fairness

\* every call has a deadline: its maintenance item is materialized again until
\* it is admitted, and postClone is repeated until it completes
DeadlineSpec ==
  /\ Spec
  /\ \A c \in Call : SF_vars(\E p \in Task : TimeoutMethodCall(p, c))

-----------------------------------------------------------------------------
(* The promise *)

LastTerminal(c) ==
  CHOOSE i \in DOMAIN log : /\ IsTerminal(log[i], c)
                            /\ \A j \in DOMAIN log : IsTerminal(log[j], c) => j <= i
Phase == [c \in Call |-> IF HasTerminal(c) THEN log[LastTerminal(c)].kind
                         ELSE IF HasStart(c) THEN "open" ELSE "unseen"]
Promise == INSTANCE CallOutcome
             WITH Outcome <- TerminalKind, phase <- Phase, forked <- cloned

-----------------------------------------------------------------------------
(* Properties *)

\* Every variable has its type.
TypeOK ==
  /\ log \in Seq(Event) /\ row \subseteq Call /\ claim \in [Call -> Claim]
  /\ observed \in Nat
  /\ joined \in BOOLEAN /\ route \in Routes
  /\ inheriting \in BOOLEAN /\ cloned \in BOOLEAN /\ faults \in 0 .. MaxFault
  /\ task \in [Task -> TaskState]
  /\ barrier \in [Call -> Seq(Task)] /\ queue \in Seq(Task)
  /\ deliveries \subseteq Call \X (0 .. MaxClaim)
  /\ granted \in [Call -> 0 .. MaxClaim]

\* Authority of the log, calls.ts header: a call is pending iff its start has no
\* terminal in the log, in whatever order the two were appended.
Pending == {c \in Call : HasStart(c) /\ ~HasTerminal(c)}

AllIdle == \A p \in Task : At(p, "idle")

\* Journal before dispatch: a cached pending call has its start in the log, in a
\* fork's cut log too, so a result for it is never taken for a lost call.
RowIsJournaled == \A c \in row : HasStart(c)

\* Terminal first: whatever removes a cached call of this channel, its terminal is
\* durable by then; no crash, failed append or racing handler forgets an open call.
RowOutlivesTerminal ==
  [][UNCHANGED cloned => \A c \in row \ row' : HasTerminal(c)']_vars

\* No resurrection: no handler, redrive, reconcile or rejoin caches a call whose
\* terminal is durable.
NoResurrection == [][\A c \in row' \ row : ~HasTerminal(c)']_vars

\* Whenever no handler runs and nothing failed, the cache is exactly the set of
\* calls the log leaves open, and none of them targets a provider that left.
CacheExactAtRest ==
  AllIdle /\ faults = 0 /\ ~inheriting => row = Pending /\ (joined \/ row = {})

\* A claim generation once superseded is never current again: a result is
\* accepted only under the newest generation ever granted, also after rows were
\* dropped and derived again.
SupersededNeverAccepted ==
  [][\A p \in Task :
       /\ task[p].pc = "idle" /\ task'[p].pc \in {"resolve", "settle"}
       /\ task'[p].how = "result" /\ route # "external"
       => task'[p].gen = granted[task'[p].call]]_vars

\* A result that arrives while the start of its call is being journaled waits for
\* it and is settled as that call's result, never recovered as a lost one.
StartRaceNeverRecovers ==
  \A p \in Task : task[p].behindStart /\ task[p].how = "lost" => faults > 0

\* The fold derivePendingCalls computes is the authority the header of calls.ts
\* states, "a call is pending iff its invocation.started has no terminal".
FoldIsAuthority == Derived = Pending

\* The unforced convergence sweep converges: when it trusts the recorded head and
\* no handler runs, the cache is the set of open calls.
SweepConverges == AllIdle /\ ~inheriting /\ observed = Len(log) => row = Pending

\* The log keeps the promise of CallOutcome: one outcome per call, kept forever.
KeepsPromise == Promise!Spec

\* No handler waits forever: the barrier, the queue and the loops always drain.
HandlersFinish == \A p \in Task : ~At(p, "idle") ~> At(p, "idle")

\* Under a deadline every cached call is consumed, whatever providers, callers
\* and crashes do.
DeadlineSettles == \A c \in Call : c \in row ~> c \notin row
=============================================================================
