------------------------ MODULE CallTransportProofs ------------------------
(***************************************************************************)
(* Proofs about CallTransport, for every set of calls, handlers, executors *)
(* and every bound.  The inductive invariant adds to the type invariant    *)
(* what a handler knows at each of its waits (Sound), that the publication *)
(* queue holds each waiting handler once (Queued), and that the log keeps  *)
(* one terminal per call (OneOutcome).  A second invariant (JInv), kept by *)
(* every step from the first, says that the journal barriers exclude each  *)
(* other, that starts come before terminals, that the claim of a call is   *)
(* the newest one granted, and that results behind a start wait for it.    *)
(* A third one (KInv) follows, as long as nothing failed, each open call   *)
(* to the cache and each cached call to the handler that settles it.       *)
(***************************************************************************)
EXTENDS CallTransport, TLAPS

Appending == {"starting", "rooting", "writing"}
Settling == {"resolve", "settle", "settlePending", "rooting", "writing",
             "cancel", "loop", "leaving"}

\* what handler state t knows of its call
Sound(t) ==
  /\ t.pc \in Settling => t.how \in TerminalKind \cup {"output"}
  /\ t.pc \in {"loop", "leaving"} => t.how \in {"abandoned", "inherited"}
  /\ t.pc \in {"journal", "starting"} => t.gen = 0
  /\ t.pc = "journalEnd" => HasStart(t.call)
  /\ t.pc \in {"redriven", "consume"} => HasTerminal(t.call)
  /\ t.pc = "writing" /\ t.how \notin {"lost", "notAdmitted"} => HasStart(t.call)
AllSound == \A p \in Task : Sound(task[p])

Queued ==
  /\ \A i \in DOMAIN queue : task[queue[i]].pc \in Appending
  /\ \A i, j \in DOMAIN queue : queue[i] = queue[j] => i = j

OneOutcome ==
  \A i, j \in DOMAIN log, c \in Call :
    IsTerminal(log[i], c) /\ IsTerminal(log[j], c) => i = j

IInv == TypeOK /\ AllSound /\ Queued /\ OneOutcome /\ RowIsJournaled

-----------------------------------------------------------------------------
(* Values *)

\* There is a call to name in a free slot.
LEMMA AnyCallType == AnyCall \in Call
  BY CallAssumption DEF AnyCall

\* A free slot is a typed handler state at rest.
LEMMA IdleType == Idle \in TaskState /\ Idle.pc = "idle" /\ Idle.how = "none"
  BY AnyCallType, BoundAssumption DEF Idle, TaskState, PC

\* A free slot claims nothing about its call.
LEMMA IdleSound == \E t \in TaskState : /\ t = Idle /\ t.pc = "idle" /\ t.how = "none"
                                        /\ Sound(t)'
<1>1. PICK t \in TaskState : t = Idle
  BY IdleType
<1> QED BY <1>1, IdleType DEF Sound, Settling

\* awaitInFlightStart waits for a handler or for nothing.
LEMMA InFlightType ==
  ASSUME TypeOK, NEW c \in Call
  PROVE  InFlight(c) \in Task \cup {NoTask}
  BY DEF TypeOK, InFlight, Last

\* A handler's state and its call have their types.
LEMMA TaskType ==
  ASSUME TypeOK, NEW p \in Task
  PROVE  task[p] \in TaskState /\ CallOf(p) \in Call
  BY DEF TypeOK, TaskState, CallOf

\* Awaiting a barrier only sets the call and the awaited handler.
LEMMA AwaitType ==
  ASSUME TypeOK, NEW c \in Call, NEW t \in TaskState
  PROVE  /\ Await(t, c) \in TaskState
         /\ Await(t, c).how = t.how /\ Await(t, c).gen = t.gen
         /\ Await(t, c).call = c /\ Await(t, c).todo = t.todo
  BY InFlightType DEF Await, TaskState

\* A loop goes on, a dispatch goes on, any other handler is finished.
LEMMA ResumedSound ==
  ASSUME TypeOK, NEW p \in Task
  PROVE  \E t \in TaskState : /\ t = Resumed(p) /\ Sound(t)'
                              /\ t.how = "inherited" => task[p].how = "inherited"
<1>1. CASE task[p].how \in {"abandoned", "inherited"}
  <2>1. PICK t \in TaskState : t = [task[p] EXCEPT !.pc = "loop"]
    BY TaskType DEF TaskState, PC
  <2>2. t = Resumed(p)
    BY <2>1, <1>1 DEF Resumed
  <2>3. t.pc = "loop" /\ t.how = task[p].how
    BY <2>1, TaskType DEF TaskState
  <2> QED BY <2>2, <2>3, <1>1 DEF Sound, Settling, TerminalKind
<1>2. CASE task[p].how = "unrouted"
  <2>1. PICK t \in TaskState : t = [task[p] EXCEPT !.pc = "dispatch"]
    BY TaskType DEF TaskState, PC
  <2>2. t = Resumed(p)
    BY <2>1, <1>2 DEF Resumed
  <2>3. t.pc = "dispatch" /\ t.how = task[p].how
    BY <2>1, TaskType DEF TaskState
  <2> QED BY <2>2, <2>3, <1>2 DEF Sound, Settling
<1>3. CASE task[p].how \notin {"abandoned", "inherited", "unrouted"}
  <2>1. PICK t \in TaskState : t = Idle
    BY IdleType
  <2>2. t = Resumed(p)
    BY <2>1, <1>3 DEF Resumed
  <2> QED BY <2>1, <2>2, IdleType DEF Sound, Settling
<1> QED BY <1>1, <1>2, <1>3

-----------------------------------------------------------------------------
(* The log *)

Grows == \A c \in Call : /\ HasStart(c) => HasStart(c)'
                         /\ HasTerminal(c) => HasTerminal(c)'

\* A step that appends nothing keeps what the log holds.
LEMMA LogKept ==
  ASSUME TypeOK, OneOutcome, UNCHANGED log
  PROVE  Grows /\ OneOutcome' /\ (log \in Seq(Event))'
  BY DEF Grows, OneOutcome, HasStart, HasTerminal, TypeOK

\* What an append leaves in a sequence of events.
LEMMA AppendIs ==
  ASSUME NEW s \in Seq(Event), NEW e \in Event, NEW t, t = Append(s, e)
  PROVE  /\ t \in Seq(Event) /\ DOMAIN t = DOMAIN s \cup {Len(s) + 1}
         /\ t[Len(s) + 1] = e /\ Len(s) + 1 \in DOMAIN t
         /\ \A i \in DOMAIN s : i \in DOMAIN t /\ t[i] = s[i]
  OBVIOUS

\* An append keeps what the log holds and adds the event unless its id is there.
LEMMA LogAppended ==
  ASSUME TypeOK, OneOutcome, NEW e \in Event, log' = Appended(e)
  PROVE  /\ Grows /\ OneOutcome' /\ (log \in Seq(Event))'
         /\ e.kind = "started" => HasStart(e.call)'
         /\ e.kind \in TerminalKind => HasTerminal(e.call)'
<1>0. log \in Seq(Event) /\ e.call \in Call /\ "started" \notin TerminalKind
  BY DEF TypeOK, Event, TerminalKind
<1>1. CASE Stored(e)
  <2>1. log' = log
    BY <1>1 DEF Appended
  <2>2. PICK i \in DOMAIN log : SameId(log[i], e)
    BY <1>1 DEF Stored
  <2>3. e.kind = "started" => HasStart(e.call)
    BY <2>2, <1>0 DEF SameId, IsStart, IsTerminal, HasStart
  <2>4. e.kind \in TerminalKind => HasTerminal(e.call)
    BY <2>2, <1>0 DEF SameId, IsStart, IsTerminal, HasTerminal
  <2> QED BY <2>1, <2>3, <2>4, LogKept DEF HasStart, HasTerminal
<1>2. CASE ~Stored(e)
  <2>1. log' = Append(log, e)
    BY <1>2 DEF Appended
  <2>2. /\ log' \in Seq(Event) /\ DOMAIN log' = DOMAIN log \cup {Len(log) + 1}
        /\ log'[Len(log) + 1] = e
        /\ Len(log) + 1 \in DOMAIN log'
        /\ \A i \in DOMAIN log : i \in DOMAIN log' /\ log'[i] = log[i]
    BY <2>1, <1>0, AppendIs
  <2>3. Grows
    BY <2>2 DEF Grows, HasStart, HasTerminal
  <2>4. \A i \in DOMAIN log, c \in Call : ~(IsTerminal(log[i], c) /\ IsTerminal(e, c))
    BY <1>2 DEF Stored, SameId
  <2>5. OneOutcome'
    BY <2>2, <2>4 DEF OneOutcome
  <2>6. e.kind = "started" => HasStart(e.call)'
    BY <2>2 DEF HasStart, IsStart
  <2>7. e.kind \in TerminalKind => HasTerminal(e.call)'
    BY <2>2 DEF HasTerminal, IsTerminal
  <2> QED BY <2>2, <2>3, <2>5, <2>6, <2>7
<1> QED BY <1>1, <1>2

\* The sequence number an append answers is a number.
LEMMA PositionType ==
  ASSUME TypeOK, NEW e
  PROVE  PositionOf(e) \in Nat
<1>1. log \in Seq(Event) /\ Len(log) \in Nat /\ DOMAIN log = 1 .. Len(log)
  BY DEF TypeOK
<1> QED BY <1>1 DEF PositionOf, Stored

\* A call the fold reports has its start in the log; one it drops, a terminal.
LEMMA DerivedFacts ==
  /\ Derived \subseteq Call
  /\ \A c \in Derived : HasStart(c)
  /\ \A c \in Call : HasStart(c) /\ c \notin Derived => HasTerminal(c)
  BY DEF Derived, HasStart, HasTerminal

-----------------------------------------------------------------------------
(* The cache *)

CacheTyped == row \subseteq Call /\ claim \in [Call -> Claim] /\ observed \in Nat

\* deleteRow only removes, and removes the claims with the rows.
LEMMA DropRowsType ==
  ASSUME TypeOK, NEW C, DropRows(C)
  PROVE  row' \subseteq row /\ row' \subseteq Call /\ claim' \in [Call -> Claim]
<1>1. NoClaim \in Claim
  BY BoundAssumption DEF NoClaim, Claim
<1> QED BY <1>1 DEF TypeOK, DropRows

\* A reconcile leaves the fold in the cache.
LEMMA ReconcileType ==
  ASSUME TypeOK, Reconcile
  PROVE  CacheTyped' /\ row' = Derived
<1>1. NoClaim \in Claim
  BY BoundAssumption DEF NoClaim, Claim
<1>2. Derived \subseteq Call /\ Len(log) \in Nat
  BY DerivedFacts DEF TypeOK
<1> QED BY <1>1, <1>2 DEF TypeOK, Reconcile, CacheTyped

\* A peek leaves the rows alone or rebuilds them from the fold.
LEMMA PeekType ==
  ASSUME TypeOK, NEW c \in Call, PeekOrReconcile(c)
  PROVE  CacheTyped' /\ (row' = row \/ row' = Derived)
  BY ReconcileType DEF PeekOrReconcile, TypeOK, CacheTyped

\* The recorded head stays a number.
LEMMA RecordType ==
  ASSUME TypeOK, NEW n \in Nat, RecordObservedHead(n)
  PROVE  observed' \in Nat
  BY DEF TypeOK, RecordObservedHead, Larger

-----------------------------------------------------------------------------
(* Handler steps *)

\* Leaving a barrier keeps it a queue of handlers.
LEMMA LeaveBarrierType ==
  ASSUME TypeOK, NEW p \in Task, LeaveBarrier(p)
  PROVE  barrier' \in [Call -> Seq(Task)]
<1>1. CallOf(p) \in Call /\ barrier[CallOf(p)] \in Seq(Task)
  BY TaskType DEF TypeOK
<1>2. HoldsBarrier(p) => Tail(barrier[CallOf(p)]) \in Seq(Task)
  BY <1>1 DEF HoldsBarrier
<1> QED BY <1>1, <1>2 DEF TypeOK, LeaveBarrier

\* What a handler knows of its call stays true as the log grows.
LEMMA SoundGrows ==
  ASSUME Grows, NEW t \in TaskState, Sound(t)
  PROVE  Sound(t)'
  BY DEF Grows, Sound, TaskState

\* One handler moves to t: what holds of t and of the rows holds of all.
LEMMA HandlerStep ==
  ASSUME IInv, NEW p \in Task, NEW t \in TaskState, Goto(p, t), Sound(t)', Grows,
         \A c \in row' : HasStart(c)' \/ c \in row
  PROVE  (task \in [Task -> TaskState])' /\ AllSound' /\ RowIsJournaled'
<1>1. /\ task' \in [Task -> TaskState] /\ task'[p] = t
      /\ \A q \in Task : q # p => task'[q] = task[q]
  BY DEF IInv, TypeOK, Goto
<1>2. AllSound'
  <2> SUFFICES ASSUME NEW q \in Task PROVE Sound(task[q])'
    BY DEF AllSound
  <2>1. CASE q = p
    BY <2>1, <1>1 DEF Sound, HasStart, HasTerminal, IsStart, IsTerminal
  <2>2. CASE q # p
    <3>1. task'[q] = task[q] /\ task[q] \in TaskState /\ Sound(task[q])
      BY <2>2, <1>1 DEF IInv, AllSound, TypeOK
    <3> QED BY <3>1 DEF Grows, Sound, TaskState
  <2> QED BY <2>1, <2>2
<1>3. RowIsJournaled'
  <2> SUFFICES ASSUME NEW c \in row' PROVE HasStart(c)'
    BY DEF RowIsJournaled
  <2>1. CASE c \in row
    <3>1. HasStart(c) /\ c \in Call
      BY <2>1 DEF IInv, TypeOK, RowIsJournaled
    <3> QED BY <3>1 DEF Grows
  <2> QED BY <2>1
<1> QED BY <1>1, <1>2, <1>3

\* A handler that is not waiting for its append moves: the queue is as it was.
LEMMA QueueKept ==
  ASSUME IInv, NEW p \in Task, NEW t, Goto(p, t), task[p].pc \notin Appending,
         UNCHANGED queue
  PROVE  Queued' /\ (queue \in Seq(Task))'
  BY DEF IInv, TypeOK, Queued, Goto

\* A handler enters the publication queue once.
LEMMA QueueJoined ==
  ASSUME IInv, NEW p \in Task, NEW t, Enqueue(p, t), task[p].pc \notin Appending,
         t.pc \in Appending
  PROVE  Queued' /\ (queue \in Seq(Task))'
<1>1. /\ queue \in Seq(Task) /\ queue' = Append(queue, p)
      /\ task' = [task EXCEPT ![p] = t] /\ task \in [Task -> TaskState]
  BY DEF IInv, TypeOK, Enqueue, Goto
<1>2. /\ queue' \in Seq(Task) /\ DOMAIN queue' = DOMAIN queue \cup {Len(queue) + 1}
      /\ queue'[Len(queue) + 1] = p
      /\ \A i \in DOMAIN queue : queue'[i] = queue[i] /\ queue[i] \in Task
  BY <1>1
<1>3. \A i \in DOMAIN queue : queue[i] # p
  BY DEF IInv, Queued
<1> QED BY <1>1, <1>2, <1>3 DEF IInv, Queued

\* The head of the publication queue leaves it.
LEMMA QueueLeft ==
  ASSUME IInv, queue # <<>>, NEW t, Goto(Head(queue), t), queue' = Tail(queue)
  PROVE  Queued' /\ (queue \in Seq(Task))'
<1>1. queue \in Seq(Task) /\ task \in [Task -> TaskState]
  BY DEF IInv, TypeOK
<1>2. /\ queue' \in Seq(Task) /\ Head(queue) = queue[1] /\ 1 \in DOMAIN queue
      /\ \A i \in DOMAIN queue' : /\ queue'[i] = queue[i + 1] /\ i + 1 \in DOMAIN queue
                                  /\ i + 1 # 1 /\ i \in Nat
      /\ \A i \in DOMAIN queue : queue[i] \in Task
  BY <1>1
<1>3. \A i \in DOMAIN queue' : queue'[i] # Head(queue) /\ task'[queue'[i]] = task[queue'[i]]
  BY <1>1, <1>2 DEF IInv, Queued, Goto
<1> QED BY <1>2, <1>3 DEF IInv, Queued

\* a row added or kept by a handler step keeps RowIsJournaled
RowJustified == \A c \in row' : HasStart(c)' \/ c \in row

OthersTyped ==
  /\ CacheTyped
  /\ joined \in BOOLEAN /\ inheriting \in BOOLEAN
  /\ barrier \in [Call -> Seq(Task)]
  /\ deliveries \subseteq Call \X (0 .. MaxClaim)
  /\ granted \in [Call -> 0 .. MaxClaim]

\* A step that appends nothing and keeps the queue.
LEMMA PlainStep ==
  ASSUME IInv, NEW p \in Task, NEW t \in TaskState, Goto(p, t), Sound(t)',
         task[p].pc \notin Appending, RowJustified, OthersTyped',
         UNCHANGED <<log, queue, route, cloned, faults>>
  PROVE  IInv'
<1>1. Grows /\ OneOutcome' /\ (log \in Seq(Event))'
  BY LogKept DEF IInv
<1>2. (task \in [Task -> TaskState])' /\ AllSound' /\ RowIsJournaled'
  BY <1>1, HandlerStep DEF RowJustified
<1>3. Queued' /\ (queue \in Seq(Task))'
  BY QueueKept
<1> QED BY <1>1, <1>2, <1>3 DEF IInv, TypeOK, OthersTyped, CacheTyped

\* A step that enters the publication queue.
LEMMA EnqueueStep ==
  ASSUME IInv, NEW p \in Task, NEW t \in TaskState, Enqueue(p, t), Sound(t)',
         task[p].pc \notin Appending, t.pc \in Appending, RowJustified,
         OthersTyped', UNCHANGED <<log, route, cloned, faults>>
  PROVE  IInv'
<1>1. Grows /\ OneOutcome' /\ (log \in Seq(Event))'
  BY LogKept DEF IInv
<1>2. (task \in [Task -> TaskState])' /\ AllSound' /\ RowIsJournaled'
  BY <1>1, HandlerStep DEF RowJustified, Enqueue
<1>3. Queued' /\ (queue \in Seq(Task))'
  BY QueueJoined
<1> QED BY <1>1, <1>2, <1>3 DEF IInv, TypeOK, OthersTyped, CacheTyped

\* Variables left alone keep their types.
LEMMA OthersKept ==
  ASSUME TypeOK,
         UNCHANGED <<row, claim, observed, joined, inheriting, barrier, deliveries, granted>>
  PROVE  OthersTyped'
  BY DEF TypeOK, OthersTyped, CacheTyped

\* What the invariant says of one handler.
LEMMA Facts ==
  ASSUME IInv, NEW p \in Task
  PROVE  /\ TypeOK /\ task[p] \in TaskState /\ CallOf(p) \in Call /\ Sound(task[p])
         /\ UNCHANGED log => \A t \in TaskState : Sound(t) => Sound(t)'
<1>1. TypeOK /\ task[p] \in TaskState /\ CallOf(p) \in Call /\ Sound(task[p])
  BY TaskType DEF IInv, AllSound
<1>2. UNCHANGED log => Grows
  BY LogKept DEF IInv
<1> QED BY <1>1, <1>2, SoundGrows

-----------------------------------------------------------------------------
(* callMethod and dispatch *)

\* callMethod enters the call's barrier.
LEMMA CallMethodStep ==
  ASSUME IInv, NEW p \in Task, NEW c \in Call, CallMethod(p, c)
  PROVE  IInv'
<1>1. PICK t \in TaskState : t = [Idle EXCEPT !.pc = "journal", !.call = c]
  BY IdleType DEF TaskState, PC
<1>2. t.pc = "journal" /\ t.gen = 0 /\ t.how = "none"
  BY <1>1 DEF Idle
<1>3. Goto(p, t) /\ task[p].pc = "idle" /\ UNCHANGED <<durable, queue, faults>>
  BY <1>1 DEF CallMethod, At
<1>4. Sound(t)'
  BY <1>2 DEF Sound, Settling
<1>5. OthersTyped'
  BY DEF IInv, TypeOK, OthersTyped, CacheTyped, CallMethod, durable
<1>6. RowJustified
  BY <1>2, <1>3 DEF RowJustified, durable
<1> QED BY <1>2, <1>3, <1>4, <1>5, <1>6, PlainStep DEF Appending, durable

\* journalCallStart, up to its append.
LEMMA JournalStartStep ==
  ASSUME IInv, NEW p \in Task, JournalStart(p)
  PROVE  IInv'
<1>1. /\ TypeOK /\ task[p].pc = "journal" /\ task[p].gen = 0
      /\ task[p] \in TaskState /\ CallOf(p) \in Call
      /\ UNCHANGED <<durable, barrier, deliveries, faults, granted>>
  BY Facts DEF JournalStart, At, Sound
<1>2. OthersTyped'
  BY <1>1, OthersKept DEF durable
<1>3. CASE HasTerminal(CallOf(p)) /\ GotoPc(p, "redriven") /\ UNCHANGED queue
  <2>1. PICK t \in TaskState : t = [task[p] EXCEPT !.pc = "redriven"]
    BY <1>1 DEF TaskState, PC
  <2>2. t.pc = "redriven" /\ t.call = CallOf(p) /\ t.how = task[p].how
    BY <2>1, <1>1 DEF TaskState, CallOf
  <2>3. Sound(t)'
    BY <2>2, <1>3, <1>1, Facts DEF Sound, Settling, durable
  <2>4. RowJustified /\ Goto(p, t)
    BY <2>1, <2>2, <1>1, <1>3 DEF RowJustified, durable, GotoPc
  <2> QED BY <1>1, <1>2, <1>3, <2>3, <2>4, PlainStep DEF Appending, durable
<1>4. CASE Enqueue(p, [task[p] EXCEPT !.pc = "starting"])
  <2>1. PICK t \in TaskState : t = [task[p] EXCEPT !.pc = "starting"]
    BY <1>1 DEF TaskState, PC
  <2>2. t.pc = "starting" /\ t.gen = 0 /\ t.how = task[p].how
    BY <2>1, <1>1 DEF TaskState
  <2>3. Sound(t)'
    BY <2>2 DEF Sound, Settling
  <2>4. RowJustified
    BY <2>2, <1>1 DEF RowJustified, durable
  <2> QED BY <1>1, <1>2, <1>4, <2>1, <2>2, <2>3, <2>4, EnqueueStep DEF Appending, durable
<1> QED BY <1>3, <1>4 DEF JournalStart

\* A handler ends: its slot is free again.
LEMMA EndStep ==
  ASSUME IInv, NEW p \in Task, Goto(p, Idle), task[p].pc \notin Appending,
         \A c \in row' : HasStart(c)' \/ c \in row,
         OthersTyped', UNCHANGED <<log, queue, route, cloned, faults>>
  PROVE  IInv'
<1>1. PICK t \in TaskState : t = Idle /\ t.pc = "idle" /\ t.how = "none" /\ Sound(t)'
  BY IdleSound
<1>2. RowJustified
  BY <1>1 DEF RowJustified, IInv, TypeOK
<1> QED BY <1>1, <1>2, PlainStep

\* journalCallStart, of a call already settled.
LEMMA RedrivenStep ==
  ASSUME IInv, NEW p \in Task, Redriven(p)
  PROVE  IInv'
<1>1. /\ TypeOK /\ task[p].pc = "redriven" /\ Goto(p, Idle)
      /\ DropRows({CallOf(p)}) /\ LeaveBarrier(p)
      /\ UNCHANGED <<log, observed, joined, route, inheriting, cloned,
                     queue, deliveries, faults, granted>>
  BY Facts DEF Redriven, At
<1>2. OthersTyped' /\ row' \subseteq row
  BY <1>1, DropRowsType, LeaveBarrierType DEF OthersTyped, CacheTyped, TypeOK
<1> QED BY <1>1, <1>2, EndStep DEF Appending

\* journalCallStart, after its append.
LEMMA JournalEndStep ==
  ASSUME IInv, NEW p \in Task, JournalEnd(p)
  PROVE  IInv'
<1>1. /\ TypeOK /\ task[p].pc = "journalEnd" /\ HasStart(CallOf(p))
      /\ task[p] \in TaskState /\ CallOf(p) \in Call
      /\ UNCHANGED <<log, claim, joined, route, inheriting, cloned,
                     queue, deliveries, faults, granted>>
  BY Facts DEF JournalEnd, At, Sound, CallOf
<1>2. CASE /\ HasTerminal(CallOf(p)) /\ GotoPc(p, "redriven")
           /\ UNCHANGED <<row, observed, barrier>>
  <2>1. PICK t \in TaskState : t = [task[p] EXCEPT !.pc = "redriven"]
    BY <1>1 DEF TaskState, PC
  <2>2. t.pc = "redriven" /\ t.call = CallOf(p) /\ t.how = task[p].how
    BY <2>1, <1>1 DEF TaskState, CallOf
  <2>3. Sound(t)'
    BY <2>2, <1>2, <1>1, Facts DEF Sound, Settling
  <2>4. RowJustified /\ Goto(p, t) /\ OthersTyped'
    BY <2>1, <2>2, <1>1, <1>2, OthersKept DEF RowJustified, GotoPc
  <2> QED BY <1>1, <2>3, <2>4, PlainStep DEF Appending
<1>3. CASE /\ row' = row \cup {CallOf(p)}
           /\ RecordObservedHead(task[p].seq) /\ LeaveBarrier(p)
           /\ Goto(p, [Idle EXCEPT !.pc = "dispatch", !.todo = {CallOf(p)}])
  <2>1. PICK t \in TaskState : t = [Idle EXCEPT !.pc = "dispatch", !.todo = {CallOf(p)}]
    BY IdleType, <1>1 DEF TaskState, PC
  <2>2. t.pc = "dispatch" /\ t.how = "none"
    BY <2>1 DEF Idle
  <2>3. Sound(t)'
    BY <2>2 DEF Sound, Settling
  <2>4. task[p].seq \in Nat /\ row \subseteq Call
    BY <1>1 DEF TaskState, TypeOK
  <2>5. OthersTyped'
    BY <1>1, <1>3, <2>4, RecordType, LeaveBarrierType DEF OthersTyped, CacheTyped, TypeOK
  <2>6. HasStart(CallOf(p)) => \A c \in {CallOf(p)} : HasStart(c)'
    BY <1>1 DEF HasStart
  <2>7. RowJustified
    BY <1>1, <1>3, <2>2, <2>6 DEF RowJustified
  <2> QED BY <1>1, <1>3, <2>1, <2>3, <2>5, <2>7, PlainStep DEF Appending
<1> QED BY <1>2, <1>3 DEF JournalEnd

\* A claim for dispatch stays within the bound of generations.
LEMMA ClaimForDispatchType ==
  ASSUME TypeOK, NEW C, NEW D, ClaimForDispatch(C, D)
  PROVE  /\ claim' \in [Call -> Claim] /\ granted' \in [Call -> 0 .. MaxClaim]
         /\ deliveries' \subseteq Call \X (0 .. MaxClaim)
<1>1. NoClaim \in Claim
  BY BoundAssumption DEF NoClaim, Claim
<1>2. \A c \in Claimable(C) : c \in Call /\ claim[c].gen + 1 \in 0 .. MaxClaim
  BY BoundAssumption DEF Claimable, TypeOK, Claim
<1>3. \A c \in Claimable(C) :
        [gen |-> claim[c].gen + 1, by |-> NoExecutor, exec |-> FALSE] \in Claim
  BY <1>2 DEF Claim
<1>4. claim' \in [Call -> Claim]
  BY <1>1, <1>3 DEF ClaimForDispatch, TypeOK
<1>5. granted' \in [Call -> 0 .. MaxClaim]
  <2>1. \A c \in Claimable(C) : Larger(granted[c], claim[c].gen + 1) \in 0 .. MaxClaim
    BY <1>2 DEF Larger, TypeOK
  <2> QED BY <2>1 DEF ClaimForDispatch, TypeOK
<1>6. deliveries' \subseteq Call \X (0 .. MaxClaim)
  BY <1>2 DEF ClaimForDispatch, TypeOK
<1> QED BY <1>4, <1>5, <1>6

\* dispatchCallStart to a joined target.
LEMMA DispatchStep ==
  ASSUME IInv, NEW p \in Task, Dispatch(p)
  PROVE  IInv'
<1>1. /\ TypeOK /\ task[p].pc = "dispatch" /\ Goto(p, Idle)
      /\ ClaimForDispatch(task[p].todo, {})
      /\ UNCHANGED <<log, row, observed, joined, route, inheriting, cloned,
                     barrier, queue, faults>>
  BY Facts DEF Dispatch, At
<1>2. OthersTyped'
  BY <1>1, ClaimForDispatchType DEF OthersTyped, CacheTyped, TypeOK
<1> QED BY <1>1, <1>2, EndStep DEF Appending

\* dispatchCallStart to a target that is not joined.
LEMMA DispatchUnroutedStep ==
  ASSUME IInv, NEW p \in Task, DispatchUnrouted(p)
  PROVE  IInv'
<1>1. /\ TypeOK /\ task[p].pc = "dispatch" /\ task[p] \in TaskState
      /\ UNCHANGED <<durable, barrier, queue, deliveries, faults, granted>>
  BY Facts DEF DispatchUnrouted, At
<1>2. OthersTyped'
  BY <1>1, OthersKept DEF durable
<1>3. CASE Goto(p, Idle)
  BY <1>1, <1>2, <1>3, EndStep DEF Appending, durable
<1>4. ASSUME NEW c \in task[p].todo,
             Goto(p, [Await(task[p], c) EXCEPT !.pc = "settle", !.how = "unrouted",
                                               !.todo = @ \ {c}])
      PROVE  IInv'
  <2>1. c \in Call /\ Await(task[p], c) \in TaskState
    BY <1>1, AwaitType DEF TaskState
  <2>2. PICK t \in TaskState : t = [Await(task[p], c) EXCEPT !.pc = "settle",
                                      !.how = "unrouted", !.todo = @ \ {c}]
    BY <2>1 DEF TaskState, PC, Kind, TerminalKind
  <2>3. t.pc = "settle" /\ t.how = "unrouted"
    BY <2>1, <2>2 DEF TaskState
  <2>4. Sound(t)' /\ RowJustified
    BY <2>3, <1>1 DEF Sound, Settling, TerminalKind, RowJustified, durable
  <2> QED BY <1>1, <1>2, <1>4, <2>2, <2>4, PlainStep DEF Appending, durable
<1> QED BY <1>3, <1>4 DEF DispatchUnrouted

-----------------------------------------------------------------------------
(* Settling *)

\* A row that a peek leaves is an old row or one of the fold.
LEMMA PeekJustified ==
  ASSUME IInv, NEW c \in Call, PeekOrReconcile(c), UNCHANGED log
  PROVE  \A d \in row' : HasStart(d)' \/ d \in row
<1>1. row' = row \/ row' = Derived
  BY PeekType DEF IInv
<1>2. \A d \in Derived : HasStart(d)'
  BY DerivedFacts DEF HasStart
<1> QED BY <1>1, <1>2

\* resolveSubmitterForCall.
LEMMA ResolveStep ==
  ASSUME IInv, NEW p \in Task, Resolve(p)
  PROVE  IInv'
<1> DEFINE c == CallOf(p)
<1>1. /\ TypeOK /\ task[p].pc = "resolve" /\ task[p] \in TaskState /\ c \in Call
      /\ task[p].how \in TerminalKind \cup {"output"}
      /\ PeekOrReconcile(c)
      /\ UNCHANGED <<log, joined, route, inheriting, cloned, barrier, deliveries,
                     faults, granted>>
  BY Facts DEF Resolve, At, Sound, Settling
<1>2. OthersTyped' /\ \A d \in row' : HasStart(d)' \/ d \in row
  BY <1>1, PeekType, PeekJustified DEF OthersTyped, CacheTyped, TypeOK
<1>3. CASE /\ Goto(p, [Await(task[p], c) EXCEPT !.pc = "settle"]) /\ UNCHANGED queue
  <2>1. Await(task[p], c) \in TaskState /\ Await(task[p], c).how = task[p].how
    BY <1>1, AwaitType
  <2>2. PICK t \in TaskState : t = [Await(task[p], c) EXCEPT !.pc = "settle"]
    BY <2>1 DEF TaskState, PC
  <2>3. t.pc = "settle" /\ t.how = task[p].how
    BY <2>1, <2>2 DEF TaskState
  <2>4. Sound(t)' /\ RowJustified
    BY <2>3, <1>1, <1>2 DEF Sound, Settling, RowJustified
  <2> QED BY <1>1, <1>2, <1>3, <2>2, <2>4, PlainStep DEF Appending
<1>4. CASE GotoPc(p, "settlePending") /\ UNCHANGED queue
  <2>1. PICK t \in TaskState : t = [task[p] EXCEPT !.pc = "settlePending"]
    BY <1>1 DEF TaskState, PC
  <2>2. t.pc = "settlePending" /\ t.how = task[p].how
    BY <2>1, <1>1 DEF TaskState
  <2>3. Sound(t)' /\ RowJustified /\ Goto(p, t)
    BY <2>1, <2>2, <1>1, <1>2, <1>4 DEF Sound, Settling, RowJustified, GotoPc
  <2> QED BY <1>1, <1>2, <1>4, <2>3, PlainStep DEF Appending
<1>5. CASE Enqueue(p, [task[p] EXCEPT !.pc = "writing", !.how = "lost"])
  <2>1. PICK t \in TaskState : t = [task[p] EXCEPT !.pc = "writing", !.how = "lost"]
    BY <1>1 DEF TaskState, PC, Kind, TerminalKind
  <2>2. t.pc = "writing" /\ t.how = "lost"
    BY <2>1, <1>1 DEF TaskState
  <2>3. Sound(t)' /\ RowJustified
    BY <2>2, <1>1, <1>2 DEF Sound, Settling, TerminalKind, RowJustified
  <2> QED BY <1>1, <1>2, <1>5, <2>1, <2>2, <2>3, EnqueueStep DEF Appending
<1>6. CASE Goto(p, Idle) /\ UNCHANGED queue
  BY <1>1, <1>2, <1>6, EndStep DEF Appending
<1> QED BY <1>3, <1>4, <1>5, <1>6 DEF Resolve

\* settleCall.
LEMMA SettleCallStep ==
  ASSUME IInv, NEW p \in Task, SettleCall(p)
  PROVE  IInv'
<1>1. /\ TypeOK /\ task[p].pc = "settle" /\ task[p] \in TaskState /\ CallOf(p) \in Call
      /\ task[p].how \in TerminalKind \cup {"output"}
      /\ PeekOrReconcile(CallOf(p))
      /\ UNCHANGED <<log, joined, route, inheriting, cloned, barrier, queue,
                     deliveries, faults, granted>>
  BY Facts DEF SettleCall, At, Sound, Settling
<1>2. OthersTyped' /\ \A d \in row' : HasStart(d)' \/ d \in row
  BY <1>1, PeekType, PeekJustified DEF OthersTyped, CacheTyped, TypeOK
<1>3. CASE Goto(p, [task[p] EXCEPT !.pc = "settlePending"])
  <2>1. PICK t \in TaskState : t = [task[p] EXCEPT !.pc = "settlePending"]
    BY <1>1 DEF TaskState, PC
  <2>2. t.pc = "settlePending" /\ t.how = task[p].how
    BY <2>1, <1>1 DEF TaskState
  <2>3. Sound(t)' /\ RowJustified
    BY <2>2, <1>1, <1>2 DEF Sound, Settling, RowJustified
  <2> QED BY <1>1, <1>2, <1>3, <2>1, <2>3, PlainStep DEF Appending
<1>4. CASE Goto(p, Resumed(p))
  <2>1. PICK t \in TaskState : /\ t = Resumed(p) /\ Sound(t)'
                               /\ t.how = "inherited" => task[p].how = "inherited"
    BY <1>1, ResumedSound
  <2>2. RowJustified
    BY <2>1, <1>1, <1>2 DEF RowJustified
  <2> QED BY <1>1, <1>2, <1>4, <2>1, <2>2, PlainStep DEF Appending
<1> QED BY <1>3, <1>4 DEF SettleCall

\* settlePendingCall, up to its append.
LEMMA SettlePendingStep ==
  ASSUME IInv, NEW p \in Task, SettlePending(p)
  PROVE  IInv'
<1> DEFINE c == CallOf(p)
<1>1. /\ TypeOK /\ task[p].pc = "settlePending" /\ task[p] \in TaskState /\ c \in Call
      /\ task[p].how \in TerminalKind \cup {"output"}
      /\ UNCHANGED <<durable, barrier, deliveries, faults, granted>>
  BY Facts DEF SettlePending, At, Sound, Settling
<1>2. OthersTyped'
  BY <1>1, OthersKept DEF durable
<1>3. CASE Enqueue(p, [task[p] EXCEPT !.pc = "rooting"])
  <2>1. PICK t \in TaskState : t = [task[p] EXCEPT !.pc = "rooting"]
    BY <1>1 DEF TaskState, PC
  <2>2. t.pc = "rooting" /\ t.how = task[p].how
    BY <2>1, <1>1 DEF TaskState
  <2>3. Sound(t)' /\ RowJustified
    BY <2>2, <1>1 DEF Sound, Settling, RowJustified, durable
  <2> QED BY <1>1, <1>2, <1>3, <2>1, <2>2, <2>3, EnqueueStep DEF Appending, durable
<1>4. CASE HasStart(c) /\ Enqueue(p, [task[p] EXCEPT !.pc = "writing"])
  <2>1. PICK t \in TaskState : t = [task[p] EXCEPT !.pc = "writing"]
    BY <1>1 DEF TaskState, PC
  <2>2. t.pc = "writing" /\ t.how = task[p].how /\ t.call = c
    BY <2>1, <1>1 DEF TaskState, CallOf
  <2>3. Sound(t)
    BY <2>2, <1>1, <1>4 DEF Sound, Settling
  <2>4. Sound(t)' /\ RowJustified
    BY <2>2, <2>3, <1>1, Facts DEF RowJustified, durable
  <2> QED BY <1>1, <1>2, <1>4, <2>1, <2>2, <2>4, EnqueueStep DEF Appending, durable
<1>5. CASE /\ HasTerminal(c)
           /\ Goto(p, [task[p] EXCEPT !.pc = "consume",
                         !.seq = PositionOf([call |-> c, kind |-> task[p].how])])
           /\ UNCHANGED queue
  <2>1. PositionOf([call |-> c, kind |-> task[p].how]) \in Nat
    BY <1>1, PositionType
  <2>2. PICK t \in TaskState :
          t = [task[p] EXCEPT !.pc = "consume",
                 !.seq = PositionOf([call |-> c, kind |-> task[p].how])]
    BY <2>1, <1>1 DEF TaskState, PC
  <2>3. t.pc = "consume" /\ t.how = task[p].how /\ t.call = c
    BY <2>2, <1>1 DEF TaskState, CallOf
  <2>4. Sound(t)
    BY <2>3, <1>5 DEF Sound, Settling
  <2>5. Sound(t)' /\ RowJustified
    BY <2>3, <2>4, <1>1, Facts DEF RowJustified, durable
  <2> QED BY <1>1, <1>2, <1>5, <2>2, <2>5, PlainStep DEF Appending, durable
<1> QED BY <1>3, <1>4, <1>5 DEF SettlePending

\* settlePendingCall, after its append.
LEMMA ConsumeStep ==
  ASSUME IInv, NEW p \in Task, Consume(p)
  PROVE  IInv'
<1>1. /\ TypeOK /\ task[p].pc = "consume" /\ task[p].seq \in Nat
      /\ DropRows({CallOf(p)}) /\ RecordObservedHead(task[p].seq) /\ LeaveBarrier(p)
      /\ Goto(p, Resumed(p))
      /\ UNCHANGED <<log, joined, route, inheriting, cloned, queue, deliveries,
                     faults, granted>>
  BY Facts DEF Consume, At, TaskState
<1>2. OthersTyped' /\ row' \subseteq row
  BY <1>1, DropRowsType, RecordType, LeaveBarrierType DEF OthersTyped, CacheTyped, TypeOK
<1>3. PICK t \in TaskState : /\ t = Resumed(p) /\ Sound(t)'
                             /\ t.how = "inherited" => task[p].how = "inherited"
  BY <1>1, ResumedSound
<1>4. RowJustified
  BY <1>1, <1>2, <1>3 DEF RowJustified
<1> QED BY <1>1, <1>2, <1>3, <1>4, PlainStep DEF Appending

\* settleMissingCall, after its append.
LEMMA RecordStep ==
  ASSUME IInv, NEW p \in Task, Record(p)
  PROVE  IInv'
<1>1. /\ TypeOK /\ task[p].pc = "record" /\ task[p].seq \in Nat
      /\ RecordObservedHead(task[p].seq) /\ LeaveBarrier(p) /\ Goto(p, Idle)
      /\ UNCHANGED <<log, row, claim, joined, route, inheriting, cloned, queue,
                     deliveries, faults, granted>>
  BY Facts DEF Record, At, TaskState
<1>2. OthersTyped'
  BY <1>1, RecordType, LeaveBarrierType DEF OthersTyped, CacheTyped, TypeOK
<1> QED BY <1>1, <1>2, EndStep DEF Appending

\* cancelJournaledMethodCall.
LEMMA CancelJournaledStep ==
  ASSUME IInv, NEW p \in Task, CancelJournaled(p)
  PROVE  IInv'
<1> DEFINE c == CallOf(p)
<1>1. /\ TypeOK /\ task[p].pc = "cancel" /\ task[p] \in TaskState /\ c \in Call
      /\ task[p].how \in TerminalKind \cup {"output"}
      /\ PeekOrReconcile(c)
      /\ UNCHANGED <<log, joined, route, inheriting, cloned, deliveries, faults, granted>>
  BY Facts DEF CancelJournaled, At, Sound, Settling
<1>2. /\ UNCHANGED barrier => OthersTyped'
      /\ LeaveBarrier(p) => OthersTyped'
      /\ \A d \in row' : HasStart(d)' \/ d \in row
  BY <1>1, PeekType, PeekJustified, LeaveBarrierType DEF OthersTyped, CacheTyped, TypeOK
<1>3. CASE /\ Goto(p, [task[p] EXCEPT !.pc = "settlePending", !.how = "cancelled"])
           /\ UNCHANGED <<queue, barrier>>
  <2>1. PICK t \in TaskState : t = [task[p] EXCEPT !.pc = "settlePending", !.how = "cancelled"]
    BY <1>1 DEF TaskState, PC, Kind, TerminalKind
  <2>2. t.pc = "settlePending" /\ t.how = "cancelled"
    BY <2>1, <1>1 DEF TaskState
  <2>3. Sound(t)' /\ RowJustified
    BY <2>2, <1>1, <1>2 DEF Sound, Settling, TerminalKind, RowJustified
  <2> QED BY <1>1, <1>2, <1>3, <2>1, <2>3, PlainStep DEF Appending
<1>4. CASE /\ task[p].how = "notAdmitted"
           /\ Enqueue(p, [task[p] EXCEPT !.pc = "writing"]) /\ UNCHANGED barrier
  <2>1. PICK t \in TaskState : t = [task[p] EXCEPT !.pc = "writing"]
    BY <1>1 DEF TaskState, PC
  <2>2. t.pc = "writing" /\ t.how = "notAdmitted"
    BY <2>1, <1>1, <1>4 DEF TaskState
  <2>3. Sound(t)' /\ RowJustified
    BY <2>2, <1>1, <1>2 DEF Sound, Settling, TerminalKind, RowJustified
  <2> QED BY <1>1, <1>2, <1>4, <2>1, <2>2, <2>3, EnqueueStep DEF Appending
<1>5. CASE LeaveBarrier(p) /\ Goto(p, Idle) /\ UNCHANGED queue
  BY <1>1, <1>2, <1>5, EndStep DEF Appending
<1> QED BY <1>3, <1>4, <1>5 DEF CancelJournaled

\* One turn of a settlement loop, the last turn completes a postClone.
LEMMA SettleNextStep ==
  ASSUME IInv, NEW p \in Task, SettleNext(p)
  PROVE  IInv'
<1>1. /\ TypeOK /\ task[p].pc = "loop" /\ task[p] \in TaskState
      /\ task[p].how \in {"abandoned", "inherited"}
      /\ UNCHANGED <<log, row, claim, observed, joined, route, cloned, barrier, queue,
                     deliveries, faults, granted>>
  BY Facts DEF SettleNext, At, Sound
<1>2. CASE /\ inheriting' = (inheriting /\ task[p].how # "inherited")
           /\ Goto(p, Idle)
  <2>1. OthersTyped'
    BY <1>1, <1>2 DEF OthersTyped, CacheTyped, TypeOK
  <2>2. PICK t \in TaskState : t = Idle /\ t.pc = "idle" /\ t.how = "none" /\ Sound(t)'
    BY IdleSound
  <2>3. RowJustified
    BY <1>1, <1>2, <2>2 DEF RowJustified, TypeOK
  <2> QED BY <1>1, <1>2, <2>1, <2>2, <2>3, PlainStep DEF Appending
<1>3. ASSUME UNCHANGED inheriting, NEW c \in task[p].todo,
             Goto(p, [Await(task[p], c) EXCEPT !.pc = "settle", !.todo = @ \ {c}])
      PROVE  IInv'
  <2>1. /\ c \in Call /\ Await(task[p], c) \in TaskState
        /\ Await(task[p], c).how = task[p].how
    BY <1>1, AwaitType DEF TaskState
  <2>2. PICK t \in TaskState : t = [Await(task[p], c) EXCEPT !.pc = "settle", !.todo = @ \ {c}]
    BY <2>1 DEF TaskState, PC
  <2>3. t.pc = "settle" /\ t.how = task[p].how
    BY <2>1, <2>2 DEF TaskState
  <2>4. Sound(t)' /\ RowJustified /\ OthersTyped'
    BY <2>3, <1>1, <1>3, OthersKept DEF Sound, Settling, TerminalKind, RowJustified
  <2> QED BY <1>1, <1>3, <2>2, <2>4, PlainStep DEF Appending
<1> QED BY <1>2, <1>3 DEF SettleNext

-----------------------------------------------------------------------------
(* The publication queue *)

\* The event a waiting handler appends, and what it knows once it is appended.
LEMMA HeadFacts ==
  ASSUME IInv, queue # <<>>
  PROVE  /\ Head(queue) \in Task /\ TypeOK /\ OneOutcome
         /\ task[Head(queue)] \in TaskState /\ Sound(task[Head(queue)])
         /\ task[Head(queue)].pc \in Appending
         /\ EventOf(Head(queue)) \in Event
<1> DEFINE p == Head(queue)
<1>1. TypeOK /\ OneOutcome /\ queue \in Seq(Task)
  BY DEF IInv, TypeOK
<1>2. p \in Task /\ 1 \in DOMAIN queue /\ p = queue[1]
  BY <1>1
<1>3. task[p].pc \in Appending
  BY <1>2 DEF IInv, Queued
<1>4. task[p] \in TaskState /\ CallOf(p) \in Call /\ Sound(task[p])
  BY <1>2, Facts
<1>5. EventOf(p) \in Event
  <2>1. (IF task[p].pc \in {"starting", "rooting"} THEN "started" ELSE task[p].how) \in Kind
    BY <1>3, <1>4 DEF Kind, Sound, Settling, Appending
  <2> QED BY <2>1, <1>4 DEF EventOf, Event
<1> QED BY <1>1, <1>2, <1>3, <1>4, <1>5

\* The publication queue commits its head.
LEMMA CommitStep ==
  ASSUME IInv, Commit
  PROVE  IInv'
<1> DEFINE p == Head(queue)
<1>0. PICK e \in Event : e = EventOf(p)
  BY HeadFacts DEF Commit
<1>1. /\ queue # <<>> /\ log' = Appended(e) /\ queue' = Tail(queue)
      /\ Goto(p, [task[p] EXCEPT !.pc = AfterAppend(p), !.seq = PositionOf(e)])
      /\ UNCHANGED <<row, claim, observed, joined, route, inheriting, cloned,
                     barrier, deliveries, faults, granted>>
  BY <1>0 DEF Commit
<1>2. /\ p \in Task /\ TypeOK /\ OneOutcome /\ task[p] \in TaskState /\ Sound(task[p])
      /\ task[p].pc \in Appending
  BY <1>1, HeadFacts
<1>3. /\ Grows /\ OneOutcome' /\ (log \in Seq(Event))'
      /\ e.kind = "started" => HasStart(e.call)'
      /\ e.kind \in TerminalKind => HasTerminal(e.call)'
  BY <1>1, <1>2, LogAppended
<1>4. /\ e.call = task[p].call
      /\ task[p].pc \in {"starting", "rooting"} => e.kind = "started"
      /\ task[p].pc = "writing" => e.kind = task[p].how
  BY <1>0 DEF EventOf, CallOf
<1>5. /\ AfterAppend(p) \in {"journalEnd", "settlePending", "record", "consume"}
      /\ AfterAppend(p) = "journalEnd" => task[p].pc = "starting"
      /\ AfterAppend(p) = "settlePending" => task[p].pc = "rooting"
      /\ AfterAppend(p) = "consume" => task[p].pc = "writing" /\ task[p].how # "output"
  BY <1>2 DEF AfterAppend, Appending, At
<1>6. PICK t \in TaskState : t = [task[p] EXCEPT !.pc = AfterAppend(p), !.seq = PositionOf(e)]
  <2>1. PositionOf(e) \in Nat /\ AfterAppend(p) \in PC
    BY <1>2, <1>5, PositionType DEF PC
  <2> QED BY <2>1, <1>2 DEF TaskState
<1>7. t.pc = AfterAppend(p) /\ t.how = task[p].how /\ t.call = task[p].call
  BY <1>6, <1>2 DEF TaskState
<1>8. Sound(t)'
  <2>1. t.pc = "journalEnd" => HasStart(t.call)'
    BY <1>3, <1>4, <1>5, <1>7
  <2>2. t.pc = "consume" => HasTerminal(t.call)'
    BY <1>2, <1>3, <1>4, <1>5, <1>7 DEF Sound, Settling
  <2>3. t.pc = "settlePending" => t.how \in TerminalKind \cup {"output"}
    BY <1>2, <1>5, <1>7 DEF Sound, Settling
  <2> QED BY <2>1, <2>2, <2>3, <1>5, <1>7 DEF Sound, Settling
<1>9. Queued' /\ (queue \in Seq(Task))'
  BY <1>1, <1>6, QueueLeft
<1>10. (task \in [Task -> TaskState])' /\ AllSound' /\ RowIsJournaled'
  BY <1>1, <1>2, <1>3, <1>6, <1>7, <1>8, HandlerStep
<1> QED BY <1>1, <1>2, <1>3, <1>9, <1>10 DEF IInv, TypeOK

\* An append rejects, before or after the event was stored.
LEMMA AppendRejectsStep ==
  ASSUME IInv, NEW stored \in BOOLEAN, AppendRejects(stored)
  PROVE  IInv'
<1> DEFINE p == Head(queue)
           next == CASE task[p].how = "abandoned" -> [task[p] EXCEPT !.pc = "loop"]
                     [] /\ task[p].how # "abandoned" /\ route = "entity"
                        /\ task[p].gen > 0 /\ claim[CallOf(p)].gen = task[p].gen ->
                          [Await(task[p], CallOf(p)) EXCEPT !.pc = "settle", !.gen = 0]
                     [] OTHER -> Idle
<1>0. PICK e \in Event : e = EventOf(p)
  BY HeadFacts DEF AppendRejects
<1>1. /\ queue # <<>> /\ faults < MaxFault /\ faults' = faults + 1
      /\ log' = Appended(e) \/ UNCHANGED log
      /\ LeaveBarrier(p) /\ queue' = Tail(queue) /\ Goto(p, next)
      /\ UNCHANGED <<row, claim, observed, joined, route, inheriting, cloned,
                     deliveries, granted>>
  BY <1>0 DEF AppendRejects
<1>2. /\ p \in Task /\ TypeOK /\ OneOutcome /\ task[p] \in TaskState /\ Sound(task[p])
      /\ task[p].pc \in Appending /\ CallOf(p) \in Call
  BY <1>1, HeadFacts, TaskType
<1>3. Grows /\ OneOutcome' /\ (log \in Seq(Event))'
  BY <1>1, <1>2, LogAppended, LogKept
<1>4. PICK t \in TaskState : /\ t = next /\ Sound(t)'
                             /\ t.how = "inherited" => task[p].how = "inherited"
  <2>1. CASE task[p].how = "abandoned"
    <3>1. PICK t \in TaskState : t = [task[p] EXCEPT !.pc = "loop"]
      BY <1>2 DEF TaskState, PC
    <3>2. t.pc = "loop" /\ t.how = task[p].how
      BY <3>1, <1>2 DEF TaskState
    <3>3. t = next
      BY <2>1, <3>1
    <3> QED BY <2>1, <3>2, <3>3 DEF Sound, Settling, TerminalKind
  <2>2. CASE /\ task[p].how # "abandoned"
             /\ route = "entity" /\ task[p].gen > 0 /\ claim[CallOf(p)].gen = task[p].gen
    <3>1. PICK u \in TaskState : u = Await(task[p], CallOf(p)) /\ u.how = task[p].how
      BY <1>2, AwaitType
    <3>2. PICK t \in TaskState : t = [u EXCEPT !.pc = "settle", !.gen = 0]
      <4>1. "settle" \in PC /\ 0 \in 0 .. MaxClaim
        BY BoundAssumption DEF PC
      <4> QED BY <4>1 DEF TaskState
    <3>3. t.pc = "settle" /\ t.how = task[p].how
      BY <3>1, <3>2 DEF TaskState
    <3>4. t = next
      BY <2>2, <3>1, <3>2
    <3>5. task[p].how \in TerminalKind \cup {"output"}
      <4>1. task[p].pc # "starting" /\ task[p].pc \in Settling
        BY <2>2, <1>2 DEF Sound, Appending, Settling
      <4> QED BY <4>1, <1>2 DEF Sound
    <3> QED BY <3>1, <3>3, <3>4, <3>5 DEF Sound, Settling
  <2>3. CASE /\ task[p].how # "abandoned"
             /\ ~(route = "entity" /\ task[p].gen > 0 /\ claim[CallOf(p)].gen = task[p].gen)
    <3>1. next = Idle
      BY <2>3
    <3> QED BY <3>1, IdleSound
  <2> QED BY <2>1, <2>2, <2>3
<1>5. Queued' /\ (queue \in Seq(Task))'
  BY <1>1, <1>4, QueueLeft
<1>6. (task \in [Task -> TaskState])' /\ AllSound' /\ RowIsJournaled'
  BY <1>1, <1>2, <1>3, <1>4, HandlerStep
<1>7. (barrier \in [Call -> Seq(Task)])' /\ (faults \in 0 .. MaxFault)'
  <2>1. barrier \in [Call -> Seq(Task)] /\ faults \in 0 .. MaxFault
    BY <1>2 DEF TypeOK
  <2>2. faults < MaxFault /\ faults' = faults + 1
    BY DEF AppendRejects
  <2>3. faults' \in 0 .. MaxFault
    BY <2>1, <2>2, BoundAssumption
  <2>4. barrier' \in [Call -> Seq(Task)]
    BY <1>1, <1>2, <2>1, LeaveBarrierType
  <2> QED BY <2>3, <2>4
<1> QED BY <1>1, <1>2, <1>3, <1>5, <1>6, <1>7 DEF IInv, TypeOK

-----------------------------------------------------------------------------
(* Requests, membership, reconciliation, forks and restarts *)

\* submitMethodResult and submitMethodProgress arrive.
LEMMA SubmitStep ==
  ASSUME IInv, NEW p \in Task, NEW c \in Call, NEW n \in 0 .. MaxClaim,
         SubmitMethodResult(p, c, n) \/ SubmitMethodProgress(p, c, n)
  PROVE  IInv'
<1>1. /\ TypeOK /\ task[p].pc = "idle"
      /\ UNCHANGED <<durable, barrier, queue, deliveries, faults, granted>>
  BY Facts DEF SubmitMethodResult, SubmitMethodProgress, At
<1>2. PICK u \in TaskState : u = Await(Idle, c) /\ u.how = "none"
  BY <1>1, IdleType, AwaitType
<1>3. \E t \in TaskState :
        /\ Goto(p, t) /\ t.pc = "resolve" /\ t.how \in {"result", "output"}
  <2>1. ASSUME NEW b \in BOOLEAN, NEW how \in {"result", "output"}
        PROVE  LET t == [u EXCEPT !.pc = "resolve", !.how = how, !.gen = n, !.behindStart = b]
               IN  t \in TaskState /\ t.pc = "resolve" /\ t.how = how
    <3>1. "resolve" \in PC /\ how \in Kind
      BY DEF PC, Kind, TerminalKind
    <3> QED BY <3>1 DEF TaskState
  <2>2. ASSUME NEW how \in {"result", "output"}
        PROVE  LET t == [u EXCEPT !.pc = "resolve", !.how = how, !.gen = n]
               IN  t \in TaskState /\ t.pc = "resolve" /\ t.how = how
    <3>1. "resolve" \in PC /\ how \in Kind
      BY DEF PC, Kind, TerminalKind
    <3> QED BY <3>1 DEF TaskState
  <2>3. CASE SubmitMethodResult(p, c, n)
    <3> DEFINE b == /\ barrier[c] # <<>>
                    /\ task[Last(barrier[c])].pc \in {"journal", "starting", "journalEnd"}
               t == [u EXCEPT !.pc = "resolve", !.how = "result", !.gen = n,
                              !.behindStart = b]
    <3>1. b \in BOOLEAN
      OBVIOUS
    <3>2. t \in TaskState /\ t.pc = "resolve" /\ t.how = "result"
      BY <3>1, <2>1
    <3>3. Goto(p, t)
      BY <2>3, <1>2 DEF SubmitMethodResult
    <3> QED BY <3>2, <3>3
  <2>4. CASE SubmitMethodProgress(p, c, n)
    <3> DEFINE t == [u EXCEPT !.pc = "resolve", !.how = "output", !.gen = n]
    <3>1. t \in TaskState /\ t.pc = "resolve" /\ t.how = "output"
      BY <2>2
    <3>2. Goto(p, t)
      BY <2>4, <1>2 DEF SubmitMethodProgress
    <3> QED BY <3>1, <3>2
  <2> QED BY <2>3, <2>4
<1>4. PICK t \in TaskState : Goto(p, t) /\ t.pc = "resolve" /\ t.how \in {"result", "output"}
  BY <1>3
<1>5. Sound(t)' /\ RowJustified /\ OthersTyped'
  BY <1>1, <1>4, OthersKept DEF Sound, Settling, TerminalKind, RowJustified, durable
<1> QED BY <1>1, <1>4, <1>5, PlainStep DEF Appending, durable

\* onMethodCall answers.
LEMMA ProviderReturnsStep ==
  ASSUME IInv, NEW p \in Task, NEW c \in Call, NEW n \in 0 .. MaxClaim,
         ProviderReturns(p, c, n)
  PROVE  IInv'
<1>1. /\ TypeOK /\ task[p].pc = "idle"
      /\ deliveries' = deliveries \ {<<c, n>>}
      /\ UNCHANGED <<durable, barrier, queue, faults, granted>>
  BY Facts DEF ProviderReturns, At
<1>2. OthersTyped'
  BY <1>1 DEF OthersTyped, CacheTyped, TypeOK, durable
<1>3. CASE claim[c].gen # n
  BY <1>1, <1>2, <1>3, EndStep DEF ProviderReturns, Appending, durable
<1>4. CASE claim[c].gen = n
  <2>1. PICK u \in TaskState : u = Await(Idle, c)
    BY <1>1, IdleType, AwaitType
  <2>2. PICK t \in TaskState : t = [u EXCEPT !.pc = "settle", !.how = "result", !.gen = n]
    <3>1. "settle" \in PC /\ "result" \in Kind
      BY DEF PC, Kind, TerminalKind
    <3> QED BY <3>1 DEF TaskState
  <2>3. t.pc = "settle" /\ t.how = "result" /\ Goto(p, t)
    BY <1>4, <2>1, <2>2 DEF TaskState, ProviderReturns
  <2>4. Sound(t)' /\ RowJustified
    BY <2>3, <1>1 DEF Sound, Settling, TerminalKind, RowJustified, durable
  <2> QED BY <1>1, <1>2, <2>3, <2>4, PlainStep DEF Appending, durable
<1> QED BY <1>3, <1>4

\* cancelMethodCall and timeoutMethodCall enter the call's barrier.
LEMMA CancelMethodCallStep ==
  ASSUME IInv, NEW p \in Task, NEW c \in Call, NEW how, CancelMethodCall(p, c, how)
  PROVE  IInv'
<1>1. /\ TypeOK /\ task[p].pc = "idle" /\ how \in {"cancelled", "notAdmitted"}
      /\ Goto(p, [Idle EXCEPT !.pc = "cancel", !.call = c, !.how = how])
      /\ UNCHANGED <<durable, queue, faults>>
  BY Facts DEF CancelMethodCall, At
<1>2. PICK t \in TaskState : t = [Idle EXCEPT !.pc = "cancel", !.call = c, !.how = how]
  <2>1. "cancel" \in PC /\ how \in Kind
    BY <1>1 DEF PC, Kind, TerminalKind
  <2> QED BY <2>1, IdleType DEF TaskState
<1>3. t.pc = "cancel" /\ t.how = how
  BY <1>2 DEF Idle
<1>4. Sound(t)' /\ RowJustified
  BY <1>1, <1>3 DEF Sound, Settling, TerminalKind, RowJustified, durable
<1>5. OthersTyped'
  BY DEF IInv, TypeOK, OthersTyped, CacheTyped, CancelMethodCall, durable
<1> QED BY <1>1, <1>2, <1>4, <1>5, PlainStep DEF Appending, durable

\* The provider leaves.
LEMMA LeaveStep ==
  ASSUME IInv, NEW p \in Task, Leave(p)
  PROVE  IInv'
<1>1. /\ TypeOK /\ task[p].pc = "idle" /\ joined' = FALSE
      /\ Goto(p, [Idle EXCEPT !.pc = "leaving", !.how = "abandoned"])
      /\ UNCHANGED <<log, row, claim, observed, route, inheriting, cloned, barrier,
                     queue, deliveries, faults, granted>>
  BY Facts DEF Leave, At
<1>2. PICK t \in TaskState : t = [Idle EXCEPT !.pc = "leaving", !.how = "abandoned"]
  <2>1. "leaving" \in PC /\ "abandoned" \in Kind
    BY DEF PC, Kind, TerminalKind
  <2> QED BY <2>1, IdleType DEF TaskState
<1>3. t.pc = "leaving" /\ t.how = "abandoned"
  BY <1>2 DEF Idle
<1>4. Sound(t)' /\ RowJustified /\ OthersTyped'
  BY <1>1, <1>3 DEF Sound, Settling, TerminalKind, RowJustified, OthersTyped, CacheTyped, TypeOK
<1> QED BY <1>1, <1>2, <1>4, PlainStep DEF Appending

\* failPendingCallsTargeting snapshots the provider's rows.
LEMMA FailPendingCallsTargetingStep ==
  ASSUME IInv, NEW p \in Task, FailPendingCallsTargeting(p)
  PROVE  IInv'
<1>1. /\ TypeOK /\ task[p].pc = "leaving" /\ task[p] \in TaskState
      /\ task[p].how \in {"abandoned", "inherited"}
      /\ Goto(p, [task[p] EXCEPT !.pc = "loop", !.todo = row])
      /\ UNCHANGED <<durable, barrier, queue, deliveries, faults, granted>>
  BY Facts DEF FailPendingCallsTargeting, At, Sound
<1>2. PICK t \in TaskState : t = [task[p] EXCEPT !.pc = "loop", !.todo = row]
  <2>1. "loop" \in PC /\ row \in SUBSET Call
    BY <1>1 DEF PC, TypeOK
  <2> QED BY <2>1, <1>1 DEF TaskState
<1>3. t.pc = "loop" /\ t.how = task[p].how
  BY <1>1, <1>2 DEF TaskState
<1>4. Sound(t)' /\ RowJustified /\ OthersTyped'
  BY <1>1, <1>3, OthersKept DEF Sound, Settling, TerminalKind, RowJustified, durable
<1> QED BY <1>1, <1>2, <1>4, PlainStep DEF Appending, durable

\* The provider joins.
LEMMA JoinStep ==
  ASSUME IInv, NEW p \in Task, Join(p)
  PROVE  IInv'
<1>1. /\ TypeOK /\ task[p].pc = "idle" /\ task[p] \in TaskState /\ joined' = TRUE
      /\ Goto(p, [task[p] EXCEPT !.pc = "redeliver"])
      /\ UNCHANGED <<log, row, claim, observed, route, inheriting, cloned, barrier,
                     queue, deliveries, faults, granted>>
  BY Facts DEF Join, At, GotoPc
<1>2. PICK t \in TaskState : t = [task[p] EXCEPT !.pc = "redeliver"]
  BY <1>1 DEF TaskState, PC
<1>3. t.pc = "redeliver" /\ t.how = task[p].how
  BY <1>1, <1>2 DEF TaskState
<1>4. Sound(t)' /\ RowJustified /\ OthersTyped'
  BY <1>1, <1>3 DEF Sound, Settling, RowJustified, OthersTyped, CacheTyped, TypeOK
<1> QED BY <1>1, <1>2, <1>4, PlainStep DEF Appending

\* redeliverPendingCallsTo.
LEMMA RedeliverStep ==
  ASSUME IInv, NEW p \in Task, Redeliver(p)
  PROVE  IInv'
<1> DEFINE stale == {c \in row : HasTerminal(c)}
<1>1. /\ TypeOK /\ task[p].pc = "redeliver" /\ row' = row \ stale /\ Goto(p, Idle)
      /\ ClaimForDispatch(row \ stale, stale)
      /\ UNCHANGED <<log, observed, joined, route, inheriting, cloned, barrier, queue,
                     faults>>
  BY Facts DEF Redeliver, At
<1>2. OthersTyped' /\ row' \subseteq row
  BY <1>1, ClaimForDispatchType DEF OthersTyped, CacheTyped, TypeOK
<1> QED BY <1>1, <1>2, EndStep DEF Appending

\* abandonInheritedCalls reconciles and starts its loop.
LEMMA AbandonInheritedCallsStep ==
  ASSUME IInv, NEW p \in Task, AbandonInheritedCalls(p)
  PROVE  IInv'
<1>1. /\ TypeOK /\ task[p].pc = "idle" /\ Reconcile
      /\ Goto(p, [Idle EXCEPT !.pc = "loop", !.how = "inherited", !.todo = Derived])
      /\ UNCHANGED <<log, joined, route, inheriting, cloned, barrier, queue, deliveries,
                     faults, granted>>
  BY Facts DEF AbandonInheritedCalls, At
<1>2. PICK t \in TaskState :
        t = [Idle EXCEPT !.pc = "loop", !.how = "inherited", !.todo = Derived]
  <2>1. "loop" \in PC /\ "inherited" \in Kind /\ Derived \in SUBSET Call
    BY DerivedFacts DEF PC, Kind, TerminalKind
  <2> QED BY <2>1, IdleType DEF TaskState
<1>3. t.pc = "loop" /\ t.how = "inherited"
  BY <1>2 DEF Idle
<1>4. OthersTyped' /\ row' = Derived
  BY <1>1, ReconcileType DEF OthersTyped, CacheTyped, TypeOK
<1>5. \A c \in row' : HasStart(c)'
  BY <1>1, <1>4, DerivedFacts DEF HasStart
<1>6. Sound(t)' /\ RowJustified
  BY <1>3, <1>5 DEF Sound, Settling, TerminalKind, RowJustified
<1> QED BY <1>1, <1>2, <1>4, <1>6, PlainStep DEF Appending

\* Steps that move no handler: the fold and the claims.
LEMMA CacheStep ==
  ASSUME IInv, UNCHANGED <<log, joined, route, inheriting, cloned, resident, faults>>,
         CacheTyped', (granted \in [Call -> 0 .. MaxClaim])', row' = row \/ row' = Derived
  PROVE  IInv'
<1>1. TypeOK'
  BY DEF IInv, TypeOK, CacheTyped, resident
<1>2. Grows /\ OneOutcome'
  BY LogKept DEF IInv
<1>3. AllSound' /\ Queued'
  BY <1>2 DEF IInv, AllSound, Sound, Queued, resident, HasStart, HasTerminal
<1>4. RowIsJournaled'
  BY DerivedFacts DEF IInv, RowIsJournaled, resident, HasStart
<1> QED BY <1>1, <1>2, <1>3, <1>4 DEF IInv

\* The convergence sweep.
LEMMA ReconcilePendingCallsStep ==
  ASSUME IInv, NEW force \in BOOLEAN, ReconcilePendingCalls(force)
  PROVE  IInv'
<1>1. CacheTyped' /\ row' = Derived
  BY ReconcileType DEF IInv, ReconcilePendingCalls
<1> QED BY <1>1, CacheStep DEF ReconcilePendingCalls, IInv, TypeOK

\* claimMethodCall and markProviderCallExecutionStarted.
LEMMA ClaimsStep ==
  ASSUME IInv, Claims
  PROVE  IInv'
<1>1. ASSUME NEW c \in Call, NEW x \in Executor, ClaimMethodCall(c, x)
      PROVE  IInv'
  <2>1. TypeOK /\ claim[c].gen + 1 \in 0 .. MaxClaim
    BY <1>1, BoundAssumption DEF IInv, TypeOK, Claim, ClaimMethodCall
  <2>2. [gen |-> claim[c].gen + 1, by |-> x, exec |-> FALSE] \in Claim
    BY <2>1 DEF Claim
  <2>3. Larger(granted[c], claim[c].gen + 1) \in 0 .. MaxClaim
    BY <2>1 DEF Larger, TypeOK
  <2>4. CacheTyped' /\ (granted \in [Call -> 0 .. MaxClaim])'
    BY <1>1, <2>1, <2>2, <2>3 DEF ClaimMethodCall, CacheTyped, TypeOK
  <2> QED BY <1>1, <2>4, CacheStep DEF ClaimMethodCall
<1>2. ASSUME NEW c \in Call, NEW n \in 1 .. MaxClaim, MarkMethodCallExecutionStarted(c, n)
      PROVE  IInv'
  <2>1. [claim[c] EXCEPT !.exec = TRUE] \in Claim
    BY DEF IInv, TypeOK, Claim
  <2>2. CacheTyped' /\ (granted \in [Call -> 0 .. MaxClaim])'
    BY <1>2, <2>1 DEF MarkMethodCallExecutionStarted, CacheTyped, IInv, TypeOK
  <2> QED BY <1>2, <2>2, CacheStep DEF MarkMethodCallExecutionStarted
<1> QED BY <1>1, <1>2 DEF Claims

\* A new activation has no handlers.
LEMMA ResetFacts ==
  ASSUME Reset
  PROVE  /\ (task \in [Task -> TaskState])' /\ (barrier \in [Call -> Seq(Task)])'
         /\ (queue \in Seq(Task))' /\ (deliveries \subseteq Call \X (0 .. MaxClaim))'
         /\ AllSound' /\ Queued' /\ \A p \in Task : task'[p].how = "none"
<1>1. PICK t \in TaskState : t = Idle /\ t.pc = "idle" /\ t.how = "none" /\ Sound(t)'
  BY IdleSound
<1>2. task' \in [Task -> TaskState] /\ \A p \in Task : task'[p] = t
  BY <1>1 DEF Reset
<1>3. AllSound'
  BY <1>1, <1>2 DEF AllSound, Sound, Settling
<1> QED BY <1>1, <1>2, <1>3 DEF Reset, Queued

\* A crash keeps the durable state.
LEMMA CrashStep ==
  ASSUME IInv, Crash
  PROVE  IInv'
<1>1. Grows /\ OneOutcome' /\ (log \in Seq(Event))'
  BY LogKept DEF IInv, Crash, durable
<1>2. RowIsJournaled'
  BY ResetFacts DEF IInv, RowIsJournaled, Crash, durable, HasStart
<1>3. (faults \in 0 .. MaxFault)'
  BY BoundAssumption DEF IInv, TypeOK, Crash
<1> QED BY <1>1, <1>2, <1>3, ResetFacts DEF IInv, TypeOK, Crash, durable

\* A fork keeps a prefix of the log.
LEMMA PostCloneStep ==
  ASSUME IInv, NEW n \in 0 .. Len(log), PostClone(n)
  PROVE  IInv'
<1>1. log \in Seq(Event) /\ log' = SubSeq(log, 1, n)
  BY DEF IInv, TypeOK, PostClone
<1>2. log' \in Seq(Event) /\ DOMAIN log' = 1 .. n /\ \A i \in 1 .. n : log'[i] = log[i] /\ i \in DOMAIN log
  BY <1>1
<1>3. OneOutcome'
  BY <1>2 DEF IInv, OneOutcome
<1>4. RowIsJournaled'
  BY ResetFacts DEF PostClone, InitializeClonedStorage, RowIsJournaled
<1>5. granted' \in [Call -> 0 .. MaxClaim]
  BY BoundAssumption DEF PostClone
<1>6. claim' \in [Call -> Claim]
  <2>1. NoClaim \in Claim
    BY BoundAssumption DEF NoClaim, Claim
  <2> QED BY <2>1 DEF PostClone, InitializeClonedStorage
<1>7. TypeOK'
  BY <1>2, <1>5, <1>6, ResetFacts DEF IInv, TypeOK, PostClone, InitializeClonedStorage
<1> QED BY <1>3, <1>4, <1>7, ResetFacts DEF IInv, PostClone

-----------------------------------------------------------------------------
(* The inductive invariant *)

\* The invariant holds of a new channel.
LEMMA InitIInv == Init => IInv
<1> SUFFICES ASSUME Init PROVE IInv
  OBVIOUS
<1>1. Idle \in TaskState /\ Idle.pc = "idle" /\ Idle.how = "none"
  BY IdleType
<1>2. task \in [Task -> TaskState] /\ \A p \in Task : task[p] = Idle
  BY <1>1 DEF Init
<1>3. NoClaim \in Claim
  BY BoundAssumption DEF NoClaim, Claim
<1>4. TypeOK
  <2>1. granted \in [Call -> 0 .. MaxClaim] /\ faults \in 0 .. MaxFault
    BY BoundAssumption DEF Init
  <2>2. claim \in [Call -> Claim] /\ deliveries \subseteq Call \X (0 .. MaxClaim)
    BY <1>3 DEF Init
  <2>3. log \in Seq(Event) /\ queue \in Seq(Task) /\ barrier \in [Call -> Seq(Task)]
    BY DEF Init
  <2> QED BY <1>2, <2>1, <2>2, <2>3 DEF Init, TypeOK
<1>5. AllSound
  BY <1>1, <1>2 DEF AllSound, Sound, Settling
<1> QED BY <1>4, <1>5 DEF Init, IInv, Queued, OneOutcome, RowIsJournaled

\* Every step of a running handler keeps the invariant.
LEMMA ContinueStep ==
  ASSUME IInv, NEW p \in Task, Continue(p)
  PROVE  IInv'
BY JournalStartStep, RedrivenStep, JournalEndStep, DispatchStep, DispatchUnroutedStep,
   ResolveStep, SettleCallStep, SettlePendingStep, ConsumeStep, RecordStep,
   CancelJournaledStep, SettleNextStep, FailPendingCallsTargetingStep, RedeliverStep
   DEF Continue

\* Every arriving request keeps the invariant.
LEMMA RequestStep ==
  ASSUME IInv, NEW p \in Task, Request(p)
  PROVE  IInv'
BY AbandonInheritedCallsStep, LeaveStep, JoinStep, CallMethodStep, CancelMethodCallStep,
   SubmitStep, ProviderReturnsStep
   DEF Request, TimeoutMethodCall

\* Every step of the channel keeps the inductive invariant.
LEMMA NextIInv == IInv /\ [Next]_vars => IInv'
<1> SUFFICES ASSUME IInv, [Next]_vars PROVE IInv'
  OBVIOUS
<1>1. CASE Next
  BY <1>1, CommitStep, AppendRejectsStep, ContinueStep, RequestStep, ClaimsStep,
     ReconcilePendingCallsStep, CrashStep, PostCloneStep DEF Next
<1>2. CASE UNCHANGED vars
  <2>1. TypeOK'
    BY <1>2 DEF IInv, TypeOK, vars, durable, resident
  <2>2. AllSound' /\ Queued'
    BY <1>2 DEF IInv, AllSound, Sound, Queued, HasStart, HasTerminal, vars, durable, resident
  <2>3. OneOutcome' /\ RowIsJournaled'
    BY <1>2 DEF IInv, OneOutcome, RowIsJournaled, HasStart, vars, durable, resident
  <2> QED BY <2>1, <2>2, <2>3 DEF IInv
<1> QED BY <1>1, <1>2

\* The inductive invariant holds in every reachable state.
THEOREM Invariance == Spec => []IInv
<1> QED BY InitIInv, NextIInv, PTL DEF Spec

\* Every variable keeps its type, whatever handlers interleave, appends fail or
\* activations restart.
THEOREM TypeCorrect == Spec => []TypeOK
<1>1. IInv => TypeOK
  BY DEF IInv
<1> QED BY <1>1, Invariance, PTL

\* Journal before dispatch (journalCallStart): outside an unfinished fork a
\* cached call has its start in the log.
THEOREM JournalBeforeDispatch == Spec => []RowIsJournaled
<1>1. IInv => RowIsJournaled
  BY DEF IInv, TypeOK, RowIsJournaled
<1> QED BY <1>1, Invariance, PTL

-----------------------------------------------------------------------------
(* Terminal first *)

\* A reconcile forgets only settled calls.
LEMMA FoldForgetsTerminals ==
  ASSUME IInv, UNCHANGED log, row' = Derived
  PROVE  \A c \in row \ row' : HasTerminal(c)'
<1>1. \A c \in row : c \in Call /\ HasStart(c)
  BY DEF IInv, TypeOK, RowIsJournaled
<1>2. \A c \in row \ row' : HasTerminal(c)
  BY <1>1, DerivedFacts
<1> QED BY <1>2 DEF HasTerminal

\* A peek forgets only settled calls.
LEMMA PeekForgetsTerminals ==
  ASSUME IInv, UNCHANGED log, NEW p \in Task, PeekOrReconcile(CallOf(p))
  PROVE  \A c \in row \ row' : HasTerminal(c)'
BY Facts, PeekType, FoldForgetsTerminals

\* Every step forgets only settled calls.
LEMMA RowStep ==
  ASSUME IInv, [Next]_vars, UNCHANGED cloned
  PROVE  \A c \in row \ row' : HasTerminal(c)'
<1>1. CASE UNCHANGED row
  BY <1>1
<1>2. ASSUME NEW p \in Task, Continue(p), row' # row
      PROVE  \A c \in row \ row' : HasTerminal(c)'
  <2>1. CASE Redriven(p) \/ Consume(p)
    <3>1. HasTerminal(CallOf(p)) /\ UNCHANGED log /\ row' = row \ {CallOf(p)}
      BY <2>1, Facts DEF Redriven, Consume, At, Sound, CallOf, DropRows
    <3> QED BY <3>1 DEF HasTerminal
  <2>2. CASE JournalEnd(p)
    BY <2>2 DEF JournalEnd
  <2>3. CASE Resolve(p) \/ SettleCall(p) \/ CancelJournaled(p)
    BY <2>3, PeekForgetsTerminals DEF Resolve, SettleCall, CancelJournaled
  <2>4. CASE Redeliver(p)
    BY <2>4 DEF Redeliver, HasTerminal
  <2> QED BY <1>2, <2>1, <2>2, <2>3, <2>4
          DEF Continue, JournalStart, Dispatch, DispatchUnrouted, SettlePending, Record,
              SettleNext, FailPendingCallsTargeting, durable
<1>3. ASSUME NEW p \in Task, Request(p), row' # row
      PROVE  \A c \in row \ row' : HasTerminal(c)'
  <2>1. CASE AbandonInheritedCalls(p)
    BY <2>1, FoldForgetsTerminals DEF AbandonInheritedCalls, Reconcile
  <2> QED BY <1>3, <2>1
          DEF Request, TimeoutMethodCall, CancelMethodCall, Leave, Join, CallMethod,
              SubmitMethodResult, SubmitMethodProgress, ProviderReturns, durable
<1>4. ASSUME NEW force \in BOOLEAN, ReconcilePendingCalls(force)
      PROVE  \A c \in row \ row' : HasTerminal(c)'
  BY <1>4, FoldForgetsTerminals DEF ReconcilePendingCalls, Reconcile
<1> QED BY <1>1, <1>2, <1>3, <1>4
        DEF Next, Commit, AppendRejects, Claims, ClaimMethodCall,
            MarkMethodCallExecutionStarted, Crash, PostClone, vars, durable

\* Terminal first (settlePendingCall): a cached call is only forgotten when its
\* terminal is durable.
THEOREM TerminalFirst == Spec => RowOutlivesTerminal
<1>1. IInv /\ [Next]_vars => [UNCHANGED cloned => \A c \in row \ row' : HasTerminal(c)']_vars
  BY RowStep
<1> QED BY <1>1, Invariance, PTL DEF Spec, RowOutlivesTerminal

-----------------------------------------------------------------------------
(* The log implements CallOutcome *)

\* What the phase of a call is, by what the log holds of it.
PhaseFacts ==
  /\ \A c \in Call, i \in DOMAIN log : IsTerminal(log[i], c) => Phase[c] = log[i].kind
  /\ \A c \in Call : ~HasTerminal(c) /\ HasStart(c) => Phase[c] = "open"
  /\ \A c \in Call : ~HasTerminal(c) /\ ~HasStart(c) => Phase[c] = "unseen"
  /\ Phase = [c \in Call |-> Phase[c]]

\* The phase of a call read off the log.
LEMMA PhaseIs == TypeOK /\ OneOutcome => PhaseFacts
<1> SUFFICES ASSUME TypeOK, OneOutcome PROVE PhaseFacts
  OBVIOUS
<1>1. ASSUME NEW c \in Call, NEW i \in DOMAIN log, IsTerminal(log[i], c)
      PROVE  Phase[c] = log[i].kind
  <2>1. DOMAIN log \subseteq Nat
    BY DEF TypeOK
  <2>2. \A j \in DOMAIN log : IsTerminal(log[j], c) => j = i
    BY <1>1 DEF OneOutcome
  <2>3. LastTerminal(c) = i
    BY <1>1, <2>1, <2>2 DEF LastTerminal
  <2>4. HasTerminal(c)
    BY <1>1 DEF HasTerminal
  <2> QED BY <2>3, <2>4 DEF Phase
<1>2. \A c \in Call : ~HasTerminal(c) /\ HasStart(c) => Phase[c] = "open"
  BY DEF Phase
<1>3. \A c \in Call : ~HasTerminal(c) /\ ~HasStart(c) => Phase[c] = "unseen"
  BY DEF Phase
<1>4. Phase = [c \in Call |-> Phase[c]]
  BY DEF Phase
<1> QED BY <1>1, <1>2, <1>3, <1>4 DEF PhaseFacts

\* The same in the next state.
LEMMA PhaseIsNext == TypeOK' /\ OneOutcome' => PhaseFacts'
  BY PhaseIs, PTL

\* Without an append no call changes phase.
LEMMA PhaseKept ==
  ASSUME UNCHANGED log
  PROVE  UNCHANGED Phase
BY DEF Phase, HasStart, HasTerminal, LastTerminal

\* An append of the head of the queue is an abstract step or no step.
LEMMA AppendImplements ==
  ASSUME IInv, IInv', queue # <<>>, log' = Appended(EventOf(Head(queue))), UNCHANGED cloned
  PROVE  Promise!Next \/ UNCHANGED <<Phase, cloned>>
<1> DEFINE p == Head(queue)
<1>1. /\ p \in Task /\ TypeOK /\ OneOutcome /\ Sound(task[p]) /\ task[p].pc \in Appending
      /\ task[p] \in TaskState /\ EventOf(p) \in Event
  BY HeadFacts
<1>2. PICK e \in Event : e = EventOf(p)
  BY <1>1
<1>3. e.call \in Call /\ e.kind \in Kind /\ e.call = task[p].call
  BY <1>2 DEF Event, EventOf, CallOf
<1>4. e.kind \in TerminalKind \ {"lost", "notAdmitted"} => HasStart(e.call)
  <2>1. CASE task[p].pc \in {"starting", "rooting"}
    BY <2>1, <1>2 DEF EventOf, TerminalKind
  <2>2. CASE task[p].pc = "writing"
    BY <2>2, <1>1, <1>2, <1>3 DEF EventOf, Sound
  <2> QED BY <2>1, <2>2, <1>1 DEF Appending
<1>5. PhaseFacts /\ PhaseFacts'
  BY PhaseIs, PhaseIsNext DEF IInv
<1>6. CASE Stored(e)
  BY <1>2, <1>6, PhaseKept DEF Appended
<1>7. CASE ~Stored(e)
  <2>1. log' = Append(log, e) /\ log \in Seq(Event)
    BY <1>1, <1>2, <1>7 DEF Appended, TypeOK
  <2>2. /\ DOMAIN log' = DOMAIN log \cup {Len(log) + 1}
        /\ log'[Len(log) + 1] = e /\ Len(log) + 1 \in DOMAIN log'
        /\ \A i \in DOMAIN log : i \in DOMAIN log' /\ log'[i] = log[i]
    BY <1>2, <2>1, AppendIs
  <2>3. \A c \in Call : /\ HasStart(c)' <=> HasStart(c) \/ IsStart(e, c)
                        /\ HasTerminal(c)' <=> HasTerminal(c) \/ IsTerminal(e, c)
    BY <2>2 DEF HasStart, HasTerminal
  <2>4. \A c \in Call : HasTerminal(c) => Phase'[c] = Phase[c]
    <3> SUFFICES ASSUME NEW c \in Call, HasTerminal(c) PROVE Phase'[c] = Phase[c]
      OBVIOUS
    <3>1. PICK i \in DOMAIN log : IsTerminal(log[i], c)
      BY DEF HasTerminal
    <3>2. Phase[c] = log[i].kind
      BY <3>1, <1>5 DEF PhaseFacts
    <3>3. i \in DOMAIN log' /\ IsTerminal(log'[i], c) /\ log'[i] = log[i]
      BY <3>1, <2>2
    <3>4. Phase'[c] = log'[i].kind
      BY <3>3, <1>5 DEF PhaseFacts
    <3> QED BY <3>2, <3>3, <3>4
  <2>5. \A c \in Call : ~HasTerminal(c)' /\ (HasStart(c)' <=> HasStart(c)) => Phase'[c] = Phase[c]
    BY <2>3, <1>5 DEF PhaseFacts
  <2>6. CASE e.kind \notin TerminalKind \cup {"started"}
    <3>1. \A c \in Call : Phase'[c] = Phase[c]
      BY <2>3, <2>4, <2>5, <2>6 DEF IsStart, IsTerminal
    <3>2. Phase' = Phase
      BY <3>1, <1>5 DEF PhaseFacts
    <3> QED BY <3>2
  <2>7. CASE e.kind = "started"
    <3>1. ~HasStart(e.call)
      BY <1>3, <1>7, <2>7 DEF Stored, SameId, HasStart, IsStart
    <3>2. \A c \in Call : /\ HasTerminal(c)' <=> HasTerminal(c)
                          /\ HasStart(c)' <=> HasStart(c) \/ c = e.call
      BY <2>3, <2>7 DEF IsStart, IsTerminal, TerminalKind
    <3>3. \A c \in Call : c # e.call => Phase'[c] = Phase[c]
      BY <3>2, <2>4, <2>5
    <3>4. CASE HasTerminal(e.call)
      <4>1. Phase' = Phase
        BY <3>3, <3>4, <2>4, <1>5 DEF PhaseFacts
      <4> QED BY <4>1
    <3>5. CASE ~HasTerminal(e.call)
      <4>1. Phase[e.call] = "unseen" /\ Phase'[e.call] = "open"
        BY <3>1, <3>2, <3>5, <1>3, <1>5 DEF PhaseFacts
      <4>2. Phase' = [Phase EXCEPT ![e.call] = "open"]
        BY <4>1, <3>3, <1>3, <1>5 DEF PhaseFacts
      <4> QED BY <4>1, <4>2, <1>3 DEF Promise!Next, Promise!Admit
    <3> QED BY <3>4, <3>5
  <2>8. CASE e.kind \in TerminalKind
    <3>1. ~HasTerminal(e.call)
      BY <1>3, <1>7, <2>8 DEF Stored, SameId, HasTerminal, IsTerminal
    <3>2. \A c \in Call : /\ HasTerminal(c)' <=> HasTerminal(c) \/ c = e.call
                          /\ HasStart(c)' <=> HasStart(c)
      BY <2>3, <2>8 DEF IsStart, IsTerminal, TerminalKind
    <3>3. \A c \in Call : c # e.call => Phase'[c] = Phase[c]
      BY <3>2, <2>4, <2>5
    <3>4. Phase'[e.call] = e.kind
      <4>1. IsTerminal(log'[Len(log) + 1], e.call) /\ Len(log) + 1 \in DOMAIN log'
        BY <2>2, <2>8 DEF IsTerminal
      <4>2. Phase'[e.call] = log'[Len(log) + 1].kind
        BY <4>1, <1>3, <1>5 DEF PhaseFacts
      <4> QED BY <4>2, <2>2
    <3>5. \/ Phase[e.call] = "open"
          \/ Phase[e.call] = "unseen" /\ e.kind \in Promise!Unadmitted
      <4>1. CASE HasStart(e.call)
        <5>1. Phase[e.call] = "open"
          BY <4>1, <3>1, <1>3, <1>5 DEF PhaseFacts
        <5> QED BY <5>1
      <4>2. CASE ~HasStart(e.call)
        <5>1. Phase[e.call] = "unseen"
          BY <4>2, <3>1, <1>3, <1>5 DEF PhaseFacts
        <5>2. e.kind \in {"lost", "notAdmitted"}
          BY <4>2, <1>4, <2>8
        <5> QED BY <5>1, <5>2 DEF Promise!Unadmitted
      <4> QED BY <4>1, <4>2
    <3>6. Phase' = [Phase EXCEPT ![e.call] = e.kind]
      BY <3>3, <3>4, <1>3, <1>5 DEF PhaseFacts
    <3>7. Promise!Settle(e.call, e.kind)
      BY <3>5, <3>6 DEF Promise!Settle
    <3> QED BY <3>7, <1>3, <2>8 DEF Promise!Next
  <2> QED BY <2>6, <2>7, <2>8
<1> QED BY <1>6, <1>7

\* A fork keeps a prefix: a call keeps its outcome, or is open or unseen again.
LEMMA PostCloneImplements ==
  ASSUME IInv, IInv', NEW n \in 0 .. Len(log), PostClone(n)
  PROVE  Promise!Next
<1>1. log \in Seq(Event) /\ log' = SubSeq(log, 1, n) /\ ~cloned /\ cloned' = TRUE
  BY DEF IInv, TypeOK, PostClone
<1>2. \A i \in DOMAIN log' : i \in DOMAIN log /\ log'[i] = log[i] /\ log[i] \in Event
  BY <1>1
<1>3. PhaseFacts /\ PhaseFacts'
  BY PhaseIs, PhaseIsNext DEF IInv
<1>4. ASSUME NEW c \in Call
      PROVE  /\ Phase'[c] \in {"unseen", "open"} \cup TerminalKind
             /\ \/ Phase'[c] \in {Phase[c], "unseen"}
                \/ Phase'[c] = "open" /\ Phase[c] # "unseen"
  <2>1. CASE HasTerminal(c)'
    <3>1. PICK i \in DOMAIN log' : IsTerminal(log'[i], c)
      BY <2>1 DEF HasTerminal
    <3>2. Phase'[c] = log'[i].kind
      BY <3>1, <1>3 DEF PhaseFacts
    <3>3. Phase[c] = log[i].kind
      BY <3>1, <1>2, <1>3 DEF PhaseFacts
    <3> QED BY <3>1, <3>2, <3>3, <1>2 DEF IsTerminal
  <2>2. CASE ~HasTerminal(c)' /\ HasStart(c)'
    <3>1. Phase'[c] = "open" /\ HasStart(c)
      BY <2>2, <1>2, <1>3 DEF PhaseFacts, HasStart
    <3>2. CASE HasTerminal(c)
      <4>1. PICK i \in DOMAIN log : IsTerminal(log[i], c)
        BY <3>2 DEF HasTerminal
      <4>2. Phase[c] = log[i].kind /\ log[i].kind \in TerminalKind
        BY <4>1, <1>3 DEF PhaseFacts, IsTerminal
      <4> QED BY <3>1, <4>2 DEF TerminalKind
    <3>3. CASE ~HasTerminal(c)
      BY <3>1, <3>3, <1>3 DEF PhaseFacts
    <3> QED BY <3>2, <3>3
  <2>3. CASE ~HasTerminal(c)' /\ ~HasStart(c)'
    BY <2>3, <1>3 DEF PhaseFacts
  <2> QED BY <2>1, <2>2, <2>3
<1>5. Phase' \in [Call -> {"unseen", "open"} \cup TerminalKind]
  BY <1>3, <1>4 DEF PhaseFacts
<1> QED BY <1>1, <1>4, <1>5 DEF Promise!Next, Promise!Fork

\* Every step is an abstract step or none.
LEMMA NextImplements ==
  ASSUME IInv, IInv', [Next]_vars
  PROVE  [Promise!Next]_<<Phase, cloned>>
<1>1. CASE UNCHANGED <<log, cloned>>
  BY <1>1, PhaseKept
<1>2. CASE Commit
  BY <1>2, AppendImplements DEF Commit
<1>3. ASSUME NEW stored \in BOOLEAN, AppendRejects(stored)
      PROVE  Promise!Next \/ UNCHANGED <<Phase, cloned>>
  BY <1>3, AppendImplements, PhaseKept DEF AppendRejects
<1>4. ASSUME NEW p \in Task, Continue(p)
      PROVE  UNCHANGED <<log, cloned>>
  BY <1>4 DEF Continue, JournalStart, Redriven, JournalEnd, Dispatch, DispatchUnrouted,
              Resolve, SettleCall, SettlePending, Consume, Record, CancelJournaled,
              SettleNext, FailPendingCallsTargeting, Redeliver, durable
<1>5. ASSUME NEW p \in Task, Request(p)
      PROVE  UNCHANGED <<log, cloned>>
  BY <1>5 DEF Request, AbandonInheritedCalls, TimeoutMethodCall, CancelMethodCall, Leave,
              Join, CallMethod, SubmitMethodResult, SubmitMethodProgress, ProviderReturns,
              durable
<1>6. Claims \/ Crash \/ UNCHANGED vars => UNCHANGED <<log, cloned>>
  BY DEF Claims, ClaimMethodCall, MarkMethodCallExecutionStarted, Crash, vars, durable
<1>7. ASSUME NEW force \in BOOLEAN, ReconcilePendingCalls(force)
      PROVE  UNCHANGED <<log, cloned>>
  BY <1>7 DEF ReconcilePendingCalls
<1> QED BY <1>1, <1>2, <1>3, <1>4, <1>5, <1>6, <1>7, PostCloneImplements DEF Next

\* A new channel knows no call.
LEMMA InitImplements == Init => Promise!Init
<1> SUFFICES ASSUME Init PROVE Promise!Init
  OBVIOUS
<1>1. \A c \in Call : ~HasStart(c) /\ ~HasTerminal(c)
  BY DEF Init, HasStart, HasTerminal
<1>2. Phase = [c \in Call |-> "unseen"]
  BY <1>1 DEF Phase
<1> QED BY <1>2 DEF Init, Promise!Init

\* One outcome per call, kept forever (calls.ts, the terminal:{id} envelope): the
\* log implements CallOutcome.
THEOREM LogKeepsPromise == Spec => KeepsPromise
<1>1. IInv /\ IInv' /\ [Next]_vars => [Promise!Next]_<<Phase, cloned>>
  BY NextImplements
<1> QED BY <1>1, InitImplements, Invariance, PTL DEF Spec, KeepsPromise, Promise!Spec

-----------------------------------------------------------------------------
(* Barriers, fences and the order of the log *)

\* Handlers that mutate the journal of their call stand in its barrier, once, and
\* all but those who still wait for it hold it.
Waiting == {"journal", "cancel"}
Mutating(t) ==
  \/ t.pc \in Waiting \cup {"starting", "journalEnd", "redriven"}
  \/ /\ t.pc \in {"settlePending", "writing", "consume", "record"}
     /\ t.how \in {"cancelled", "notAdmitted"}
Barriers ==
  /\ \A c \in Call : \A i \in DOMAIN barrier[c] :
       /\ CallOf(barrier[c][i]) = c /\ Mutating(task[barrier[c][i]])
       /\ \A j \in DOMAIN barrier[c] : barrier[c][i] = barrier[c][j] => i = j
  /\ \A p \in Task : Mutating(task[p]) /\ task[p].pc \notin Waiting => HoldsBarrier(p)

\* No answer of a provider is ahead of its call's start: it is only given for calls
\* whose start is durable.
NoLost == route = "external" => LostCall = {}

\* What a handler knows of the order in its call's journal.
Clean(t) ==
  /\ t.pc # "rooting" /\ (t.pc = "settlePending" => HasStart(t.call) /\ t.how # "notAdmitted")
  /\ t.pc \in {"resolve", "settle"} => t.how \notin {"cancelled", "notAdmitted"}
  /\ t.pc = "cancel" => t.how \in {"cancelled", "notAdmitted"}
  /\ t.how \in {"cancelled", "notAdmitted"} => t.gen = 0
  /\ t.pc = "writing" /\ t.how = "notAdmitted" => ~HasStart(t.call)
  /\ NoLost => /\ t.how # "lost"
               /\ t.pc = "resolve" => HasStart(t.call)
               /\ t.pc = "starting" => HasStart(t.call) \/ ~HasTerminal(t.call)
AllClean == \A p \in Task : Clean(task[p])

\* A start is before every terminal of its call.
Ordered ==
  \A c \in Call : \A i, j \in DOMAIN log :
    IsStart(log[i], c) /\ IsTerminal(log[j], c) => i < j

\* The claim of a call is the newest one granted, or was dropped for good.
Dropped(c) == claim[c].gen = 0 /\ c \notin row /\ HasTerminal(c)
Fences ==
  /\ \A d \in deliveries : d[2] > 0
  /\ \A c \in Call : granted[c] > 0 => HasStart(c)
  /\ NoLost => Ordered /\ \A c \in Call : claim[c].gen = granted[c] \/ Dropped(c)

\* A result that arrived while the start of its call was being journaled waits for
\* the handler that journals it, unless something failed.
Starting(q, c) ==
  /\ q \in Task /\ q \in Range(barrier[c]) /\ CallOf(q) = c
  /\ task[q].pc \in {"journal", "starting"}
Races ==
  faults = 0 => \A p \in Task : task[p].behindStart =>
    /\ task[p].how # "lost"
    /\ task[p].pc = "resolve" =>
         \/ HasStart(CallOf(p)) \/ HasTerminal(CallOf(p))
         \/ Starting(task[p].wait, CallOf(p))

JInv == Barriers /\ AllClean /\ Fences /\ Races

\* What the two invariants say of one handler, without the action's effect.
LEMMA JFacts ==
  ASSUME IInv, JInv, NEW p \in Task
  PROVE  /\ TypeOK /\ task[p] \in TaskState /\ CallOf(p) \in Call /\ CallOf(p) = task[p].call
         /\ Sound(task[p]) /\ Clean(task[p])
         /\ barrier[CallOf(p)] \in Seq(Task)
  BY TaskType DEF IInv, JInv, AllSound, AllClean, TypeOK, CallOf

-----------------------------------------------------------------------------
(* Barriers *)

OthersStay(p) ==
  \A c \in Call, q \in Task : q # p /\ q \in Range(barrier[c]) => q \in Range(barrier'[c])

\* Membership of a barrier by position.
LEMMA RangeIs ==
  ASSUME NEW s \in Seq(Task), NEW q
  PROVE  q \in Range(s) <=> \E i \in DOMAIN s : s[i] = q
  BY DEF Range

\* Who stands first holds the barrier.
LEMMA HolderIs ==
  ASSUME TypeOK, NEW p \in Task, HoldsBarrier(p)
  PROVE  /\ barrier[CallOf(p)] \in Seq(Task) /\ 1 \in DOMAIN barrier[CallOf(p)]
         /\ barrier[CallOf(p)][1] = p
<1>1. barrier[CallOf(p)] \in Seq(Task)  BY TaskType DEF TypeOK
<1> QED BY <1>1 DEF HoldsBarrier

\* A handler that moves and keeps its place.
LEMMA BarrierKept ==
  ASSUME TypeOK, Barriers, NEW p \in Task, NEW t \in TaskState, Goto(p, t), UNCHANGED barrier,
         Mutating(task[p]) => Mutating(t) /\ t.call = CallOf(p),
         Mutating(t) /\ t.pc \notin Waiting => HoldsBarrier(p) /\ t.call = CallOf(p)
  PROVE  Barriers' /\ OthersStay(p)
<1>1. /\ task' \in [Task -> TaskState] /\ task'[p] = t
      /\ \A q \in Task : q # p => task'[q] = task[q]
  BY DEF TypeOK, Goto
<1>2. ASSUME NEW c \in Call, NEW i \in DOMAIN barrier[c]
      PROVE  /\ task'[barrier[c][i]].call = c /\ Mutating(task'[barrier'[c][i]])
             /\ \A j \in DOMAIN barrier[c] : barrier[c][i] = barrier[c][j] => i = j
  <2>1. barrier[c][i] \in Task  BY DEF TypeOK
  <2> QED BY <1>1, <2>1 DEF Barriers, CallOf
<1>3. ASSUME NEW q \in Task, Mutating(task'[q]), task'[q].pc \notin Waiting
      PROVE  HoldsBarrier(q)'
  BY <1>1, <1>3 DEF Barriers, HoldsBarrier, CallOf
<1>4. OthersStay(p)  BY DEF OthersStay
<1> QED BY <1>2, <1>3, <1>4 DEF Barriers, CallOf

\* A handler that enters its call's barrier.
LEMMA BarrierEntered ==
  ASSUME TypeOK, Barriers, NEW p \in Task, NEW c \in Call, NEW t \in TaskState, Goto(p, t),
         ~Mutating(task[p]), t.pc \in Waiting, t.call = c,
         barrier' = [barrier EXCEPT ![c] = Append(@, p)]
  PROVE  Barriers' /\ OthersStay(p)
<1>1. /\ task' \in [Task -> TaskState] /\ task'[p] = t
      /\ \A q \in Task : q # p => task'[q] = task[q]
  BY DEF TypeOK, Goto
<1>2. \A b \in Call : \A i \in DOMAIN barrier[b] : barrier[b][i] \in Task \ {p}
  BY DEF TypeOK, Barriers
<1>3. /\ barrier[c] \in Seq(Task) /\ barrier'[c] = Append(barrier[c], p)
      /\ \A b \in Call : b # c => barrier'[b] = barrier[b]
  BY DEF TypeOK
<1>4. /\ DOMAIN barrier'[c] = DOMAIN barrier[c] \cup {Len(barrier[c]) + 1}
      /\ barrier'[c][Len(barrier[c]) + 1] = p /\ Len(barrier[c]) + 1 \notin DOMAIN barrier[c]
      /\ \A i \in DOMAIN barrier[c] : barrier'[c][i] = barrier[c][i]
      /\ barrier[c] # <<>> => Head(barrier'[c]) = Head(barrier[c])
      /\ barrier'[c] # <<>> /\ barrier'[c] \in Seq(Task)
  BY <1>3
<1>5. ASSUME NEW b \in Call, NEW i \in DOMAIN barrier'[b]
      PROVE  /\ task'[barrier'[b][i]].call = b /\ Mutating(task'[barrier'[b][i]])
             /\ \A j \in DOMAIN barrier'[b] : barrier'[b][i] = barrier'[b][j] => i = j
  <2>1. CASE b # c  BY <1>1, <1>2, <1>3, <2>1 DEF Barriers, CallOf
  <2>2. CASE b = c
    <3>1. task'[barrier'[b][i]].call = b /\ Mutating(task'[barrier'[b][i]])
      BY <1>1, <1>2, <1>4, <2>2 DEF Barriers, CallOf, Mutating
    <3>2. \A j \in DOMAIN barrier'[b] : barrier'[b][i] = barrier'[b][j] => i = j
      BY <1>2, <1>4, <2>2 DEF Barriers
    <3> QED BY <3>1, <3>2
  <2> QED BY <2>1, <2>2
<1>6. ASSUME NEW q \in Task, Mutating(task'[q]), task'[q].pc \notin Waiting
      PROVE  HoldsBarrier(q)'
  BY <1>1, <1>3, <1>4, <1>6 DEF Barriers, HoldsBarrier, CallOf
<1>7. OthersStay(p)
  <2> SUFFICES ASSUME NEW b \in Call, NEW q \in Task, q \in Range(barrier[b])
               PROVE  q \in Range(barrier'[b])
    BY DEF OthersStay
  <2>1. CASE b # c  BY <1>3, <2>1
  <2>2. CASE b = c
    <3>1. PICK i \in DOMAIN barrier[c] : barrier[c][i] = q  BY <1>3, <2>2, RangeIs
    <3>2. i \in DOMAIN barrier'[c] /\ barrier'[c][i] = q /\ barrier'[c] \in Seq(Task)
      BY <1>4, <3>1
    <3> QED BY <2>2, <3>2, RangeIs
  <2> QED BY <2>1, <2>2
<1> QED BY <1>5, <1>6, <1>7 DEF Barriers, CallOf

\* A handler that leaves its barrier, if it stood in one.
LEMMA BarrierLeft ==
  ASSUME TypeOK, Barriers, NEW p \in Task, NEW t \in TaskState, Goto(p, t), LeaveBarrier(p),
         ~Mutating(t), task[p].pc \in Waiting => HoldsBarrier(p)
  PROVE  Barriers' /\ OthersStay(p)
<1>1. /\ task' \in [Task -> TaskState] /\ task'[p] = t
      /\ \A q \in Task : q # p => task'[q] = task[q]
  BY DEF TypeOK, Goto
<1> DEFINE c == CallOf(p)
<1>2. c \in Call /\ barrier[c] \in Seq(Task) /\ barrier \in [Call -> Seq(Task)]
  BY TaskType DEF TypeOK
<1>3. Mutating(task[p]) <=> HoldsBarrier(p)
  <2>1. Mutating(task[p]) => HoldsBarrier(p)  BY DEF Barriers
  <2>2. HoldsBarrier(p) => Mutating(task[p])
    BY <1>2, HolderIs DEF Barriers
  <2> QED BY <2>1, <2>2
<1>4. \A b \in Call : b # c => /\ barrier'[b] = barrier[b]
                               /\ \A i \in DOMAIN barrier[b] : barrier[b][i] # p
  BY <1>2 DEF LeaveBarrier, Barriers
<1>5. CASE HoldsBarrier(p)
  <2>1. barrier'[c] = Tail(barrier[c])  BY <1>2, <1>5 DEF LeaveBarrier
  <2>2. /\ barrier[c] # <<>> /\ barrier[c][1] = p
        /\ \A i \in DOMAIN barrier'[c] : /\ i + 1 \in DOMAIN barrier[c] /\ i + 1 # 1
                                         /\ barrier'[c][i] = barrier[c][i + 1]
                                         /\ barrier[c][i + 1] \in Task
    BY <1>2, <1>5, <2>1, HolderIs DEF HoldsBarrier
  <2>3. \A i \in DOMAIN barrier[c] : i # 1 => i - 1 \in DOMAIN barrier'[c] /\ barrier'[c][i - 1] = barrier[c][i]
    BY <1>2, <2>1, <2>2
  <2>4. \A i \in DOMAIN barrier'[c] : barrier'[c][i] # p
    BY <1>2, <2>2, HolderIs DEF Barriers
  <2>5. ASSUME NEW b \in Call, NEW i \in DOMAIN barrier'[b]
        PROVE  /\ task'[barrier'[b][i]].call = b /\ Mutating(task'[barrier'[b][i]])
               /\ \A j \in DOMAIN barrier'[b] : barrier'[b][i] = barrier'[b][j] => i = j
    <3>1. CASE b # c
      <4>1. barrier[b][i] \in Task \ {p}  BY <1>2, <1>4, <3>1
      <4> QED BY <1>1, <1>4, <3>1, <4>1 DEF Barriers, CallOf
    <3>2. CASE b = c
      <4>1. task'[barrier'[b][i]].call = b /\ Mutating(task'[barrier'[b][i]])
        BY <1>1, <1>2, <2>2, <2>4, <3>2 DEF Barriers, CallOf
      <4>2. ASSUME NEW j \in DOMAIN barrier'[c], barrier'[c][i] = barrier'[c][j] PROVE i = j
        <5>1. i + 1 = j + 1  BY <1>2, <2>2, <3>2, <4>2 DEF Barriers
        <5>2. i \in Nat /\ j \in Nat  BY <1>2, <2>1, <3>2
        <5> QED BY <5>1, <5>2
      <4> QED BY <3>2, <4>1, <4>2
    <3> QED BY <3>1, <3>2
  <2>6. ASSUME NEW q \in Task, Mutating(task'[q]), task'[q].pc \notin Waiting
        PROVE  HoldsBarrier(q)'
    <3>1. q # p /\ task'[q] = task[q] /\ HoldsBarrier(q)
      BY <1>1, <2>6 DEF Barriers
    <3>2. CallOf(q) # c  BY <1>5, <3>1 DEF HoldsBarrier
    <3>3. CallOf(q) \in Call  BY TaskType
    <3> QED BY <1>4, <3>1, <3>2, <3>3 DEF HoldsBarrier, CallOf
  <2>7. OthersStay(p)
    <3> SUFFICES ASSUME NEW b \in Call, NEW q \in Task, q # p, q \in Range(barrier[b])
                 PROVE  q \in Range(barrier'[b])
      BY DEF OthersStay
    <3>1. CASE b # c  BY <1>4, <3>1
    <3>2. CASE b = c
      <4>1. PICK i \in DOMAIN barrier[c] : barrier[c][i] = q  BY <1>2, <3>2, RangeIs
      <4>2. barrier'[c] \in Seq(Task)  BY <1>2, <2>1, <2>2
      <4> QED BY <2>2, <2>3, <3>2, <4>1, <4>2, RangeIs
    <3> QED BY <3>1, <3>2
  <2> QED BY <2>5, <2>6, <2>7 DEF Barriers, CallOf
<1>6. CASE ~HoldsBarrier(p)
  <2>1. UNCHANGED barrier  BY <1>2, <1>6 DEF LeaveBarrier
  <2> QED BY <1>3, <1>6, <2>1, BarrierKept
<1> QED BY <1>5, <1>6

-----------------------------------------------------------------------------
(* One handler moves *)

\* The cache and the claims are as they were.
LEMMA FencesKept ==
  ASSUME Fences, UNCHANGED <<log, route, row, claim, deliveries, granted>>
  PROVE  Fences'
  BY DEF Fences, Dropped, Ordered, NoLost, HasStart, HasTerminal

\* What a step may do to the rows and the claims: leave a call's claim, drop the
\* row of a settled call with its claim, or grant the next generation of a row's.
ClaimsMove ==
  /\ \A d \in deliveries' : d \in deliveries \/ d[2] > 0
  /\ \A c \in Call : granted'[c] > 0 => granted[c] > 0 \/ c \in row
  /\ NoLost => \A c \in Call :
       \/ /\ claim'[c].gen = claim[c].gen /\ granted'[c] = granted[c]
          /\ c \in row' => c \in row \/ ~HasTerminal(c)
       \/ /\ HasTerminal(c) /\ c \notin row'
          /\ claim'[c].gen = 0 /\ granted'[c] = granted[c]
       \/ /\ c \in row /\ claim'[c].gen = claim[c].gen + 1
          /\ granted'[c] = Larger(granted[c], claim[c].gen + 1)

\* Such a step keeps the claim of each call the newest.
LEMMA FencesMove ==
  ASSUME IInv, Fences, UNCHANGED <<log, route>>, ClaimsMove
  PROVE  Fences'
<1>1. \A c \in Call : granted[c] \in Nat /\ claim[c].gen \in Nat
  BY BoundAssumption DEF IInv, TypeOK, Claim
<1>2. \A c \in row : HasStart(c)
  BY DEF IInv, RowIsJournaled
<1>3. \A c \in Call : HasStart(c)' = HasStart(c) /\ HasTerminal(c)' = HasTerminal(c)
  BY DEF HasStart, HasTerminal
<1>4. NoLost' = NoLost /\ Ordered' = Ordered
  BY DEF NoLost, Ordered
<1>5. ASSUME NoLost, NEW c \in Call
      PROVE  claim'[c].gen = granted'[c] \/ Dropped(c)'
  <2>1. claim[c].gen = granted[c] \/ Dropped(c)
    BY <1>5 DEF Fences
  <2> QED BY <1>1, <1>3, <1>5, <2>1 DEF ClaimsMove, Dropped, Larger
<1> QED BY <1>2, <1>3, <1>4, <1>5 DEF Fences, ClaimsMove

\* What a handler that moves to t owes the results that wait for it, and itself.
Known(c) == HasStart(c) \/ HasTerminal(c)
RaceDone(p, t) ==
  /\ \A c \in Call : c = CallOf(p) /\ task[p].pc \in {"journal", "starting"} =>
       Known(c)' \/ (t.pc = "starting" /\ t.call = c /\ p \in Range(barrier'[c]))
  /\ t.behindStart =>
       /\ t.how # "lost"
       /\ t.pc = "resolve" => Known(t.call)' \/ (t.wait # p /\ Starting(t.wait, t.call))

\* One handler moves to t, the log may grow.
LEMMA JAdvance ==
  ASSUME IInv, JInv, NEW p \in Task, NEW t \in TaskState, Goto(p, t),
         Grows, Barriers', OthersStay(p), Clean(t)', Fences',
         \A q \in Task, u \in TaskState : q # p /\ u = task[q] => Clean(u)',
         faults' = 0 => faults = 0 /\ RaceDone(p, t)
  PROVE  JInv'
<1>1. /\ task' \in [Task -> TaskState] /\ task'[p] = t
      /\ \A q \in Task : q # p => task'[q] = task[q]
  BY DEF IInv, TypeOK, Goto
<1>2. AllClean'
  <2> SUFFICES ASSUME NEW q \in Task PROVE Clean(task[q])'
    BY DEF AllClean
  <2>1. PICK u \in TaskState : u = task'[q]
    BY <1>1
  <2>2. Clean(u)'
    <3>1. CASE q = p  BY <1>1, <2>1, <3>1
    <3>2. CASE q # p
      <4>1. u = task[q]  BY <1>1, <2>1, <3>2
      <4> QED BY <3>2, <4>1
    <3> QED BY <3>1, <3>2
  <2> QED BY <2>1, <2>2 DEF Clean, HasStart, HasTerminal
<1>3. ASSUME faults' = 0, NEW q \in Task, NEW u \in TaskState, u = task'[q], u.behindStart
      PROVE  /\ u.how # "lost"
             /\ u.pc = "resolve" => Known(u.call)' \/ Starting(u.wait, u.call)'
  <2>1. CASE q = p
    <3>1. ASSUME t.wait # p, Starting(t.wait, t.call)
          PROVE  Starting(t.wait, t.call)'
      BY <1>1, <3>1 DEF Starting, OthersStay, CallOf, TaskState
    <3> QED BY <1>1, <1>3, <2>1, <3>1 DEF RaceDone
  <2>2. CASE q # p
    <3>1. u = task[q] /\ CallOf(q) = u.call /\ u.call \in Call
      BY <1>1, <1>3, <2>2, JFacts
    <3>2. /\ u.how # "lost"
          /\ u.pc = "resolve" => Known(u.call) \/ Starting(u.wait, u.call)
      BY <1>3, <3>1 DEF JInv, Races, Known
    <3>3. ASSUME Starting(u.wait, u.call)
          PROVE  Known(u.call)' \/ Starting(u.wait, u.call)'
      <4>1. CASE u.wait # p
        BY <1>1, <3>1, <3>3, <4>1 DEF Starting, OthersStay, CallOf
      <4>2. CASE u.wait = p
        BY <1>1, <1>3, <3>1, <3>3, <4>2 DEF Starting, RaceDone, CallOf
      <4> QED BY <4>1, <4>2
    <3>4. Known(u.call) => Known(u.call)'
      BY <3>1 DEF Known, Grows
    <3> QED BY <3>2, <3>3, <3>4
  <2> QED BY <2>1, <2>2
<1>4. Races'
  <2> SUFFICES ASSUME faults' = 0, NEW q \in Task, task'[q].behindStart
               PROVE  /\ task'[q].how # "lost"
                      /\ task'[q].pc = "resolve" =>
                           \/ HasStart(CallOf(q))' \/ HasTerminal(CallOf(q))'
                           \/ Starting(task[q].wait, CallOf(q))'
    BY DEF Races
  <2>1. PICK u \in TaskState : u = task'[q]
    BY <1>1
  <2>2. HasStart(CallOf(q))' \/ HasTerminal(CallOf(q))' <=> Known(u.call)'
    BY <2>1 DEF Known, HasStart, HasTerminal, CallOf
  <2>3. Starting(task[q].wait, CallOf(q))' <=> Starting(u.wait, u.call)'
    BY <2>1 DEF Starting, CallOf
  <2> QED BY <1>3, <2>1, <2>2, <2>3
<1> QED BY <1>2, <1>4 DEF JInv

\* The same of a step without an append.
RaceKept(p, t) ==
  /\ task[p].pc \in {"journal", "starting"} =>
       \/ HasStart(CallOf(p)) \/ HasTerminal(CallOf(p))
       \/ /\ t.pc = "starting" /\ t.call = CallOf(p)
          /\ p \in Range(barrier'[CallOf(p)])
  /\ faults = 0 /\ t.behindStart =>
       /\ t.how # "lost"
       /\ t.pc = "resolve" =>
            \/ HasStart(t.call) \/ HasTerminal(t.call)
            \/ t.wait # p /\ Starting(t.wait, t.call)

\* One handler moves to t without an append.
LEMMA JMove ==
  ASSUME IInv, JInv, NEW p \in Task, NEW t \in TaskState, Goto(p, t),
         UNCHANGED <<log, route, faults>>,
         Barriers', OthersStay(p), Clean(t), Fences', RaceKept(p, t)
  PROVE  JInv'
<1>1. \A c : HasStart(c)' = HasStart(c) /\ HasTerminal(c)' = HasTerminal(c)
  BY DEF HasStart, HasTerminal
<1>2. \A u \in TaskState : Clean(u)' = Clean(u)
  BY <1>1 DEF Clean, NoLost
<1>3. \A q \in Task, u \in TaskState : q # p /\ u = task[q] => Clean(u)'
  BY <1>2, JFacts
<1>4. Grows /\ \A c \in Call : Known(c)' = Known(c)
  BY <1>1 DEF Grows, Known
<1>5. CallOf(p) \in Call /\ t.call \in Call
  BY JFacts DEF TaskState
<1>6. faults' = 0 => faults = 0 /\ RaceDone(p, t)
  BY <1>4, <1>5 DEF RaceKept, RaceDone, Known
<1> QED BY <1>2, <1>3, <1>4, <1>6, JAdvance

\* A free slot knows nothing and owes nothing.
LEMMA IdleClean == \E t \in TaskState : /\ t = Idle /\ t.pc = "idle" /\ t.how = "none"
                                        /\ ~t.behindStart /\ Clean(t) /\ ~Mutating(t)
<1>1. PICK t \in TaskState : t = Idle
  BY IdleType
<1>2. t.pc = "idle" /\ t.how = "none" /\ t.behindStart = FALSE
  BY <1>1 DEF Idle
<1> QED BY <1>1, <1>2 DEF Clean, Mutating, Waiting

-----------------------------------------------------------------------------
(* What the steps do to the cache *)

\* Dropping the row of a settled call.
LEMMA DropMoves ==
  ASSUME IInv, Fences, NEW c \in Call, HasTerminal(c), DropRows({c}),
         UNCHANGED <<log, route, deliveries, granted>>
  PROVE  Fences'
<1>1. NoClaim.gen = 0
  BY DEF NoClaim
<1>2. ClaimsMove
  BY <1>1 DEF DropRows, ClaimsMove
<1> QED BY <1>2, FencesMove

\* When starts come first the fold is the set of open calls.
LEMMA FoldIsOpen ==
  ASSUME TypeOK, Ordered, NEW c \in Call
  PROVE  c \in Derived <=> HasStart(c) /\ ~HasTerminal(c)
<1>1. DOMAIN log \subseteq Nat
  BY DEF TypeOK
<1>2. ASSUME c \in Derived, HasTerminal(c)
      PROVE  FALSE
  <2>1. PICK i \in DOMAIN log : /\ IsStart(log[i], c)
                                /\ \A j \in DOMAIN log : j > i => ~IsTerminal(log[j], c)
    BY <1>2 DEF Derived
  <2>2. PICK j \in DOMAIN log : IsTerminal(log[j], c)
    BY <1>2 DEF HasTerminal
  <2>3. i < j
    BY <2>1, <2>2 DEF Ordered
  <2> QED BY <1>1, <2>1, <2>2, <2>3
<1> QED BY <1>2, DerivedFacts

\* A reconcile keeps the claims of open calls and drops those of settled ones.
LEMMA ReconcileMoves ==
  ASSUME IInv, Fences, Reconcile, UNCHANGED <<log, route, deliveries, granted>>
  PROVE  Fences'
<1>1. NoClaim.gen = 0 /\ \A c \in Call : granted[c] \in Nat /\ claim[c].gen \in Nat
  BY BoundAssumption DEF NoClaim, IInv, TypeOK, Claim
<1>2. ASSUME NoLost, NEW c \in Call
      PROVE  \/ /\ claim'[c].gen = claim[c].gen
                /\ c \in row' => c \in row \/ ~HasTerminal(c)
             \/ HasTerminal(c) /\ c \notin row' /\ claim'[c].gen = 0
  <2>1. c \in Derived <=> HasStart(c) /\ ~HasTerminal(c)
    BY <1>2, FoldIsOpen DEF IInv, Fences
  <2>2. granted[c] > 0 => HasStart(c)
    BY DEF Fences
  <2>3. claim[c].gen = granted[c] \/ HasTerminal(c)
    BY <1>2 DEF Fences, Dropped
  <2>4. /\ c \in row' <=> c \in Derived
        /\ claim'[c] = IF c \in Derived THEN claim[c] ELSE NoClaim
    BY DEF Reconcile
  <2> QED BY <1>1, <2>1, <2>2, <2>3, <2>4
<1>3. ClaimsMove
  BY <1>2 DEF ClaimsMove
<1> QED BY <1>3, FencesMove

\* A peek leaves the cache or reconciles it.
LEMMA PeekMoves ==
  ASSUME IInv, Fences, NEW c \in Call, PeekOrReconcile(c),
         UNCHANGED <<log, route, deliveries, granted>>
  PROVE  Fences'
  BY FencesKept, ReconcileMoves DEF PeekOrReconcile

\* A dispatch grants the next generation of each row it claims.
LEMMA DispatchMoves ==
  ASSUME IInv, Fences, NEW C, NEW D, ClaimForDispatch(C, D), row' = row \ D,
         \A c \in D : HasTerminal(c) /\ c \notin C, UNCHANGED <<log, route>>
  PROVE  Fences'
<1>1. NoClaim.gen = 0 /\ \A c \in Call : granted[c] \in Nat /\ claim[c].gen \in Nat
  BY BoundAssumption DEF NoClaim, IInv, TypeOK, Claim
<1>2. \A c \in Claimable(C) : c \in row /\ c \in Call /\ c \notin D
  BY DEF Claimable, IInv, TypeOK
<1>3. \A d \in deliveries' : d \in deliveries \/ d[2] > 0
  BY <1>1, <1>2 DEF ClaimForDispatch
<1>4. \A c \in Call :
        /\ c \in D => claim'[c].gen = 0 /\ granted'[c] = granted[c] /\ c \notin row'
        /\ c \in Claimable(C) => /\ claim'[c].gen = claim[c].gen + 1
                                 /\ granted'[c] = Larger(granted[c], claim[c].gen + 1)
        /\ c \notin D \cup Claimable(C) => claim'[c] = claim[c] /\ granted'[c] = granted[c]
  BY <1>1, <1>2 DEF ClaimForDispatch
<1>5. ClaimsMove
  BY <1>2, <1>3, <1>4 DEF ClaimsMove
<1> QED BY <1>5, FencesMove

-----------------------------------------------------------------------------
(* callMethod, dispatch and the ends of handlers *)

\* A handler ends and leaves its barrier, if it stands in one.
LEMMA JEnd ==
  ASSUME IInv, JInv, NEW p \in Task, Goto(p, Idle), UNCHANGED <<log, route, faults>>,
         \/ LeaveBarrier(p) /\ (task[p].pc \in Waiting => HoldsBarrier(p))
         \/ UNCHANGED barrier /\ ~Mutating(task[p]),
         task[p].pc \notin {"journal", "starting"}, Fences'
  PROVE  JInv'
<1>1. PICK t \in TaskState : /\ t = Idle /\ t.pc = "idle" /\ t.how = "none"
                             /\ ~t.behindStart /\ Clean(t) /\ ~Mutating(t)
  BY IdleClean
<1>2. Goto(p, t) /\ TypeOK /\ Barriers
  BY <1>1 DEF IInv, JInv
<1>3. Barriers' /\ OthersStay(p)
  BY <1>1, <1>2, BarrierLeft, BarrierKept
<1>4. RaceKept(p, t)
  BY <1>1 DEF RaceKept
<1> QED BY <1>1, <1>2, <1>3, <1>4, JMove

\* callMethod stands in its call's barrier.
LEMMA JCallMethod ==
  ASSUME IInv, JInv, NEW p \in Task, NEW c \in Call, CallMethod(p, c)
  PROVE  JInv'
<1>1. PICK t \in TaskState : t = [Idle EXCEPT !.pc = "journal", !.call = c]
  BY IdleType DEF TaskState, PC
<1>2. t.pc = "journal" /\ t.call = c /\ t.how = "none" /\ t.behindStart = FALSE
  BY <1>1 DEF Idle
<1>3. /\ Goto(p, t) /\ task[p].pc = "idle" /\ TypeOK /\ Barriers
      /\ barrier' = [barrier EXCEPT ![c] = Append(@, p)]
      /\ UNCHANGED <<durable, deliveries, faults, granted>>
  BY <1>1 DEF CallMethod, At, IInv, JInv
<1>4. Barriers' /\ OthersStay(p)
  BY <1>2, <1>3, BarrierEntered DEF Mutating, Waiting
<1>5. Clean(t) /\ RaceKept(p, t)
  BY <1>2, <1>3 DEF Clean, RaceKept
<1>6. Fences'
  BY <1>3, FencesKept DEF durable, JInv
<1> QED BY <1>3, <1>4, <1>5, <1>6, JMove DEF durable

\* A handler whose call is settled after all keeps its place.
LEMMA JRedriven ==
  ASSUME IInv, JInv, NEW p \in Task, GotoPc(p, "redriven"), HasTerminal(CallOf(p)),
         task[p].pc \in {"journal", "journalEnd"}, HoldsBarrier(p),
         UNCHANGED <<log, route, faults, row, claim, barrier, deliveries, granted>>
  PROVE  JInv'
<1>1. TypeOK /\ Barriers /\ task[p] \in TaskState /\ CallOf(p) = task[p].call /\ Clean(task[p])
  BY JFacts DEF JInv
<1>2. PICK t \in TaskState : t = [task[p] EXCEPT !.pc = "redriven"]
  BY <1>1 DEF TaskState, PC
<1>3. /\ t.pc = "redriven" /\ t.call = CallOf(p) /\ t.how = task[p].how
      /\ t.gen = task[p].gen /\ t.behindStart = task[p].behindStart /\ Goto(p, t)
  BY <1>1, <1>2 DEF TaskState, GotoPc
<1>4. Barriers' /\ OthersStay(p)
  BY <1>1, <1>3, BarrierKept DEF Mutating, Waiting
<1>5. Clean(t)
  BY <1>1, <1>3 DEF Clean
<1>6. RaceKept(p, t)
  BY <1>3 DEF RaceKept, JInv, Races
<1> QED BY <1>3, <1>4, <1>5, <1>6, FencesKept, JMove DEF JInv

\* journalCallStart, up to its append.
LEMMA JJournalStart ==
  ASSUME IInv, JInv, NEW p \in Task, JournalStart(p)
  PROVE  JInv'
<1>1. /\ TypeOK /\ Barriers /\ task[p] \in TaskState /\ CallOf(p) = task[p].call
      /\ Clean(task[p]) /\ CallOf(p) \in Call
  BY JFacts DEF JInv
<1>2. /\ task[p].pc = "journal" /\ HoldsBarrier(p)
      /\ UNCHANGED <<log, route, faults, row, claim, barrier, deliveries, granted>>
  BY DEF JournalStart, At, durable
<1>3. CASE HasTerminal(CallOf(p)) /\ GotoPc(p, "redriven")
  BY <1>2, <1>3, JRedriven
<1>4. CASE ~HasTerminal(CallOf(p)) /\ Goto(p, [task[p] EXCEPT !.pc = "starting"])
  <2>1. PICK t \in TaskState : t = [task[p] EXCEPT !.pc = "starting"]
    BY <1>1 DEF TaskState, PC
  <2>2. /\ t.pc = "starting" /\ t.call = CallOf(p) /\ t.how = task[p].how
        /\ t.gen = task[p].gen /\ t.behindStart = task[p].behindStart /\ Goto(p, t)
    BY <1>1, <1>4, <2>1 DEF TaskState
  <2>3. Barriers' /\ OthersStay(p)
    BY <1>1, <1>2, <2>2, BarrierKept DEF Mutating, Waiting
  <2>4. Clean(t)
    BY <1>1, <1>4, <2>2 DEF Clean
  <2>5. p \in Range(barrier'[CallOf(p)])
    BY <1>1, <1>2, HolderIs, RangeIs
  <2>6. RaceKept(p, t)
    BY <2>2, <2>5 DEF RaceKept, JInv, Races
  <2> QED BY <1>2, <2>2, <2>3, <2>4, <2>6, FencesKept, JMove DEF JInv
<1> QED BY <1>3, <1>4 DEF JournalStart, Enqueue

\* journalCallStart, after its append.
LEMMA JJournalEnd ==
  ASSUME IInv, JInv, NEW p \in Task, JournalEnd(p)
  PROVE  JInv'
<1>1. /\ TypeOK /\ Barriers /\ task[p] \in TaskState /\ CallOf(p) \in Call
      /\ task[p].pc = "journalEnd"
      /\ UNCHANGED <<log, route, faults, claim, deliveries, granted>>
  BY JFacts DEF JInv, JournalEnd, At
<1>2. HoldsBarrier(p)
  BY <1>1 DEF Barriers, Mutating, Waiting
<1>3. CASE HasTerminal(CallOf(p)) /\ GotoPc(p, "redriven") /\ UNCHANGED <<row, observed, barrier>>
  BY <1>1, <1>2, <1>3, JRedriven
<1>4. CASE /\ ~HasTerminal(CallOf(p)) /\ row' = row \cup {CallOf(p)} /\ LeaveBarrier(p)
           /\ Goto(p, [Idle EXCEPT !.pc = "dispatch", !.todo = {CallOf(p)}])
  <2>1. PICK t \in TaskState : t = [Idle EXCEPT !.pc = "dispatch", !.todo = {CallOf(p)}]
    BY IdleType, <1>1 DEF TaskState, PC
  <2>2. t.pc = "dispatch" /\ t.how = "none" /\ t.behindStart = FALSE
    BY <2>1 DEF Idle
  <2>3. Barriers' /\ OthersStay(p)
    BY <1>1, <1>4, <2>1, <2>2, BarrierLeft DEF Mutating, Waiting
  <2>4. Clean(t) /\ RaceKept(p, t)
    BY <1>1, <2>2 DEF Clean, RaceKept
  <2>5. ClaimsMove
    BY <1>1, <1>4 DEF ClaimsMove
  <2> QED BY <1>1, <1>4, <2>1, <2>3, <2>4, <2>5, FencesMove, JMove DEF JInv
<1> QED BY <1>3, <1>4 DEF JournalEnd

\* journalCallStart, of a call already settled.
LEMMA JRedrivenEnds ==
  ASSUME IInv, JInv, NEW p \in Task, Redriven(p)
  PROVE  JInv'
<1>1. /\ task[p].pc = "redriven" /\ Goto(p, Idle) /\ DropRows({CallOf(p)}) /\ LeaveBarrier(p)
      /\ CallOf(p) \in Call /\ HasTerminal(CallOf(p))
      /\ UNCHANGED <<log, route, faults, deliveries, granted>>
  BY JFacts DEF Redriven, At, Sound
<1>2. Fences'
  BY <1>1, DropMoves DEF JInv
<1> QED BY <1>1, <1>2, JEnd DEF Waiting

\* dispatchCallStart to a joined target.
LEMMA JDispatch ==
  ASSUME IInv, JInv, NEW p \in Task, Dispatch(p)
  PROVE  JInv'
<1>1. /\ task[p].pc = "dispatch" /\ Goto(p, Idle) /\ ClaimForDispatch(task[p].todo, {})
      /\ UNCHANGED <<log, row, route, faults, barrier>>
  BY DEF Dispatch, At
<1>2. Fences'
  BY <1>1, DispatchMoves DEF JInv
<1> QED BY <1>1, <1>2, JEnd DEF Mutating, Waiting

\* A handler outside the barriers moves on outside them.
LEMMA JPlain ==
  ASSUME IInv, JInv, NEW p \in Task, NEW t \in TaskState, Goto(p, t),
         UNCHANGED <<log, route, faults, barrier>>, Fences',
         ~Mutating(task[p]), ~Mutating(t), Clean(t),
         t.behindStart => task[p].behindStart /\ t.pc # "resolve",
         t.how = "lost" => task[p].how = "lost"
  PROVE  JInv'
<1>1. Barriers' /\ OthersStay(p)
  BY BarrierKept DEF IInv, JInv
<1>2. RaceKept(p, t)
  BY DEF RaceKept, Mutating, Waiting, JInv, Races
<1> QED BY <1>1, <1>2, JMove

\* dispatchCallStart to a target that is not joined.
LEMMA JDispatchUnrouted ==
  ASSUME IInv, JInv, NEW p \in Task, DispatchUnrouted(p)
  PROVE  JInv'
<1>1. /\ TypeOK /\ task[p].pc = "dispatch" /\ task[p] \in TaskState /\ Fences
      /\ UNCHANGED <<log, row, claim, route, faults, barrier, deliveries, granted>>
  BY JFacts DEF DispatchUnrouted, At, durable, JInv
<1>2. Fences' /\ ~Mutating(task[p])
  BY <1>1, FencesKept DEF Mutating, Waiting
<1>3. CASE Goto(p, Idle)
  BY <1>1, <1>2, <1>3, JEnd
<1>4. ASSUME NEW c \in task[p].todo,
             Goto(p, [Await(task[p], c) EXCEPT !.pc = "settle", !.how = "unrouted",
                                               !.todo = @ \ {c}])
      PROVE  JInv'
  <2>1. c \in Call /\ Await(task[p], c) \in TaskState
    BY <1>1, AwaitType DEF TaskState
  <2>2. PICK t \in TaskState : t = [Await(task[p], c) EXCEPT !.pc = "settle",
                                      !.how = "unrouted", !.todo = @ \ {c}]
    BY <2>1 DEF TaskState, PC, Kind, TerminalKind
  <2>3. t.pc = "settle" /\ t.how = "unrouted" /\ t.behindStart = task[p].behindStart
    BY <1>1, <2>1, <2>2 DEF TaskState, Await
  <2>4. Clean(t) /\ ~Mutating(t)
    BY <2>3 DEF Clean, Mutating, Waiting
  <2> QED BY <1>1, <1>2, <1>4, <2>2, <2>3, <2>4, JPlain
<1> QED BY <1>3, <1>4 DEF DispatchUnrouted

-----------------------------------------------------------------------------
(* Submissions and settlements *)

\* A peek finds a call whose start is durable and whose terminal is not.
LEMMA PeekFinds ==
  ASSUME IInv, NEW c \in Call, PeekOrReconcile(c), UNCHANGED log
  PROVE  /\ HasStart(c) /\ ~HasTerminal(c) => c \in row'
         /\ c \in row' => HasStart(c)
<1>1. HasStart(c) /\ ~HasTerminal(c) => c \in row'
  BY DerivedFacts DEF PeekOrReconcile, Reconcile
<1>2. c \in row' => HasStart(c)
  BY PeekJustified DEF IInv, RowIsJournaled, HasStart
<1> QED BY <1>1, <1>2

\* resolveSubmitterForCall.
LEMMA JResolve ==
  ASSUME IInv, JInv, NEW p \in Task, Resolve(p)
  PROVE  JInv'
<1> DEFINE c == CallOf(p)
<1>1. /\ TypeOK /\ Fences /\ task[p].pc = "resolve" /\ task[p] \in TaskState /\ c \in Call
      /\ c = task[p].call /\ Clean(task[p]) /\ PeekOrReconcile(c) /\ Released(p)
      /\ UNCHANGED <<log, route, barrier, deliveries, faults, granted>>
  BY JFacts DEF Resolve, At, JInv
<1>2. Fences' /\ ~Mutating(task[p])
  BY <1>1, PeekMoves DEF Mutating, Waiting
<1>3. CASE Goto(p, [Await(task[p], c) EXCEPT !.pc = "settle"])
  <2>1. Await(task[p], c) \in TaskState
    BY <1>1, AwaitType
  <2>2. PICK t \in TaskState : t = [Await(task[p], c) EXCEPT !.pc = "settle"]
    BY <2>1 DEF TaskState, PC
  <2>3. /\ t.pc = "settle" /\ t.how = task[p].how /\ t.behindStart = task[p].behindStart
        /\ t.gen = task[p].gen
    BY <1>1, <2>1, <2>2 DEF TaskState, Await
  <2>4. Clean(t) /\ ~Mutating(t)
    BY <1>1, <2>3 DEF Clean, Mutating, Waiting
  <2> QED BY <1>1, <1>2, <1>3, <2>2, <2>3, <2>4, JPlain
<1>4. CASE c \in row' /\ task[p].how = "output" /\ GotoPc(p, "settlePending")
  <2>1. PICK t \in TaskState : t = [task[p] EXCEPT !.pc = "settlePending"]
    BY <1>1 DEF TaskState, PC
  <2>2. /\ t.pc = "settlePending" /\ t.how = "output" /\ t.behindStart = task[p].behindStart
        /\ t.call = c /\ Goto(p, t)
    BY <1>1, <1>4, <2>1 DEF TaskState, GotoPc
  <2>3. HasStart(c)
    BY <1>1, <1>4, PeekFinds
  <2>4. Clean(t) /\ ~Mutating(t)
    BY <2>2, <2>3 DEF Clean, Mutating, Waiting
  <2> QED BY <1>1, <1>2, <2>2, <2>4, JPlain
<1>5. CASE /\ c \notin row' /\ ~HasTerminal(c)
           /\ Goto(p, [task[p] EXCEPT !.pc = "writing", !.how = "lost"])
  <2>1. PICK t \in TaskState : t = [task[p] EXCEPT !.pc = "writing", !.how = "lost"]
    BY <1>1 DEF TaskState, PC, Kind, TerminalKind
  <2>2. /\ t.pc = "writing" /\ t.how = "lost" /\ t.behindStart = task[p].behindStart
        /\ Goto(p, t)
    BY <1>1, <1>5, <2>1 DEF TaskState
  <2>3. ~HasStart(c)
    BY <1>1, <1>5, PeekFinds
  <2>4. Clean(t) /\ ~Mutating(t)
    BY <1>1, <2>2, <2>3 DEF Clean, Mutating, Waiting
  <2>5. ~(faults = 0 /\ t.behindStart)
    BY <1>1, <1>5, <2>2, <2>3 DEF JInv, Races, Starting, Released
  <2>6. Barriers' /\ OthersStay(p)
    BY <1>1, <1>2, <2>2, <2>4, BarrierKept DEF JInv
  <2>7. RaceKept(p, t)
    BY <1>1, <2>5 DEF RaceKept
  <2> QED BY <1>1, <1>2, <2>2, <2>4, <2>6, <2>7, JMove
<1>6. CASE Goto(p, Idle)
  BY <1>1, <1>2, <1>6, JEnd
<1> QED BY <1>3, <1>4, <1>5, <1>6 DEF Resolve, Enqueue

\* A handler that goes on after a settlement is outside the barriers.
LEMMA ResumedClean ==
  ASSUME IInv, JInv, NEW p \in Task
  PROVE  \E t \in TaskState : /\ t = Resumed(p) /\ Clean(t) /\ ~Mutating(t)
                              /\ t.pc \in {"loop", "dispatch", "idle"} /\ t.how # "lost"
                              /\ t.behindStart => task[p].behindStart
<1>1. task[p] \in TaskState
  BY JFacts
<1>2. CASE task[p].how \in {"abandoned", "inherited"}
  <2>1. PICK t \in TaskState : t = [task[p] EXCEPT !.pc = "loop"]
    BY <1>1 DEF TaskState, PC
  <2>2. t = Resumed(p) /\ t.pc = "loop" /\ t.how = task[p].how /\ t.behindStart = task[p].behindStart
    BY <1>1, <1>2, <2>1 DEF Resumed, TaskState
  <2> QED BY <1>2, <2>2 DEF Clean, Mutating, Waiting
<1>3. CASE task[p].how = "unrouted"
  <2>1. PICK t \in TaskState : t = [task[p] EXCEPT !.pc = "dispatch"]
    BY <1>1 DEF TaskState, PC
  <2>2. t = Resumed(p) /\ t.pc = "dispatch" /\ t.how = task[p].how /\ t.behindStart = task[p].behindStart
    BY <1>1, <1>3, <2>1 DEF Resumed, TaskState
  <2> QED BY <1>3, <2>2 DEF Clean, Mutating, Waiting
<1>4. CASE task[p].how \notin {"abandoned", "inherited", "unrouted"}
  <2>1. PICK t \in TaskState : /\ t = Idle /\ t.pc = "idle" /\ t.how = "none"
                               /\ ~t.behindStart /\ Clean(t) /\ ~Mutating(t)
    BY IdleClean
  <2>2. t = Resumed(p)
    BY <1>4, <2>1 DEF Resumed
  <2> QED BY <2>1, <2>2
<1> QED BY <1>2, <1>3, <1>4

\* settleCall.
LEMMA JSettleCall ==
  ASSUME IInv, JInv, NEW p \in Task, SettleCall(p)
  PROVE  JInv'
<1> DEFINE c == CallOf(p)
<1>1. /\ TypeOK /\ Fences /\ task[p].pc = "settle" /\ task[p] \in TaskState /\ c \in Call
      /\ c = task[p].call /\ Clean(task[p]) /\ PeekOrReconcile(c)
      /\ UNCHANGED <<log, route, barrier, deliveries, faults, granted>>
  BY JFacts DEF SettleCall, At, JInv
<1>2. Fences' /\ ~Mutating(task[p])
  BY <1>1, PeekMoves DEF Mutating, Waiting
<1>3. CASE c \in row' /\ Goto(p, [task[p] EXCEPT !.pc = "settlePending"])
  <2>1. PICK t \in TaskState : t = [task[p] EXCEPT !.pc = "settlePending"]
    BY <1>1 DEF TaskState, PC
  <2>2. /\ t.pc = "settlePending" /\ t.how = task[p].how /\ t.behindStart = task[p].behindStart
        /\ t.call = c /\ t.gen = task[p].gen /\ Goto(p, t)
    BY <1>1, <1>3, <2>1 DEF TaskState
  <2>3. HasStart(c)
    BY <1>1, <1>3, PeekFinds
  <2>4. Clean(t) /\ ~Mutating(t)
    BY <1>1, <2>2, <2>3 DEF Clean, Mutating, Waiting
  <2> QED BY <1>1, <1>2, <2>2, <2>4, JPlain
<1>4. CASE Goto(p, Resumed(p))
  <2>1. PICK t \in TaskState : /\ t = Resumed(p) /\ Clean(t) /\ ~Mutating(t)
                               /\ t.pc \in {"loop", "dispatch", "idle"} /\ t.how # "lost"
                               /\ t.behindStart => task[p].behindStart
    BY ResumedClean
  <2> QED BY <1>1, <1>2, <1>4, <2>1, JPlain
<1> QED BY <1>3, <1>4 DEF SettleCall

\* settlePendingCall, up to its append.
LEMMA JSettlePending ==
  ASSUME IInv, JInv, NEW p \in Task, SettlePending(p)
  PROVE  JInv'
<1> DEFINE c == CallOf(p)
<1>1. /\ TypeOK /\ Fences /\ Barriers /\ task[p].pc = "settlePending" /\ task[p] \in TaskState
      /\ c = task[p].call /\ Clean(task[p]) /\ HasStart(c)
      /\ UNCHANGED <<log, row, claim, route, barrier, deliveries, faults, granted>>
  BY JFacts DEF SettlePending, At, JInv, durable, Clean
<1>2. ASSUME NEW t \in TaskState, Goto(p, t), t.pc \in {"writing", "consume"},
             t.how = task[p].how, t.call = c, t.gen = task[p].gen,
             t.behindStart = task[p].behindStart
      PROVE  JInv'
  <2>1. Clean(t)
    BY <1>1, <1>2 DEF Clean
  <2>2. Mutating(t) <=> Mutating(task[p])
    BY <1>1, <1>2 DEF Mutating, Waiting
  <2>3. Mutating(task[p]) => HoldsBarrier(p)
    BY <1>1 DEF Barriers, Waiting
  <2>4. Barriers' /\ OthersStay(p)
    BY <1>1, <1>2, <2>2, <2>3, BarrierKept
  <2>5. RaceKept(p, t)
    BY <1>1, <1>2 DEF RaceKept, JInv, Races
  <2> QED BY <1>1, <1>2, <2>1, <2>4, <2>5, FencesKept, JMove
<1>3. CASE Goto(p, [task[p] EXCEPT !.pc = "writing"])
  <2>1. PICK t \in TaskState : t = [task[p] EXCEPT !.pc = "writing"]
    BY <1>1 DEF TaskState, PC
  <2>2. /\ t.pc = "writing" /\ t.how = task[p].how /\ t.call = c /\ t.gen = task[p].gen
        /\ t.behindStart = task[p].behindStart
    BY <1>1, <2>1 DEF TaskState
  <2> QED BY <1>2, <1>3, <2>1, <2>2
<1>4. CASE Goto(p, [task[p] EXCEPT !.pc = "consume",
                      !.seq = PositionOf([call |-> c, kind |-> task[p].how])])
  <2>1. PositionOf([call |-> c, kind |-> task[p].how]) \in Nat
    BY <1>1, PositionType
  <2>2. PICK t \in TaskState :
          t = [task[p] EXCEPT !.pc = "consume",
                 !.seq = PositionOf([call |-> c, kind |-> task[p].how])]
    BY <2>1, <1>1 DEF TaskState, PC
  <2>3. /\ t.pc = "consume" /\ t.how = task[p].how /\ t.call = c /\ t.gen = task[p].gen
        /\ t.behindStart = task[p].behindStart
    BY <1>1, <2>2 DEF TaskState
  <2> QED BY <1>2, <1>4, <2>2, <2>3
<1> QED BY <1>1, <1>3, <1>4 DEF SettlePending, Enqueue

\* settlePendingCall, after its append.
LEMMA JConsume ==
  ASSUME IInv, JInv, NEW p \in Task, Consume(p)
  PROVE  JInv'
<1>1. /\ task[p].pc = "consume" /\ Goto(p, Resumed(p)) /\ DropRows({CallOf(p)})
      /\ LeaveBarrier(p) /\ CallOf(p) \in Call /\ HasTerminal(CallOf(p))
      /\ UNCHANGED <<log, route, faults, deliveries, granted>>
  BY JFacts DEF Consume, At, Sound
<1>2. Fences'
  BY <1>1, DropMoves DEF JInv
<1>3. PICK t \in TaskState : /\ t = Resumed(p) /\ Clean(t) /\ ~Mutating(t)
                             /\ t.pc \in {"loop", "dispatch", "idle"} /\ t.how # "lost"
                             /\ t.behindStart => task[p].behindStart
  BY ResumedClean
<1>4. Barriers' /\ OthersStay(p)
  BY <1>1, <1>3, BarrierLeft DEF IInv, JInv, Waiting
<1>5. RaceKept(p, t)
  BY <1>1, <1>3 DEF RaceKept
<1> QED BY <1>1, <1>2, <1>3, <1>4, <1>5, JMove

\* settleMissingCall, after its append.
LEMMA JRecord ==
  ASSUME IInv, JInv, NEW p \in Task, Record(p)
  PROVE  JInv'
<1>1. /\ task[p].pc = "record" /\ LeaveBarrier(p) /\ Goto(p, Idle)
      /\ UNCHANGED <<log, row, claim, route, faults, deliveries, granted>>
  BY DEF Record, At
<1> QED BY <1>1, FencesKept, JEnd DEF JInv, Waiting

\* cancelJournaledMethodCall.
LEMMA JCancelJournaled ==
  ASSUME IInv, JInv, NEW p \in Task, CancelJournaled(p)
  PROVE  JInv'
<1> DEFINE c == CallOf(p)
<1>1. /\ TypeOK /\ Fences /\ Barriers /\ task[p].pc = "cancel" /\ task[p] \in TaskState
      /\ c \in Call /\ c = task[p].call /\ Clean(task[p]) /\ PeekOrReconcile(c)
      /\ HoldsBarrier(p) /\ UNCHANGED <<log, route, deliveries, faults, granted>>
  BY JFacts DEF CancelJournaled, At, JInv
<1>2. Fences'
  BY <1>1, PeekMoves
<1>3. ASSUME NEW t \in TaskState, Goto(p, t), UNCHANGED barrier, Clean(t),
             t.pc \in {"settlePending", "writing"}, t.how \in {"cancelled", "notAdmitted"},
             t.call = c
      PROVE  JInv'
  <2>1. Barriers' /\ OthersStay(p)
    BY <1>1, <1>3, BarrierKept DEF Mutating, Waiting
  <2>2. RaceKept(p, t)
    BY <1>1, <1>3 DEF RaceKept
  <2> QED BY <1>1, <1>2, <1>3, <2>1, <2>2, JMove
<1>4. CASE /\ c \in row' /\ UNCHANGED barrier
           /\ Goto(p, [task[p] EXCEPT !.pc = "settlePending", !.how = "cancelled"])
  <2>1. PICK t \in TaskState : t = [task[p] EXCEPT !.pc = "settlePending", !.how = "cancelled"]
    BY <1>1 DEF TaskState, PC, Kind, TerminalKind
  <2>2. /\ t.pc = "settlePending" /\ t.how = "cancelled" /\ t.call = c /\ t.gen = task[p].gen
    BY <1>1, <2>1 DEF TaskState
  <2>3. HasStart(c)
    BY <1>1, <1>4, PeekFinds
  <2>4. Clean(t)
    BY <1>1, <2>2, <2>3 DEF Clean
  <2> QED BY <1>3, <1>4, <2>1, <2>2, <2>4
<1>5. CASE /\ c \notin row' /\ ~HasTerminal(c) /\ task[p].how = "notAdmitted"
           /\ Goto(p, [task[p] EXCEPT !.pc = "writing"]) /\ UNCHANGED barrier
  <2>1. PICK t \in TaskState : t = [task[p] EXCEPT !.pc = "writing"]
    BY <1>1 DEF TaskState, PC
  <2>2. t.pc = "writing" /\ t.how = "notAdmitted" /\ t.call = c /\ t.gen = task[p].gen
    BY <1>1, <1>5, <2>1 DEF TaskState
  <2>3. ~HasStart(c)
    BY <1>1, <1>5, PeekFinds
  <2>4. Clean(t)
    BY <1>1, <2>2, <2>3 DEF Clean
  <2> QED BY <1>3, <1>5, <2>1, <2>2, <2>4
<1>6. CASE LeaveBarrier(p) /\ Goto(p, Idle)
  BY <1>1, <1>2, <1>6, JEnd
<1> QED BY <1>4, <1>5, <1>6 DEF CancelJournaled, Enqueue

\* One turn of a settlement loop.
LEMMA JSettleNext ==
  ASSUME IInv, JInv, NEW p \in Task, SettleNext(p)
  PROVE  JInv'
<1>1. /\ TypeOK /\ task[p].pc = "loop" /\ task[p] \in TaskState
      /\ task[p].how \in {"abandoned", "inherited"}
      /\ UNCHANGED <<log, row, claim, route, faults, barrier, deliveries, granted>>
  BY JFacts DEF SettleNext, At, Sound
<1>2. Fences' /\ ~Mutating(task[p])
  BY <1>1, FencesKept DEF Mutating, Waiting, JInv
<1>3. CASE Goto(p, Idle)
  BY <1>1, <1>2, <1>3, JEnd
<1>4. ASSUME NEW c \in task[p].todo,
             Goto(p, [Await(task[p], c) EXCEPT !.pc = "settle", !.todo = @ \ {c}])
      PROVE  JInv'
  <2>1. /\ c \in Call /\ Await(task[p], c) \in TaskState
    BY <1>1, AwaitType DEF TaskState
  <2>2. PICK t \in TaskState : t = [Await(task[p], c) EXCEPT !.pc = "settle", !.todo = @ \ {c}]
    BY <2>1 DEF TaskState, PC
  <2>3. t.pc = "settle" /\ t.how = task[p].how /\ t.behindStart = task[p].behindStart
    BY <1>1, <2>1, <2>2 DEF TaskState, Await
  <2>4. Clean(t) /\ ~Mutating(t)
    BY <1>1, <2>3 DEF Clean, Mutating, Waiting
  <2> QED BY <1>1, <1>2, <1>4, <2>2, <2>3, <2>4, JPlain
<1> QED BY <1>3, <1>4 DEF SettleNext

\* failPendingCallsTargeting snapshots the provider's rows.
LEMMA JFailPendingCallsTargeting ==
  ASSUME IInv, JInv, NEW p \in Task, FailPendingCallsTargeting(p)
  PROVE  JInv'
<1>1. /\ TypeOK /\ task[p].pc = "leaving" /\ task[p] \in TaskState
      /\ task[p].how \in {"abandoned", "inherited"}
      /\ Goto(p, [task[p] EXCEPT !.pc = "loop", !.todo = row])
      /\ UNCHANGED <<log, row, claim, route, faults, barrier, deliveries, granted>>
  BY JFacts DEF FailPendingCallsTargeting, At, Sound, durable
<1>2. PICK t \in TaskState : t = [task[p] EXCEPT !.pc = "loop", !.todo = row]
  <2>1. "loop" \in PC /\ row \in SUBSET Call
    BY <1>1 DEF PC, TypeOK
  <2> QED BY <2>1, <1>1 DEF TaskState
<1>3. t.pc = "loop" /\ t.how = task[p].how /\ t.behindStart = task[p].behindStart
  BY <1>1, <1>2 DEF TaskState
<1>4. Clean(t) /\ ~Mutating(t) /\ ~Mutating(task[p]) /\ Fences'
  BY <1>1, <1>3, FencesKept DEF Clean, Mutating, Waiting, JInv
<1> QED BY <1>1, <1>2, <1>3, <1>4, JPlain

\* redeliverPendingCallsTo.
LEMMA JRedeliver ==
  ASSUME IInv, JInv, NEW p \in Task, Redeliver(p)
  PROVE  JInv'
<1> DEFINE stale == {c \in row : HasTerminal(c)}
<1>1. /\ task[p].pc = "redeliver" /\ row' = row \ stale /\ Goto(p, Idle)
      /\ ClaimForDispatch(row \ stale, stale)
      /\ UNCHANGED <<log, route, barrier, faults>>
  BY DEF Redeliver, At
<1>2. Fences'
  BY <1>1, DispatchMoves DEF JInv
<1> QED BY <1>1, <1>2, JEnd DEF Mutating, Waiting

-----------------------------------------------------------------------------
(* Appends *)

\* What the log says after an append.
LEMMA AppendedIs ==
  ASSUME TypeOK, NEW e \in Event, log' = Appended(e)
  PROVE  /\ \A c \in Call : /\ HasStart(c)' <=> HasStart(c) \/ IsStart(e, c)
                            /\ HasTerminal(c)' <=> HasTerminal(c) \/ IsTerminal(e, c)
         /\ /\ Ordered
            /\ \A c \in Call : IsStart(e, c) => HasStart(c) \/ ~HasTerminal(c)
            => Ordered'
<1>0. log \in Seq(Event) /\ "started" \notin TerminalKind
  BY DEF TypeOK, TerminalKind
<1>1. CASE Stored(e)
  <2>1. UNCHANGED log
    BY <1>1 DEF Appended
  <2>2. PICK i \in DOMAIN log : SameId(log[i], e)
    BY <1>1 DEF Stored
  <2>3. \A c \in Call : /\ IsStart(e, c) => HasStart(c)
                        /\ IsTerminal(e, c) => HasTerminal(c)
    BY <1>0, <2>2 DEF SameId, IsStart, IsTerminal, HasStart, HasTerminal
  <2> QED BY <2>1, <2>3 DEF HasStart, HasTerminal, Ordered
<1>2. CASE ~Stored(e)
  <2>1. log' = Append(log, e)
    BY <1>2 DEF Appended
  <2>2. /\ DOMAIN log' = DOMAIN log \cup {Len(log) + 1}
        /\ log'[Len(log) + 1] = e /\ Len(log) + 1 \in DOMAIN log'
        /\ \A i \in DOMAIN log : i \in DOMAIN log' /\ log'[i] = log[i]
    BY <1>0, <2>1, AppendIs
  <2>3. \A c \in Call : /\ HasStart(c)' <=> HasStart(c) \/ IsStart(e, c)
                        /\ HasTerminal(c)' <=> HasTerminal(c) \/ IsTerminal(e, c)
    BY <2>2 DEF HasStart, HasTerminal
  <2>4. ASSUME Ordered, \A c \in Call : IsStart(e, c) => HasStart(c) \/ ~HasTerminal(c)
        PROVE  Ordered'
    <3>1. \A c \in Call : IsStart(e, c) => ~HasTerminal(c) /\ ~IsTerminal(e, c)
      BY <1>0, <1>2, <2>4 DEF Stored, SameId, HasStart, IsStart, IsTerminal
    <3>2. \A i \in DOMAIN log : i < Len(log) + 1
      BY <1>0
    <3> QED BY <2>2, <2>4, <3>1, <3>2 DEF Ordered, HasTerminal
  <2> QED BY <2>3, <2>4
<1> QED BY <1>1, <1>2

\* Two handlers that hold the same barrier are the same.
LEMMA OneHolder ==
  ASSUME Barriers, NEW p \in Task, NEW q \in Task, CallOf(p) = CallOf(q),
         Mutating(task[p]), task[p].pc \notin Waiting,
         Mutating(task[q]), task[q].pc \notin Waiting
  PROVE  p = q
  BY DEF Barriers, HoldsBarrier

\* The head of the queue appends: what the others know stays true.
LEMMA AppendKeeps ==
  ASSUME IInv, JInv, queue # <<>>, NEW p \in Task, p = Head(queue),
         log' = Appended(EventOf(p)) \/ UNCHANGED log,
         UNCHANGED <<route, row, claim, deliveries, granted>>
  PROVE  /\ Fences' /\ Grows
         /\ \A q \in Task, u \in TaskState : q # p /\ u = task[q] => Clean(u)'
         /\ task[p].pc \in {"starting", "writing"} /\ EventOf(p) \in Event
         /\ \A c \in Call : log' = Appended(EventOf(p)) /\ task[p].pc = "starting"
                           /\ c = task[p].call => HasStart(c)'
<1>1. /\ TypeOK /\ OneOutcome /\ Fences /\ Barriers /\ task[p] \in TaskState /\ Sound(task[p])
      /\ Clean(task[p]) /\ task[p].pc \in {"starting", "writing"} /\ EventOf(p) \in Event
      /\ NoLost' = NoLost
  BY JFacts, HeadFacts DEF JInv, Clean, Appending, IInv, NoLost
<1>2. CASE UNCHANGED log
  <2>1. \A u \in TaskState : Clean(u) => Clean(u)'
    BY <1>1, <1>2 DEF Clean, HasStart, HasTerminal
  <2>2. \A q \in Task, u \in TaskState : q # p /\ u = task[q] => Clean(u)'
    BY <2>1, JFacts
  <2>3. ASSUME log' = Appended(EventOf(p)), task[p].pc = "starting"
        PROVE  \A c \in Call : c = task[p].call => HasStart(c)'
    <3>1. PICK e \in Event : e = EventOf(p)
      BY <1>1
    <3>2. e.kind = "started" /\ e.call = task[p].call
      BY <2>3, <3>1 DEF EventOf, CallOf
    <3> QED BY <1>1, <2>3, <3>1, <3>2, LogAppended
  <2> QED BY <1>1, <1>2, <2>2, <2>3, FencesKept, LogKept
<1>3. CASE log' = Appended(EventOf(p))
  <2>1. PICK e \in Event : e = EventOf(p)
    BY <1>1
  <2>2. /\ e.call = task[p].call
        /\ task[p].pc = "starting" => e.kind = "started"
        /\ task[p].pc = "writing" => e.kind = task[p].how /\ e.kind # "started"
    BY <1>1, <2>1 DEF EventOf, CallOf, Sound, Settling, TerminalKind
  <2>3. /\ \A c \in Call : /\ HasStart(c)' <=> HasStart(c) \/ IsStart(e, c)
                           /\ HasTerminal(c)' <=> HasTerminal(c) \/ IsTerminal(e, c)
        /\ /\ Ordered
           /\ \A c \in Call : IsStart(e, c) => HasStart(c) \/ ~HasTerminal(c)
           => Ordered'
    BY <1>1, <1>3, <2>1, AppendedIs
  <2>4. NoLost => Ordered'
    BY <1>1, <2>2, <2>3 DEF Clean, Fences, IsStart
  <2>5. Fences'
    BY <1>1, <2>3, <2>4 DEF Fences, Dropped
  <2>6. ASSUME NEW q \in Task, NEW u \in TaskState, q # p, u = task[q]
        PROVE  Clean(u)'
    <3>1. Clean(u) /\ u.call = CallOf(q) /\ u.call \in Call /\ CallOf(p) = task[p].call
      BY <2>6, JFacts
    <3>2. Mutating(u) /\ u.pc \notin Waiting /\ u.call = e.call
          => ~(Mutating(task[p]) /\ task[p].pc \notin Waiting)
      BY <1>1, <2>2, <2>6, <3>1, OneHolder
    <3>3. u.pc = "writing" /\ u.how = "notAdmitted" => ~HasStart(u.call)'
      BY <1>1, <2>2, <2>3, <3>1, <3>2 DEF Clean, IsStart, Mutating, Waiting
    <3>4. NoLost /\ u.pc = "starting" => HasStart(u.call)' \/ ~HasTerminal(u.call)'
      <4> SUFFICES ASSUME NoLost, u.pc = "starting", IsTerminal(e, u.call), ~HasStart(u.call)
                   PROVE  FALSE
        BY <2>3, <3>1 DEF Clean
      <4>1. task[p].pc = "writing" /\ task[p].how # "lost" /\ u.call = e.call
        BY <1>1, <2>2 DEF Clean, IsTerminal, TerminalKind
      <4>2. task[p].how # "notAdmitted"
        BY <3>2, <4>1 DEF Mutating, Waiting
      <4> QED BY <1>1, <2>2, <4>1, <4>2 DEF Sound
    <3> QED BY <1>1, <2>3, <3>1, <3>3, <3>4 DEF Clean
  <2>7. \A c \in Call : task[p].pc = "starting" /\ c = task[p].call => HasStart(c)'
    BY <1>1, <1>3, <2>1, <2>2, LogAppended
  <2> QED BY <1>1, <1>3, <2>1, <2>5, <2>6, <2>7, LogAppended
<1> QED BY <1>2, <1>3

\* The publication queue commits its head.
LEMMA JCommit ==
  ASSUME IInv, JInv, Commit
  PROVE  JInv'
<1>0. PICK p \in Task : p = Head(queue)
  BY HeadFacts DEF Commit
<1>1. /\ queue # <<>> /\ log' = Appended(EventOf(p))
      /\ Goto(p, [task[p] EXCEPT !.pc = AfterAppend(p), !.seq = PositionOf(EventOf(p))])
      /\ UNCHANGED <<row, claim, route, barrier, deliveries, faults, granted>>
  BY <1>0 DEF Commit
<1>2. /\ TypeOK /\ Barriers /\ task[p] \in TaskState /\ CallOf(p) = task[p].call
      /\ Clean(task[p]) /\ CallOf(p) \in Call
  BY JFacts DEF JInv
<1>3. /\ Fences' /\ Grows
      /\ \A q \in Task, u \in TaskState : q # p /\ u = task[q] => Clean(u)'
      /\ task[p].pc \in {"starting", "writing"} /\ EventOf(p) \in Event
      /\ \A c \in Call : task[p].pc = "starting" /\ c = task[p].call => HasStart(c)'
  BY <1>0, <1>1, AppendKeeps
<1>4. /\ AfterAppend(p) \in {"journalEnd", "record", "consume"}
      /\ AfterAppend(p) = "journalEnd" <=> task[p].pc = "starting"
  BY <1>3 DEF AfterAppend, At
<1>5. PICK t \in TaskState :
        t = [task[p] EXCEPT !.pc = AfterAppend(p), !.seq = PositionOf(EventOf(p))]
  <2>1. PositionOf(EventOf(p)) \in Nat /\ AfterAppend(p) \in PC
    BY <1>2, <1>4, PositionType DEF PC
  <2> QED BY <2>1, <1>2 DEF TaskState
<1>6. /\ t.pc = AfterAppend(p) /\ t.how = task[p].how /\ t.call = task[p].call
      /\ t.gen = task[p].gen /\ t.behindStart = task[p].behindStart /\ Goto(p, t)
  BY <1>1, <1>2, <1>5 DEF TaskState
<1>7. Clean(t)'
  BY <1>1, <1>2, <1>4, <1>6 DEF Clean, NoLost
<1>8. Mutating(t) <=> Mutating(task[p])
  BY <1>3, <1>4, <1>6 DEF Mutating, Waiting
<1>9. Mutating(task[p]) => HoldsBarrier(p)
  BY <1>2, <1>3 DEF Barriers, Waiting
<1>10. Barriers' /\ OthersStay(p)
  BY <1>1, <1>2, <1>6, <1>8, <1>9, BarrierKept
<1>11. faults' = 0 => faults = 0 /\ RaceDone(p, t)
  <2>1. \A c \in Call : c = task[p].call /\ task[p].pc = "starting" => Known(c)'
    BY <1>3 DEF Known
  <2>2. faults = 0 /\ t.behindStart => t.how # "lost" /\ t.pc # "resolve"
    BY <1>4, <1>6 DEF JInv, Races
  <2> QED BY <1>1, <1>2, <1>3, <2>1, <2>2 DEF RaceDone
<1> QED BY <1>3, <1>6, <1>7, <1>10, <1>11, JAdvance

\* An append rejects, before or after the event was stored.
LEMMA JAppendRejects ==
  ASSUME IInv, JInv, NEW stored \in BOOLEAN, AppendRejects(stored)
  PROVE  JInv'
<1>0. PICK p \in Task : p = Head(queue)
  BY HeadFacts DEF AppendRejects
<1> DEFINE next == CASE task[p].how = "abandoned" -> [task[p] EXCEPT !.pc = "loop"]
                     [] /\ task[p].how # "abandoned" /\ route = "entity"
                        /\ task[p].gen > 0 /\ claim[CallOf(p)].gen = task[p].gen ->
                          [Await(task[p], CallOf(p)) EXCEPT !.pc = "settle", !.gen = 0]
                     [] OTHER -> Idle
<1>1. /\ queue # <<>> /\ faults' = faults + 1
      /\ log' = Appended(EventOf(p)) \/ UNCHANGED log
      /\ LeaveBarrier(p) /\ Goto(p, next)
      /\ UNCHANGED <<row, claim, route, deliveries, granted>>
  BY <1>0 DEF AppendRejects
<1>2. /\ TypeOK /\ Barriers /\ task[p] \in TaskState /\ CallOf(p) = task[p].call
      /\ Clean(task[p]) /\ CallOf(p) \in Call
  BY JFacts DEF JInv
<1>3. /\ Fences' /\ Grows
      /\ \A q \in Task, u \in TaskState : q # p /\ u = task[q] => Clean(u)'
      /\ task[p].pc \in {"starting", "writing"}
  BY <1>0, <1>1, AppendKeeps
<1>4. faults' # 0
  BY <1>1, <1>2 DEF TypeOK
<1>5. \E t \in TaskState : t = next /\ Clean(t)' /\ ~Mutating(t)
  <2>0. NoLost' = NoLost
    BY <1>1 DEF NoLost
  <2>1. CASE task[p].how = "abandoned"
    <3>1. PICK t \in TaskState : t = [task[p] EXCEPT !.pc = "loop"]
      BY <1>2 DEF TaskState, PC
    <3>2. t.pc = "loop" /\ t.how = "abandoned" /\ t = next
      BY <2>1, <3>1, <1>2 DEF TaskState
    <3> QED BY <3>2 DEF Clean, Mutating, Waiting
  <2>2. CASE /\ task[p].how # "abandoned"
             /\ route = "entity" /\ task[p].gen > 0 /\ claim[CallOf(p)].gen = task[p].gen
    <3>1. PICK u \in TaskState : u = Await(task[p], CallOf(p)) /\ u.how = task[p].how
      BY <1>2, AwaitType
    <3>2. PICK t \in TaskState : t = [u EXCEPT !.pc = "settle", !.gen = 0]
      <4>1. "settle" \in PC /\ 0 \in 0 .. MaxClaim
        BY BoundAssumption DEF PC
      <4> QED BY <4>1 DEF TaskState
    <3>3. t.pc = "settle" /\ t.how = task[p].how /\ t.gen = 0
      BY <3>1, <3>2 DEF TaskState
    <3>4. t = next
      BY <2>2, <3>1, <3>2
    <3>5. task[p].how \notin {"cancelled", "notAdmitted"}
      BY <1>2, <2>2 DEF Clean
    <3> QED BY <1>2, <2>0, <3>3, <3>4, <3>5 DEF Clean, Mutating, Waiting
  <2>3. CASE /\ task[p].how # "abandoned"
             /\ ~(route = "entity" /\ task[p].gen > 0 /\ claim[CallOf(p)].gen = task[p].gen)
    <3>1. next = Idle
      BY <2>3
    <3>2. PICK t \in TaskState : /\ t = Idle /\ t.pc = "idle" /\ t.how = "none"
                                 /\ ~t.behindStart /\ Clean(t) /\ ~Mutating(t)
      BY IdleClean
    <3> QED BY <3>1, <3>2 DEF Clean
  <2> QED BY <2>1, <2>2, <2>3
<1>6. PICK t \in TaskState : t = next /\ Clean(t)' /\ ~Mutating(t)
  BY <1>5
<1>7. Goto(p, t)
  BY <1>1, <1>6
<1>8. Barriers' /\ OthersStay(p)
  BY <1>1, <1>2, <1>3, <1>6, <1>7, BarrierLeft DEF Waiting
<1> QED BY <1>3, <1>4, <1>6, <1>7, <1>8, JAdvance

-----------------------------------------------------------------------------
(* Requests, claims, reconciliation, forks and restarts *)

\* A free slot is outside the barriers.
LEMMA FreeSlot ==
  ASSUME IInv, JInv, NEW p \in Task, task[p].pc = "idle"
  PROVE  /\ TypeOK /\ Fences /\ Barriers /\ ~Mutating(task[p])
         /\ task[p] \in TaskState /\ Clean(task[p])
  BY JFacts DEF JInv, Mutating, Waiting

\* submitMethodResult arrives.
LEMMA JSubmitMethodResult ==
  ASSUME IInv, JInv, NEW p \in Task, NEW c \in Call, NEW n \in 0 .. MaxClaim,
         SubmitMethodResult(p, c, n)
  PROVE  JInv'
<1>1. /\ TypeOK /\ Fences /\ Barriers /\ task[p].pc = "idle" /\ Holds(c, n)
      /\ ~Mutating(task[p]) /\ barrier[c] \in Seq(Task)
      /\ UNCHANGED <<log, row, claim, route, barrier, deliveries, faults, granted>>
  BY FreeSlot DEF SubmitMethodResult, At, durable, TypeOK
<1> DEFINE b == /\ barrier[c] # <<>>
                /\ task[Last(barrier[c])].pc \in {"journal", "starting", "journalEnd"}
<1>2. PICK u \in TaskState : u = Await(Idle, c) /\ u.call = c /\ u.wait = InFlight(c)
  <2>1. Await(Idle, c) \in TaskState /\ Await(Idle, c).call = c
    BY <1>1, IdleType, AwaitType
  <2>2. Await(Idle, c).wait = InFlight(c)
    BY IdleType DEF Await, TaskState
  <2> QED BY <2>1, <2>2
<1>3. PICK t \in TaskState :
        t = [u EXCEPT !.pc = "resolve", !.how = "result", !.gen = n, !.behindStart = b]
  <2>1. "resolve" \in PC /\ "result" \in Kind /\ b \in BOOLEAN
    BY DEF PC, Kind, TerminalKind
  <2> QED BY <2>1 DEF TaskState
<1>4. /\ t.pc = "resolve" /\ t.how = "result" /\ t.call = c /\ t.wait = InFlight(c)
      /\ t.behindStart = b
  BY <1>2, <1>3 DEF TaskState
<1>5. Goto(p, t)
  BY <1>2, <1>3 DEF SubmitMethodResult
<1>6. NoLost => HasStart(c)
  BY <1>1 DEF Holds, NoLost, Fences, TypeOK
<1>7. Clean(t) /\ ~Mutating(t)
  BY <1>4, <1>6 DEF Clean, Mutating, Waiting
<1>8. b => HasStart(c) \/ (t.wait # p /\ Starting(t.wait, c))
  <2> SUFFICES ASSUME b PROVE HasStart(c) \/ (t.wait # p /\ Starting(t.wait, c))
    OBVIOUS
  <2>1. Len(barrier[c]) \in DOMAIN barrier[c] /\ Last(barrier[c]) = barrier[c][Len(barrier[c])]
    BY <1>1 DEF Last
  <2>2. PICK q \in Task : q = Last(barrier[c])
    BY <1>1, <2>1
  <2>3. t.wait = q /\ q \in Range(barrier[c])
    BY <1>1, <1>4, <2>1, <2>2, RangeIs DEF InFlight
  <2>4. CallOf(q) = c /\ q # p
    BY <1>1, <2>1, <2>2 DEF Barriers
  <2>5. task[q].pc = "journalEnd" => HasStart(c)
    BY <2>4, JFacts DEF Sound
  <2> QED BY <2>2, <2>3, <2>4, <2>5 DEF Starting
<1>9. RaceKept(p, t)
  BY <1>1, <1>4, <1>8 DEF RaceKept
<1>10. Barriers' /\ OthersStay(p)
  BY <1>1, <1>5, <1>7, BarrierKept
<1> QED BY <1>1, <1>5, <1>7, <1>9, <1>10, FencesKept, JMove

\* submitMethodProgress arrives.
LEMMA JSubmitMethodProgress ==
  ASSUME IInv, JInv, NEW p \in Task, NEW c \in Call, NEW n \in 0 .. MaxClaim,
         SubmitMethodProgress(p, c, n)
  PROVE  JInv'
<1>1. /\ TypeOK /\ Fences /\ Barriers /\ task[p].pc = "idle" /\ Holds(c, n)
      /\ ~Mutating(task[p])
      /\ UNCHANGED <<log, row, claim, route, barrier, deliveries, faults, granted>>
  BY FreeSlot DEF SubmitMethodProgress, At, durable
<1>2. PICK u \in TaskState : u = Await(Idle, c) /\ u.call = c /\ u.behindStart = FALSE
  <2>1. Await(Idle, c) \in TaskState /\ Await(Idle, c).call = c
    BY <1>1, IdleType, AwaitType
  <2>2. Await(Idle, c).behindStart = FALSE
    BY DEF Await, Idle
  <2> QED BY <2>1, <2>2
<1>3. PICK t \in TaskState : t = [u EXCEPT !.pc = "resolve", !.how = "output", !.gen = n]
  <2>1. "resolve" \in PC /\ "output" \in Kind
    BY DEF PC, Kind
  <2> QED BY <2>1 DEF TaskState
<1>4. /\ t.pc = "resolve" /\ t.how = "output" /\ t.call = c /\ t.behindStart = FALSE
  BY <1>2, <1>3 DEF TaskState
<1>5. Goto(p, t)
  BY <1>2, <1>3 DEF SubmitMethodProgress
<1>6. NoLost => HasStart(c)
  BY <1>1 DEF Holds, NoLost, Fences, TypeOK
<1>7. Clean(t) /\ ~Mutating(t)
  BY <1>4, <1>6 DEF Clean, Mutating, Waiting
<1> QED BY <1>1, <1>4, <1>5, <1>7, FencesKept, JPlain

\* onMethodCall answers.
LEMMA JProviderReturns ==
  ASSUME IInv, JInv, NEW p \in Task, NEW c \in Call, NEW n \in 0 .. MaxClaim,
         ProviderReturns(p, c, n)
  PROVE  JInv'
<1>1. /\ TypeOK /\ Fences /\ task[p].pc = "idle" /\ ~Mutating(task[p])
      /\ deliveries' = deliveries \ {<<c, n>>}
      /\ UNCHANGED <<log, row, claim, route, barrier, faults, granted>>
  BY FreeSlot DEF ProviderReturns, At, durable
<1>2. Fences'
  <2>1. ClaimsMove
    BY <1>1 DEF ClaimsMove, Fences
  <2> QED BY <1>1, <2>1, FencesMove
<1>3. CASE Goto(p, Idle)
  BY <1>1, <1>2, <1>3, JEnd
<1>4. CASE Goto(p, [Await(Idle, c) EXCEPT !.pc = "settle", !.how = "result", !.gen = n])
  <2>1. PICK u \in TaskState : u = Await(Idle, c) /\ u.behindStart = FALSE
    <3>1. Await(Idle, c).behindStart = FALSE
      BY DEF Await, Idle
    <3> QED BY <1>1, <3>1, IdleType, AwaitType
  <2>2. PICK t \in TaskState : t = [u EXCEPT !.pc = "settle", !.how = "result", !.gen = n]
    <3>1. "settle" \in PC /\ "result" \in Kind
      BY DEF PC, Kind, TerminalKind
    <3> QED BY <3>1 DEF TaskState
  <2>3. t.pc = "settle" /\ t.how = "result" /\ t.behindStart = FALSE
    BY <2>1, <2>2 DEF TaskState
  <2>4. Clean(t) /\ ~Mutating(t) /\ Goto(p, t)
    BY <1>4, <2>1, <2>2, <2>3 DEF Clean, Mutating, Waiting
  <2> QED BY <1>1, <1>2, <2>3, <2>4, JPlain
<1> QED BY <1>3, <1>4 DEF ProviderReturns

\* cancelMethodCall and timeoutMethodCall stand in the call's barrier.
LEMMA JCancelMethodCall ==
  ASSUME IInv, JInv, NEW p \in Task, NEW c \in Call, NEW how, CancelMethodCall(p, c, how)
  PROVE  JInv'
<1>1. /\ TypeOK /\ Fences /\ Barriers /\ task[p].pc = "idle" /\ ~Mutating(task[p])
      /\ how \in {"cancelled", "notAdmitted"}
      /\ barrier' = [barrier EXCEPT ![c] = Append(@, p)]
      /\ UNCHANGED <<log, row, claim, route, deliveries, faults, granted>>
  BY FreeSlot DEF CancelMethodCall, At, durable
<1>2. PICK t \in TaskState : t = [Idle EXCEPT !.pc = "cancel", !.call = c, !.how = how]
  <2>1. "cancel" \in PC /\ how \in Kind
    BY <1>1 DEF PC, Kind, TerminalKind
  <2> QED BY <2>1, IdleType DEF TaskState
<1>3. /\ t.pc = "cancel" /\ t.how = how /\ t.call = c /\ t.gen = 0 /\ t.behindStart = FALSE
      /\ Goto(p, t)
  BY <1>2 DEF Idle, CancelMethodCall
<1>4. Barriers' /\ OthersStay(p)
  BY <1>1, <1>3, BarrierEntered DEF Waiting
<1>5. Clean(t) /\ RaceKept(p, t)
  BY <1>1, <1>3 DEF Clean, RaceKept
<1> QED BY <1>1, <1>3, <1>4, <1>5, FencesKept, JMove

\* The provider leaves, or joins.
LEMMA JMember ==
  ASSUME IInv, JInv, NEW p \in Task, Leave(p) \/ Join(p)
  PROVE  JInv'
<1>1. /\ TypeOK /\ Fences /\ Barriers /\ task[p].pc = "idle" /\ ~Mutating(task[p])
      /\ task[p] \in TaskState /\ Clean(task[p])
      /\ UNCHANGED <<log, row, claim, route, barrier, deliveries, faults, granted>>
  BY FreeSlot DEF Leave, Join, At
<1>2. CASE Goto(p, [Idle EXCEPT !.pc = "leaving", !.how = "abandoned"])
  <2>1. PICK t \in TaskState : t = [Idle EXCEPT !.pc = "leaving", !.how = "abandoned"]
    <3>1. "leaving" \in PC /\ "abandoned" \in Kind
      BY DEF PC, Kind, TerminalKind
    <3> QED BY <3>1, IdleType DEF TaskState
  <2>2. t.pc = "leaving" /\ t.how = "abandoned" /\ t.behindStart = FALSE
    BY <2>1 DEF Idle
  <2>3. Clean(t) /\ ~Mutating(t)
    BY <2>2 DEF Clean, Mutating, Waiting
  <2> QED BY <1>1, <1>2, <2>1, <2>2, <2>3, FencesKept, JPlain
<1>3. CASE Goto(p, [task[p] EXCEPT !.pc = "redeliver"])
  <2>1. PICK t \in TaskState : t = [task[p] EXCEPT !.pc = "redeliver"]
    BY <1>1 DEF TaskState, PC
  <2>2. /\ t.pc = "redeliver" /\ t.how = task[p].how /\ t.gen = task[p].gen
        /\ t.behindStart = task[p].behindStart
    BY <1>1, <2>1 DEF TaskState
  <2>3. Clean(t) /\ ~Mutating(t)
    BY <1>1, <2>2 DEF Clean, Mutating, Waiting
  <2> QED BY <1>1, <1>3, <2>1, <2>2, <2>3, FencesKept, JPlain
<1> QED BY <1>2, <1>3 DEF Leave, Join, GotoPc

\* abandonInheritedCalls reconciles and starts its loop.
LEMMA JAbandonInheritedCalls ==
  ASSUME IInv, JInv, NEW p \in Task, AbandonInheritedCalls(p)
  PROVE  JInv'
<1>1. /\ Fences /\ task[p].pc = "idle" /\ ~Mutating(task[p]) /\ Reconcile
      /\ Goto(p, [Idle EXCEPT !.pc = "loop", !.how = "inherited", !.todo = Derived])
      /\ UNCHANGED <<log, route, barrier, deliveries, faults, granted>>
  BY FreeSlot DEF AbandonInheritedCalls, At
<1>2. PICK t \in TaskState :
        t = [Idle EXCEPT !.pc = "loop", !.how = "inherited", !.todo = Derived]
  <2>1. "loop" \in PC /\ "inherited" \in Kind /\ Derived \in SUBSET Call
    BY DerivedFacts DEF PC, Kind, TerminalKind
  <2> QED BY <2>1, IdleType DEF TaskState
<1>3. t.pc = "loop" /\ t.how = "inherited" /\ t.behindStart = FALSE
  BY <1>2 DEF Idle
<1>4. Clean(t) /\ ~Mutating(t)
  BY <1>3 DEF Clean, Mutating, Waiting
<1> QED BY <1>1, <1>2, <1>3, <1>4, ReconcileMoves, JPlain

\* Steps that move no handler.
LEMMA JCache ==
  ASSUME JInv, UNCHANGED <<log, route, task, barrier, faults>>, Fences'
  PROVE  JInv'
  BY DEF JInv, Barriers, AllClean, Clean, NoLost, Races, Starting, HoldsBarrier, CallOf,
         HasStart, HasTerminal

\* claimMethodCall and markProviderCallExecutionStarted.
LEMMA JClaims ==
  ASSUME IInv, JInv, Claims
  PROVE  JInv'
<1>0. claim \in [Call -> Claim] /\ granted \in [Call -> 0 .. MaxClaim] /\ Fences
  BY DEF IInv, TypeOK, JInv
<1>1. ASSUME NEW c \in Call, NEW x \in Executor, ClaimMethodCall(c, x)
      PROVE  ClaimsMove
  <2>1. /\ c \in row /\ claim'[c].gen = claim[c].gen + 1
        /\ granted'[c] = Larger(granted[c], claim[c].gen + 1)
    BY <1>0, <1>1 DEF ClaimMethodCall
  <2>2. \A d \in Call : d # c => claim'[d] = claim[d] /\ granted'[d] = granted[d]
    BY <1>0, <1>1 DEF ClaimMethodCall
  <2> QED BY <1>1, <2>1, <2>2 DEF ClaimsMove, ClaimMethodCall, resident
<1>2. ASSUME NEW c \in Call, NEW n \in 1 .. MaxClaim, MarkMethodCallExecutionStarted(c, n)
      PROVE  ClaimsMove
  <2>1. \A d \in Call : claim'[d].gen = claim[d].gen
    BY <1>0, <1>2 DEF MarkMethodCallExecutionStarted, Claim
  <2> QED BY <1>2, <2>1 DEF ClaimsMove, MarkMethodCallExecutionStarted, resident
<1>3. UNCHANGED <<log, route, task, barrier, faults>>
  BY DEF Claims, ClaimMethodCall, MarkMethodCallExecutionStarted, resident
<1>4. Fences'
  BY <1>0, <1>1, <1>2, <1>3, FencesMove DEF Claims
<1> QED BY <1>3, <1>4, JCache

\* The convergence sweep.
LEMMA JReconcilePendingCalls ==
  ASSUME IInv, JInv, NEW force \in BOOLEAN, ReconcilePendingCalls(force)
  PROVE  JInv'
<1>1. Fences'
  BY ReconcileMoves DEF ReconcilePendingCalls, JInv, resident
<1> QED BY <1>1, JCache DEF ReconcilePendingCalls, resident

\* A new activation stands in no barrier and knows nothing.
LEMMA ResetClean ==
  ASSUME Reset
  PROVE  Barriers' /\ AllClean' /\ Races'
<1>1. PICK t \in TaskState : t = Idle
  BY IdleType
<1>2. t.pc = "idle" /\ t.how = "none" /\ t.behindStart = FALSE
  BY <1>1 DEF Idle
<1>3. \A p \in Task : task'[p] = t
  BY <1>1 DEF Reset
<1>4. Barriers'
  BY <1>2, <1>3 DEF Reset, Barriers, Mutating, Waiting
<1>5. AllClean' /\ Races'
  BY <1>2, <1>3 DEF AllClean, Clean, Races
<1> QED BY <1>4, <1>5

\* A crash keeps the claims; what was sent to a provider is forgotten.
LEMMA JCrash ==
  ASSUME IInv, JInv, Crash
  PROVE  JInv'
<1>1. ClaimsMove
  BY DEF Crash, Reset, durable, ClaimsMove
<1>2. Fences'
  BY <1>1, FencesMove DEF Crash, durable, JInv
<1> QED BY <1>2, ResetClean DEF Crash, JInv

\* A fork starts with no claims on a prefix of the log.
LEMMA JPostClone ==
  ASSUME IInv, JInv, NEW n \in 0 .. Len(log), PostClone(n)
  PROVE  JInv'
<1>1. /\ log \in Seq(Event) /\ log' = SubSeq(log, 1, n) /\ NoLost' = NoLost
      /\ row' = {} /\ claim' = [c \in Call |-> NoClaim] /\ granted' = [c \in Call |-> 0]
      /\ deliveries' = {} /\ Reset
  BY DEF IInv, TypeOK, PostClone, InitializeClonedStorage, Reset, NoLost
<1>2. \A i \in DOMAIN log' : i \in DOMAIN log /\ log'[i] = log[i]
  BY <1>1
<1>3. Ordered => Ordered'
  BY <1>2 DEF Ordered
<1>4. Fences'
  BY <1>1, <1>3 DEF Fences, JInv, NoClaim
<1> QED BY <1>1, <1>4, ResetClean DEF JInv

\* A new channel.
LEMMA JInit == Init => JInv
<1> SUFFICES ASSUME Init PROVE JInv
  OBVIOUS
<1>1. PICK t \in TaskState : t = Idle
  BY IdleType
<1>2. t.pc = "idle" /\ t.how = "none" /\ t.behindStart = FALSE
  BY <1>1 DEF Idle
<1>3. \A p \in Task : task[p] = t
  BY <1>1 DEF Init
<1>4. Barriers /\ AllClean /\ Races
  BY <1>2, <1>3 DEF Init, Barriers, Mutating, Waiting, AllClean, Clean, Races
<1>5. Fences
  BY DEF Init, Fences, Ordered, NoClaim
<1> QED BY <1>4, <1>5 DEF JInv

\* Every step keeps the second invariant.
LEMMA NextJInv == IInv /\ JInv /\ [Next]_vars => JInv'
<1> SUFFICES ASSUME IInv, JInv, [Next]_vars PROVE JInv'
  OBVIOUS
<1>1. ASSUME NEW p \in Task, Continue(p)
      PROVE  JInv'
  BY <1>1, JJournalStart, JRedrivenEnds, JJournalEnd, JDispatch, JDispatchUnrouted, JResolve,
     JSettleCall, JSettlePending, JConsume, JRecord, JCancelJournaled, JSettleNext,
     JFailPendingCallsTargeting, JRedeliver
     DEF Continue
<1>2. ASSUME NEW p \in Task, Request(p)
      PROVE  JInv'
  BY <1>2, JAbandonInheritedCalls, JMember, JCallMethod, JCancelMethodCall,
     JSubmitMethodResult, JSubmitMethodProgress, JProviderReturns
     DEF Request, TimeoutMethodCall
<1>3. CASE UNCHANGED vars
  <2>1. UNCHANGED <<log, row, claim, route, task, barrier, deliveries, faults, granted>>
    BY <1>3 DEF vars, durable, resident
  <2> QED BY <2>1, FencesKept, JCache DEF JInv
<1> QED BY <1>1, <1>2, <1>3, JCommit, JAppendRejects, JClaims, JReconcilePendingCalls,
        JCrash, JPostClone DEF Next

-----------------------------------------------------------------------------
(* What the second invariant gives *)

\* Both invariants hold in every reachable state.
THEOREM OrderInvariance == Spec => [](IInv /\ JInv)
<1> QED BY InitIInv, NextIInv, JInit, NextJInv, PTL DEF Spec

\* awaitInFlightStart: whatever handlers interleave, a result that arrived behind
\* the start of its call is never recovered as a lost one, unless something failed.
THEOREM RacesWait == Spec => []StartRaceNeverRecovers
<1>1. IInv /\ JInv => StartRaceNeverRecovers
  BY DEF IInv, TypeOK, JInv, Races, StartRaceNeverRecovers
<1> QED BY <1>1, OrderInvariance, PTL

\* What one step accepts.
Accepts ==
  \A p \in Task :
    /\ task[p].pc = "idle" /\ task'[p].pc \in {"resolve", "settle"}
    /\ task'[p].how = "result" /\ route # "external"
    => task'[p].gen = granted[task'[p].call]

\* A claim that is not dropped is the newest.
LEMMA CurrentIsNewest ==
  ASSUME IInv, JInv, route # "external", NEW c \in Call, claim[c].gen > 0
  PROVE  claim[c].gen = granted[c]
  BY DEF JInv, Fences, NoLost, Dropped

\* Every step accepts only under the newest generation.
LEMMA AcceptStep ==
  ASSUME IInv, JInv, [Next]_vars
  PROVE  Accepts
<1> SUFFICES ASSUME NEW p \in Task, task[p].pc = "idle",
                    task'[p].pc \in {"resolve", "settle"}, task'[p].how = "result",
                    route # "external"
             PROVE  task'[p].gen = granted[task'[p].call]
  BY DEF Accepts
<1>0. TypeOK /\ Fences /\ task \in [Task -> TaskState] /\ Idle \in TaskState
      /\ Idle.pc = "idle" /\ Idle.how = "none"
  BY IdleType DEF IInv, JInv, TypeOK
<1>1. ASSUME NEW q \in Task, NEW t, Goto(q, t)
      PROVE  q = p /\ task'[p] = t
  BY <1>0, <1>1 DEF Goto
<1>2. ASSUME NEW q \in Task, Request(q)
      PROVE  task'[p].gen = granted[task'[p].call]
  <2>1. ASSUME NEW c \in Call, NEW n \in 0 .. MaxClaim, SubmitMethodResult(q, c, n)
        PROVE  task'[p].gen = granted[task'[p].call]
    <3>1. PICK t \in TaskState : t = Await(Idle, c) /\ t.call = c
      BY <1>0, AwaitType
    <3>2. PICK b \in BOOLEAN : b = (/\ barrier[c] # <<>>
                    /\ task[Last(barrier[c])].pc \in {"journal", "starting", "journalEnd"})
      OBVIOUS
    <3>3. task'[p] = [t EXCEPT !.pc = "resolve", !.how = "result", !.gen = n, !.behindStart = b]
      BY <1>1, <2>1, <3>1, <3>2 DEF SubmitMethodResult
    <3>4. task'[p].gen = n /\ task'[p].call = c
      BY <3>1, <3>3 DEF TaskState
    <3>5. claim[c].gen = n /\ n > 0
      BY <1>0, <2>1 DEF SubmitMethodResult, Holds, TypeOK
    <3> QED BY <3>4, <3>5, CurrentIsNewest
  <2>2. ASSUME NEW c \in Call, NEW n \in 0 .. MaxClaim, ProviderReturns(q, c, n)
        PROVE  task'[p].gen = granted[task'[p].call]
    <3>1. PICK t \in TaskState : t = Await(Idle, c) /\ t.call = c
      BY <1>0, AwaitType
    <3>2. claim[c].gen = n
      BY <1>0, <1>1, <2>2 DEF ProviderReturns
    <3>3. task'[p] = [t EXCEPT !.pc = "settle", !.how = "result", !.gen = n]
      BY <1>1, <2>2, <3>1, <3>2 DEF ProviderReturns
    <3>4. task'[p].gen = n /\ task'[p].call = c
      BY <3>1, <3>3 DEF TaskState
    <3>5. n > 0
      <4>1. <<c, n>> \in deliveries
        BY <2>2 DEF ProviderReturns
      <4>2. <<c, n>>[2] > 0
        BY <1>0, <4>1 DEF Fences
      <4> QED BY <4>2
    <3> QED BY <3>2, <3>4, <3>5, CurrentIsNewest
  <2>3. ASSUME NEW c \in Call, NEW n \in 0 .. MaxClaim, SubmitMethodProgress(q, c, n)
        PROVE  FALSE
    <3>1. PICK t \in TaskState : t = Await(Idle, c)
      BY <1>0, AwaitType
    <3>2. task'[p] = [t EXCEPT !.pc = "resolve", !.how = "output", !.gen = n]
      BY <1>1, <2>3, <3>1 DEF SubmitMethodProgress
    <3>3. task'[p].how = "output"
      BY <3>1, <3>2 DEF TaskState
    <3> QED BY <3>3
  <2>4. ASSUME NEW t, Goto(q, [t EXCEPT !.pc = "redeliver"]), t \in TaskState
        PROVE  FALSE
    <3>1. task'[p] = [t EXCEPT !.pc = "redeliver"]
      BY <1>1, <2>4
    <3>2. task'[p].pc = "redeliver"
      BY <2>4, <3>1 DEF TaskState
    <3> QED BY <3>2
  <2>5. ASSUME Join(q)
        PROVE  FALSE
    <3>1. task[q] \in TaskState
      BY <1>0
    <3> QED BY <2>4, <2>5, <3>1 DEF Join, GotoPc
  <2>6. ASSUME Leave(q)
        PROVE  FALSE
    <3>1. task'[p] = [Idle EXCEPT !.pc = "leaving", !.how = "abandoned"]
      BY <1>1, <2>6 DEF Leave
    <3> QED BY <3>1 DEF Idle
  <2>7. ASSUME NEW c \in Call, CallMethod(q, c)
        PROVE  FALSE
    <3>1. task'[p] = [Idle EXCEPT !.pc = "journal", !.call = c]
      BY <1>1, <2>7 DEF CallMethod
    <3> QED BY <3>1 DEF Idle
  <2>8. ASSUME NEW c \in Call, NEW how, CancelMethodCall(q, c, how)
        PROVE  FALSE
    <3>1. task'[p] = [Idle EXCEPT !.pc = "cancel", !.call = c, !.how = how]
      BY <1>1, <2>8 DEF CancelMethodCall
    <3> QED BY <3>1 DEF Idle
  <2>9. ASSUME AbandonInheritedCalls(q)
        PROVE  FALSE
    <3>1. task'[p] = [Idle EXCEPT !.pc = "loop", !.how = "inherited", !.todo = Derived]
      BY <1>1, <2>9 DEF AbandonInheritedCalls
    <3> QED BY <3>1 DEF Idle
  <2> QED BY <1>2, <2>1, <2>2, <2>3, <2>5, <2>6, <2>7, <2>8, <2>9 DEF Request, TimeoutMethodCall
<1>3. ASSUME NEW q \in Task, Continue(q)
      PROVE  FALSE
  <2>1. q # p
    BY <1>3 DEF Continue, JournalStart, Redriven, JournalEnd, Dispatch, DispatchUnrouted,
                Resolve, SettleCall, SettlePending, Consume, Record, CancelJournaled,
                SettleNext, FailPendingCallsTargeting, Redeliver, At
  <2>2. \E t : Goto(q, t)
    BY <1>3 DEF Continue, JournalStart, Redriven, JournalEnd, Dispatch, DispatchUnrouted,
                Resolve, SettleCall, SettlePending, Consume, Record, CancelJournaled,
                SettleNext, FailPendingCallsTargeting, Redeliver, GotoPc, Enqueue
  <2> QED BY <1>1, <2>1, <2>2
<1>4. ASSUME queue # <<>>, \E t : Goto(Head(queue), t)
      PROVE  FALSE
  <2>1. Head(queue) \in Task /\ task[Head(queue)].pc \in Appending
    BY <1>4, HeadFacts
  <2> QED BY <1>1, <1>4, <2>1 DEF Appending
<1>5. ~Commit /\ \A stored \in BOOLEAN : ~AppendRejects(stored)
  BY <1>4 DEF Commit, AppendRejects
<1>6. ASSUME Reset
      PROVE  FALSE
  BY <1>0, <1>6 DEF Reset
<1>7. ASSUME UNCHANGED task
      PROVE  FALSE
  BY <1>7
<1> QED BY <1>2, <1>3, <1>5, <1>6, <1>7
        DEF Next, Claims, ClaimMethodCall, MarkMethodCallExecutionStarted,
            ReconcilePendingCalls, Crash, PostClone, vars, resident

\* The claim fence (claimMethodCall, deliverDoMethodCall): a result is only accepted
\* under the newest generation ever granted for its call.
THEOREM OnlyNewestAccepted == Spec => SupersededNeverAccepted
<1>1. IInv /\ JInv /\ [Next]_vars => [Accepts]_vars
  BY AcceptStep
<1> QED BY <1>1, OrderInvariance, PTL DEF Spec, SupersededNeverAccepted, Accepts

\* Every step caches only open calls.
LEMMA AddStep ==
  ASSUME IInv, JInv, NoLost, [Next]_vars
  PROVE  \A c \in row' \ row : ~HasTerminal(c)'
<1>0. TypeOK /\ Ordered
  BY DEF IInv, JInv, Fences
<1>1. ASSUME Reconcile, UNCHANGED log
      PROVE  \A c \in row' \ row : ~HasTerminal(c)'
  <2>1. \A c \in Derived : c \in Call /\ ~HasTerminal(c)
    BY <1>0, FoldIsOpen DEF Derived
  <2> QED BY <1>1, <2>1 DEF Reconcile, HasTerminal
<1>2. ASSUME NEW c \in Call, PeekOrReconcile(c), UNCHANGED log
      PROVE  \A d \in row' \ row : ~HasTerminal(d)'
  BY <1>1, <1>2 DEF PeekOrReconcile
<1>3. ASSUME NEW p \in Task, Continue(p)
      PROVE  \A c \in row' \ row : ~HasTerminal(c)'
  <2>1. CASE JournalEnd(p)
    BY <2>1 DEF JournalEnd, HasTerminal
  <2>2. CASE Resolve(p) \/ SettleCall(p) \/ CancelJournaled(p)
    BY <1>2, <2>2, JFacts DEF Resolve, SettleCall, CancelJournaled
  <2> QED BY <1>3, <2>1, <2>2
          DEF Continue, JournalStart, Redriven, Dispatch, DispatchUnrouted, SettlePending,
              Consume, DropRows, Record, SettleNext, FailPendingCallsTargeting, Redeliver,
              durable
<1>4. ASSUME NEW p \in Task, Request(p)
      PROVE  \A c \in row' \ row : ~HasTerminal(c)'
  <2>1. CASE AbandonInheritedCalls(p)
    BY <1>1, <2>1 DEF AbandonInheritedCalls
  <2> QED BY <1>4, <2>1
          DEF Request, TimeoutMethodCall, CancelMethodCall, Leave, Join, CallMethod,
              SubmitMethodResult, SubmitMethodProgress, ProviderReturns, durable
<1>5. ASSUME NEW force \in BOOLEAN, ReconcilePendingCalls(force)
      PROVE  \A c \in row' \ row : ~HasTerminal(c)'
  BY <1>1, <1>5 DEF ReconcilePendingCalls
<1> QED BY <1>3, <1>4, <1>5
        DEF Next, Commit, AppendRejects, Claims, ClaimMethodCall,
            MarkMethodCallExecutionStarted, Crash, PostClone, InitializeClonedStorage,
            vars, durable

\* No resurrection (derivePendingCalls, journalCallStart): a call whose terminal is
\* durable never enters the cache again.  Providers reached directly are taken not
\* to answer before their call's start is durable.
THEOREM SettledStaysOut ==
  ASSUME "external" \in Routes => LostCall = {}
  PROVE  Spec => NoResurrection
<1>1. IInv /\ JInv /\ [Next]_vars => [\A c \in row' \ row : ~HasTerminal(c)']_vars
  <2>1. IInv => NoLost
    BY DEF IInv, TypeOK, NoLost
  <2> QED BY <2>1, AddStep
<1> QED BY <1>1, OrderInvariance, PTL DEF Spec, NoResurrection

-----------------------------------------------------------------------------
(* The cache and the log when nothing failed *)

\* A fork whose inherited calls no handler has taken up yet.
Unabandoned == inheriting /\ \A p \in Task : task[p].how # "inherited"

\* Handler state t will settle c, a call of a provider that is not there.
Fails(t, c) ==
  \/ t.pc = "leaving"
  \/ t.pc = "journalEnd" /\ t.call = c
  \/ t.pc \in {"loop", "dispatch"} /\ c \in t.todo
  \/ /\ t.pc \in {"settle", "settlePending", "writing", "consume"}
     /\ t.how \in {"abandoned", "inherited", "unrouted"}
     /\ c = t.call \/ c \in t.todo

\* Unless something failed: an open call is cached or about to be, a cached call
\* with a terminal is about to be consumed, and a cached call whose provider is not
\* there is about to be settled.
KInv ==
  faults = 0 /\ NoLost => \A c \in Call :
    /\ HasStart(c) /\ ~HasTerminal(c) /\ c \notin row =>
         Unabandoned \/ \E p \in Task : task[p].pc = "journalEnd" /\ task[p].call = c
    /\ HasTerminal(c) /\ c \in row =>
         \E p \in Task : task[p].pc = "consume" /\ task[p].call = c
    /\ ~HasTerminal(c) /\ c \in row /\ ~joined =>
         Unabandoned \/ \E p \in Task : Fails(task[p], c)

Open(c) == HasStart(c) /\ ~HasTerminal(c)

\* One handler moves to t without an append: it takes up no inherited calls, an
\* open call it leaves uncached was so before, a cached call with a terminal too,
\* and the calls it was to settle are still to be settled by it.
LEMMA KMove ==
  ASSUME IInv, IInv', KInv, NEW p \in Task, NEW t \in TaskState, Goto(p, t),
         UNCHANGED <<log, route>>, faults' = 0 => faults = 0,
         Unabandoned => inheriting' /\ t.how # "inherited",
         \A c \in Call : Open(c) /\ c \notin row' =>
           c \notin row /\ ~(task[p].pc = "journalEnd" /\ task[p].call = c),
         \A c \in Call : HasTerminal(c) /\ c \in row' =>
           c \in row /\ ~(task[p].pc = "consume" /\ task[p].call = c),
         \A c \in Call : ~HasTerminal(c) /\ c \in row' /\ ~joined' =>
           \/ Fails(t, c)
           \/ c \in row /\ ~joined /\ ~Fails(task[p], c)
           \/ c \notin row /\ task[p].pc # "journalEnd"
  PROVE  KInv'
<1>1. /\ task' \in [Task -> TaskState] /\ task'[p] = t
      /\ \A q \in Task : q # p => task'[q] = task[q]
  BY DEF IInv, TypeOK, Goto
<1>2. \A c : HasStart(c)' = HasStart(c) /\ HasTerminal(c)' = HasTerminal(c)
  BY DEF HasStart, HasTerminal
<1>3. Unabandoned => Unabandoned'
  BY <1>1 DEF Unabandoned
<1> SUFFICES ASSUME faults' = 0, NoLost', NEW c \in Call
             PROVE  /\ HasStart(c)' /\ ~HasTerminal(c)' /\ c \notin row' =>
                         Unabandoned' \/ \E q \in Task : task'[q].pc = "journalEnd" /\ task'[q].call = c
                    /\ HasTerminal(c)' /\ c \in row' =>
                         \E q \in Task : task'[q].pc = "consume" /\ task'[q].call = c
                    /\ ~HasTerminal(c)' /\ c \in row' /\ ~joined' =>
                         Unabandoned' \/ \E q \in Task : Fails(task'[q], c)
  BY DEF KInv, Fails
<1>4. NoLost
  BY DEF NoLost
<1>5. /\ Open(c) /\ c \notin row =>
           Unabandoned \/ \E q \in Task : task[q].pc = "journalEnd" /\ task[q].call = c
      /\ HasTerminal(c) /\ c \in row =>
           \E q \in Task : task[q].pc = "consume" /\ task[q].call = c
      /\ ~HasTerminal(c) /\ c \in row /\ ~joined =>
           Unabandoned \/ \E q \in Task : Fails(task[q], c)
  BY <1>4 DEF KInv, Open
<1>6. ASSUME Open(c), c \notin row'
      PROVE  Unabandoned' \/ \E q \in Task : task'[q].pc = "journalEnd" /\ task'[q].call = c
  BY <1>1, <1>3, <1>5, <1>6
<1>7. ASSUME HasTerminal(c), c \in row'
      PROVE  \E q \in Task : task'[q].pc = "consume" /\ task'[q].call = c
  BY <1>1, <1>5, <1>7
<1>8. ASSUME ~HasTerminal(c), c \in row', ~joined'
      PROVE  Unabandoned' \/ \E q \in Task : Fails(task'[q], c)
  <2>1. CASE Fails(t, c)
    BY <1>1, <2>1
  <2>2. CASE c \in row /\ ~joined /\ ~Fails(task[p], c)
    BY <1>1, <1>3, <1>5, <1>8, <2>2
  <2>3. CASE c \notin row /\ task[p].pc # "journalEnd"
    <3>1. Open(c)
      BY <1>2, <1>8 DEF IInv, RowIsJournaled, Open
    <3>2. CASE Unabandoned
      BY <1>3, <3>2
    <3>3. ASSUME NEW q \in Task, task[q].pc = "journalEnd", task[q].call = c
          PROVE  Fails(task'[q], c)
      BY <1>1, <2>3, <3>3 DEF Fails
    <3> QED BY <1>5, <2>3, <3>1, <3>2, <3>3
  <2> QED BY <1>8, <2>1, <2>2, <2>3
<1> QED BY <1>2, <1>6, <1>7, <1>8 DEF Open

\* The same of a step that leaves the rows and the membership alone.
LEMMA KStill ==
  ASSUME IInv, IInv', KInv, NEW p \in Task, NEW t \in TaskState, Goto(p, t),
         UNCHANGED <<log, route, faults, row, joined>>,
         Unabandoned => inheriting' /\ t.how # "inherited",
         task[p].pc \notin {"journalEnd", "consume"},
         \A c \in row : ~HasTerminal(c) /\ ~joined /\ Fails(task[p], c) => Fails(t, c)
  PROVE  KInv'
  BY KMove

\* A reconcile caches the open calls.
LEMMA KFold ==
  ASSUME IInv, JInv, NoLost, NEW c \in Call
  PROVE  c \in Derived <=> Open(c)
  BY FoldIsOpen DEF IInv, JInv, Fences, Open

\* A peek caches open calls, and only those.
LEMMA PeekOpen ==
  ASSUME IInv, JInv, NoLost, NEW c \in Call, PeekOrReconcile(c)
  PROVE  /\ \A d \in Call : Open(d) /\ d \notin row' => d \notin row
         /\ \A d \in Call : HasTerminal(d) /\ d \in row' => d \in row
         /\ c \in row => UNCHANGED row
         /\ c \in row' \/ HasTerminal(c) \/ ~HasStart(c)
<1>1. CASE UNCHANGED <<row, claim, observed>> /\ (c \in row \/ HasTerminal(c))
  BY <1>1
<1>2. CASE c \notin row /\ row' = Derived
  BY <1>2, KFold DEF Open
<1> QED BY <1>1, <1>2 DEF PeekOrReconcile, Reconcile

\* A handler step after a peek of its own call.
LEMMA KPeek ==
  ASSUME IInv, IInv', JInv, KInv, NEW p \in Task, NEW t \in TaskState, Goto(p, t),
         PeekOrReconcile(CallOf(p)), UNCHANGED <<log, route, faults, joined, inheriting>>,
         t.how = "inherited" => task[p].how = "inherited",
         task[p].pc \notin {"journalEnd", "consume"},
         \A c \in row' : ~HasTerminal(c) /\ ~joined /\ Fails(task[p], c) => Fails(t, c)
  PROVE  KInv'
<1>1. CASE ~NoLost
  BY <1>1 DEF KInv, NoLost
<1>2. CASE NoLost
  <2>1. CallOf(p) \in Call
    BY JFacts
  <2>2. /\ \A d \in Call : Open(d) /\ d \notin row' => d \notin row
        /\ \A d \in Call : HasTerminal(d) /\ d \in row' => d \in row
    BY <1>2, <2>1, PeekOpen
  <2>3. Unabandoned => inheriting' /\ t.how # "inherited"
    BY DEF Unabandoned
  <2>4. \A c \in Call : ~HasTerminal(c) /\ c \in row' /\ ~joined' =>
           \/ Fails(t, c)
           \/ c \in row /\ ~joined /\ ~Fails(task[p], c)
           \/ c \notin row /\ task[p].pc # "journalEnd"
    OBVIOUS
  <2> QED BY <2>2, <2>3, <2>4, KMove
<1> QED BY <1>1, <1>2

\* A handler that ends without having had anything to settle.
LEMMA KEnd ==
  ASSUME IInv, IInv', KInv, NEW p \in Task, Goto(p, Idle),
         UNCHANGED <<log, route, faults, row, joined, inheriting>>,
         task[p].pc \notin {"journalEnd", "consume"},
         \A c \in row : ~HasTerminal(c) /\ ~joined => ~Fails(task[p], c)
  PROVE  KInv'
<1>1. PICK t \in TaskState : t = Idle /\ t.how = "none"
  BY IdleType
<1>2. Unabandoned => inheriting' /\ t.how # "inherited"
  BY <1>1 DEF Unabandoned
<1> QED BY <1>1, <1>2, KStill

\* callMethod and journalCallStart up to its append.
LEMMA KJournal ==
  ASSUME IInv, IInv', KInv, NEW p \in Task,
         JournalStart(p) \/ \E c \in Call : CallMethod(p, c)
  PROVE  KInv'
<1>1. /\ task[p].pc \in {"journal", "idle"} /\ task[p] \in TaskState
      /\ UNCHANGED <<log, route, faults, row, joined, inheriting>>
      /\ \A c \in row : ~Fails(task[p], c)
  BY Facts DEF JournalStart, CallMethod, At, durable, Fails
<1>2. \E t \in TaskState : Goto(p, t) /\ t.how \in {task[p].how, "none"}
  <2>1. ASSUME NEW pc \in {"redriven", "starting"}, Goto(p, [task[p] EXCEPT !.pc = pc])
        PROVE  \E t \in TaskState : Goto(p, t) /\ t.how = task[p].how
    <3>1. PICK t \in TaskState : t = [task[p] EXCEPT !.pc = pc]
      BY <1>1 DEF TaskState, PC
    <3> QED BY <1>1, <2>1, <3>1 DEF TaskState
  <2>2. ASSUME NEW c \in Call, CallMethod(p, c)
        PROVE  \E t \in TaskState : Goto(p, t) /\ t.how = "none"
    <3>1. PICK t \in TaskState : t = [Idle EXCEPT !.pc = "journal", !.call = c]
      BY IdleType DEF TaskState, PC
    <3> QED BY <2>2, <3>1 DEF CallMethod, Idle
  <2> QED BY <2>1, <2>2 DEF JournalStart, GotoPc, Enqueue
<1>3. PICK t \in TaskState : Goto(p, t) /\ t.how \in {task[p].how, "none"}
  BY <1>2
<1>4. Unabandoned => inheriting' /\ t.how # "inherited"
  BY <1>1, <1>3 DEF Unabandoned
<1> QED BY <1>1, <1>3, <1>4, KStill

\* journalCallStart, of a call already settled.
LEMMA KRedriven ==
  ASSUME IInv, IInv', KInv, NEW p \in Task, Redriven(p)
  PROVE  KInv'
<1>1. /\ task[p].pc = "redriven" /\ Goto(p, Idle) /\ row' = row \ {CallOf(p)}
      /\ HasTerminal(CallOf(p)) /\ UNCHANGED <<log, route, faults, joined, inheriting>>
      /\ \A c \in row : ~Fails(task[p], c)
  BY Facts DEF Redriven, At, DropRows, Sound, CallOf, Fails
<1>2. PICK t \in TaskState : t = Idle /\ t.how = "none"
  BY IdleType
<1>3. Unabandoned => inheriting' /\ t.how # "inherited"
  BY <1>1, <1>2 DEF Unabandoned
<1> QED BY <1>1, <1>2, <1>3, KMove DEF Open

\* journalCallStart, after its append.
LEMMA KJournalEnd ==
  ASSUME IInv, IInv', KInv, NEW p \in Task, JournalEnd(p)
  PROVE  KInv'
<1>1. /\ task[p].pc = "journalEnd" /\ task[p] \in TaskState /\ CallOf(p) = task[p].call
      /\ CallOf(p) \in Call
      /\ UNCHANGED <<log, route, faults, joined, inheriting>>
      /\ \A c : Fails(task[p], c) <=> c = CallOf(p)
  BY Facts DEF JournalEnd, At, CallOf, Fails
<1>2. CASE HasTerminal(CallOf(p)) /\ GotoPc(p, "redriven") /\ UNCHANGED row
  <2>1. PICK t \in TaskState : t = [task[p] EXCEPT !.pc = "redriven"]
    BY <1>1 DEF TaskState, PC
  <2>2. t.how = task[p].how /\ Goto(p, t)
    BY <1>1, <1>2, <2>1 DEF TaskState, GotoPc
  <2>3. Unabandoned => inheriting' /\ t.how # "inherited"
    BY <1>1, <2>2 DEF Unabandoned
  <2> QED BY <1>1, <1>2, <2>2, <2>3, KMove DEF Open
<1>3. CASE /\ ~HasTerminal(CallOf(p)) /\ row' = row \cup {CallOf(p)}
           /\ Goto(p, [Idle EXCEPT !.pc = "dispatch", !.todo = {CallOf(p)}])
  <2>1. PICK t \in TaskState : t = [Idle EXCEPT !.pc = "dispatch", !.todo = {CallOf(p)}]
    BY IdleType, <1>1 DEF TaskState, PC
  <2>2. t.pc = "dispatch" /\ t.how = "none" /\ t.todo = {CallOf(p)}
    BY <2>1 DEF Idle
  <2>3. Unabandoned => inheriting' /\ t.how # "inherited"
    BY <1>1, <2>2 DEF Unabandoned
  <2>4. \A c \in Call : ~HasTerminal(c) /\ c \in row' /\ ~joined' =>
           \/ Fails(t, c)
           \/ c \in row /\ ~joined /\ ~Fails(task[p], c)
           \/ c \notin row /\ task[p].pc # "journalEnd"
    BY <1>1, <1>3, <2>2 DEF Fails
  <2> QED BY <1>1, <1>3, <2>1, <2>3, <2>4, KMove DEF Open
<1> QED BY <1>2, <1>3 DEF JournalEnd

\* dispatchCallStart.
LEMMA KDispatch ==
  ASSUME IInv, IInv', KInv, NEW p \in Task, Dispatch(p) \/ DispatchUnrouted(p)
  PROVE  KInv'
<1>1. /\ TypeOK /\ task[p].pc = "dispatch" /\ task[p] \in TaskState
      /\ UNCHANGED <<log, row, joined, inheriting, route, faults>>
  BY Facts DEF Dispatch, DispatchUnrouted, At, durable
<1>2. CASE Dispatch(p)
  BY <1>1, <1>2, KEnd DEF Dispatch
<1>3. CASE task[p].todo = {} /\ Goto(p, Idle)
  BY <1>1, <1>3, KEnd DEF Fails
<1>4. ASSUME NEW c \in task[p].todo,
             Goto(p, [Await(task[p], c) EXCEPT !.pc = "settle", !.how = "unrouted",
                                               !.todo = @ \ {c}])
      PROVE  KInv'
  <2>1. c \in Call /\ Await(task[p], c) \in TaskState
    BY <1>1, AwaitType DEF TaskState
  <2>2. PICK t \in TaskState : t = [Await(task[p], c) EXCEPT !.pc = "settle",
                                      !.how = "unrouted", !.todo = @ \ {c}]
    BY <2>1 DEF TaskState, PC, Kind, TerminalKind
  <2>3. t.pc = "settle" /\ t.how = "unrouted" /\ t.call = c /\ t.todo = task[p].todo \ {c}
    BY <1>1, <2>1, <2>2 DEF TaskState, Await
  <2>4. Unabandoned => inheriting' /\ t.how # "inherited"
    BY <1>1, <2>3 DEF Unabandoned
  <2>5. \A d \in row : Fails(task[p], d) => Fails(t, d)
    BY <1>1, <2>3 DEF Fails
  <2> QED BY <1>1, <1>4, <2>2, <2>4, <2>5, KStill
<1> QED BY <1>2, <1>3, <1>4 DEF DispatchUnrouted

\* resolveSubmitterForCall.
LEMMA KResolve ==
  ASSUME IInv, IInv', JInv, KInv, NEW p \in Task, Resolve(p)
  PROVE  KInv'
<1> DEFINE c == CallOf(p)
<1>1. /\ TypeOK /\ task[p].pc = "resolve" /\ task[p] \in TaskState /\ c \in Call
      /\ PeekOrReconcile(c) /\ UNCHANGED <<log, route, faults, joined, inheriting>>
      /\ \A d : ~Fails(task[p], d)
  BY Facts DEF Resolve, At, Fails
<1>2. \E t \in TaskState : Goto(p, t) /\ t.how \in {task[p].how, "lost", "none"}
  <2>1. CASE Goto(p, [Await(task[p], c) EXCEPT !.pc = "settle"])
    <3>1. Await(task[p], c) \in TaskState /\ Await(task[p], c).how = task[p].how
      BY <1>1, AwaitType
    <3>2. PICK t \in TaskState : t = [Await(task[p], c) EXCEPT !.pc = "settle"]
      BY <3>1 DEF TaskState, PC
    <3> QED BY <2>1, <3>1, <3>2 DEF TaskState
  <2>2. CASE GotoPc(p, "settlePending")
    <3>1. PICK t \in TaskState : t = [task[p] EXCEPT !.pc = "settlePending"]
      BY <1>1 DEF TaskState, PC
    <3> QED BY <1>1, <2>2, <3>1 DEF TaskState, GotoPc
  <2>3. CASE Goto(p, [task[p] EXCEPT !.pc = "writing", !.how = "lost"])
    <3>1. PICK t \in TaskState : t = [task[p] EXCEPT !.pc = "writing", !.how = "lost"]
      BY <1>1 DEF TaskState, PC, Kind, TerminalKind
    <3> QED BY <1>1, <2>3, <3>1 DEF TaskState
  <2>4. CASE Goto(p, Idle)
    BY <2>4, IdleType
  <2> QED BY <2>1, <2>2, <2>3, <2>4 DEF Resolve, Enqueue
<1> QED BY <1>1, <1>2, KPeek

\* A handler that goes on after a settlement still has its other calls to settle.
LEMMA ResumedFails ==
  ASSUME IInv, NEW p \in Task
  PROVE  \E t \in TaskState :
           /\ t = Resumed(p) /\ (t.how = "inherited" => task[p].how = "inherited")
           /\ \A d : /\ task[p].how \in {"abandoned", "inherited", "unrouted"}
                     /\ d \in task[p].todo
                     => Fails(t, d)
<1>1. task[p] \in TaskState
  BY Facts
<1>2. CASE task[p].how \in {"abandoned", "inherited"}
  <2>1. PICK t \in TaskState : t = [task[p] EXCEPT !.pc = "loop"]
    BY <1>1 DEF TaskState, PC
  <2>2. t = Resumed(p) /\ t.pc = "loop" /\ t.how = task[p].how /\ t.todo = task[p].todo
    BY <1>1, <1>2, <2>1 DEF Resumed, TaskState
  <2> QED BY <2>2 DEF Fails
<1>3. CASE task[p].how = "unrouted"
  <2>1. PICK t \in TaskState : t = [task[p] EXCEPT !.pc = "dispatch"]
    BY <1>1 DEF TaskState, PC
  <2>2. t = Resumed(p) /\ t.pc = "dispatch" /\ t.how = task[p].how /\ t.todo = task[p].todo
    BY <1>1, <1>3, <2>1 DEF Resumed, TaskState
  <2> QED BY <2>2 DEF Fails
<1>4. CASE task[p].how \notin {"abandoned", "inherited", "unrouted"}
  BY <1>4, IdleType DEF Resumed
<1> QED BY <1>2, <1>3, <1>4

\* settleCall.
LEMMA KSettleCall ==
  ASSUME IInv, IInv', JInv, KInv, NEW p \in Task, SettleCall(p)
  PROVE  KInv'
<1> DEFINE c == CallOf(p)
<1>1. /\ task[p].pc = "settle" /\ task[p] \in TaskState /\ c = task[p].call
      /\ PeekOrReconcile(c) /\ UNCHANGED <<log, route, faults, joined, inheriting>>
  BY JFacts DEF SettleCall, At
<1>2. CASE Goto(p, [task[p] EXCEPT !.pc = "settlePending"])
  <2>1. PICK t \in TaskState : t = [task[p] EXCEPT !.pc = "settlePending"]
    BY <1>1 DEF TaskState, PC
  <2>2. /\ t.pc = "settlePending" /\ t.how = task[p].how /\ t.call = task[p].call
        /\ t.todo = task[p].todo
    BY <1>1, <2>1 DEF TaskState
  <2>3. \A d : Fails(task[p], d) => Fails(t, d)
    BY <1>1, <2>2 DEF Fails
  <2> QED BY <1>1, <1>2, <2>1, <2>2, <2>3, KPeek
<1>3. CASE c \notin row' /\ Goto(p, Resumed(p))
  <2>1. PICK t \in TaskState :
           /\ t = Resumed(p) /\ (t.how = "inherited" => task[p].how = "inherited")
           /\ \A d : /\ task[p].how \in {"abandoned", "inherited", "unrouted"}
                     /\ d \in task[p].todo
                     => Fails(t, d)
    BY ResumedFails
  <2>2. \A d \in row' : Fails(task[p], d) => Fails(t, d)
    BY <1>1, <1>3, <2>1 DEF Fails
  <2> QED BY <1>1, <1>3, <2>1, <2>2, KPeek
<1> QED BY <1>2, <1>3 DEF SettleCall

\* settlePendingCall, up to its append.
LEMMA KSettlePending ==
  ASSUME IInv, IInv', JInv, KInv, NEW p \in Task, SettlePending(p)
  PROVE  KInv'
<1> DEFINE c == CallOf(p)
<1>1. /\ TypeOK /\ task[p].pc = "settlePending" /\ task[p] \in TaskState
      /\ c = task[p].call /\ HasStart(c)
      /\ UNCHANGED <<log, row, joined, inheriting, route, faults>>
  BY JFacts DEF SettlePending, At, durable, Clean
<1>2. ASSUME NEW t \in TaskState, Goto(p, t), t.pc \in {"writing", "consume"},
             t.how = task[p].how, t.call = c, t.todo = task[p].todo
      PROVE  KInv'
  <2>1. Unabandoned => inheriting' /\ t.how # "inherited"
    BY <1>1, <1>2 DEF Unabandoned
  <2>2. \A d : Fails(task[p], d) => Fails(t, d)
    BY <1>1, <1>2 DEF Fails
  <2> QED BY <1>1, <1>2, <2>1, <2>2, KStill
<1>3. CASE Goto(p, [task[p] EXCEPT !.pc = "writing"])
  <2>1. PICK t \in TaskState : t = [task[p] EXCEPT !.pc = "writing"]
    BY <1>1 DEF TaskState, PC
  <2>2. /\ t.pc = "writing" /\ t.how = task[p].how /\ t.call = c /\ t.todo = task[p].todo
    BY <1>1, <2>1 DEF TaskState
  <2> QED BY <1>2, <1>3, <2>1, <2>2
<1>4. CASE Goto(p, [task[p] EXCEPT !.pc = "consume",
                      !.seq = PositionOf([call |-> c, kind |-> task[p].how])])
  <2>1. PositionOf([call |-> c, kind |-> task[p].how]) \in Nat
    BY <1>1, PositionType
  <2>2. PICK t \in TaskState :
          t = [task[p] EXCEPT !.pc = "consume",
                 !.seq = PositionOf([call |-> c, kind |-> task[p].how])]
    BY <2>1, <1>1 DEF TaskState, PC
  <2>3. /\ t.pc = "consume" /\ t.how = task[p].how /\ t.call = c /\ t.todo = task[p].todo
    BY <1>1, <2>2 DEF TaskState
  <2> QED BY <1>2, <1>4, <2>2, <2>3
<1> QED BY <1>1, <1>3, <1>4 DEF SettlePending, Enqueue

\* settlePendingCall, after its append.
LEMMA KConsume ==
  ASSUME IInv, IInv', KInv, NEW p \in Task, Consume(p)
  PROVE  KInv'
<1> DEFINE c == CallOf(p)
<1>1. /\ task[p].pc = "consume" /\ task[p] \in TaskState /\ c = task[p].call
      /\ Goto(p, Resumed(p)) /\ row' = row \ {c} /\ HasTerminal(c)
      /\ UNCHANGED <<log, route, faults, joined, inheriting>>
  BY Facts DEF Consume, At, DropRows, Sound, CallOf
<1>2. PICK t \in TaskState :
           /\ t = Resumed(p) /\ (t.how = "inherited" => task[p].how = "inherited")
           /\ \A d : /\ task[p].how \in {"abandoned", "inherited", "unrouted"}
                     /\ d \in task[p].todo
                     => Fails(t, d)
  BY ResumedFails
<1>3. Unabandoned => inheriting' /\ t.how # "inherited"
  BY <1>1, <1>2 DEF Unabandoned
<1>4. \A d \in row' : Fails(task[p], d) => Fails(t, d)
  BY <1>1, <1>2 DEF Fails
<1>5. \A d \in Call : Open(d) /\ d \notin row' => d \notin row
  BY <1>1 DEF Open
<1> QED BY <1>1, <1>2, <1>3, <1>4, <1>5, KMove

\* settleMissingCall, after its append.
LEMMA KRecord ==
  ASSUME IInv, IInv', KInv, NEW p \in Task, Record(p)
  PROVE  KInv'
<1>1. task[p].pc = "record" /\ \A c \in row : ~Fails(task[p], c)
  BY DEF Record, At, Fails
<1> QED BY <1>1, KEnd DEF Record

\* cancelJournaledMethodCall.
LEMMA KCancelJournaled ==
  ASSUME IInv, IInv', JInv, KInv, NEW p \in Task, CancelJournaled(p)
  PROVE  KInv'
<1> DEFINE c == CallOf(p)
<1>1. /\ TypeOK /\ task[p].pc = "cancel" /\ task[p] \in TaskState
      /\ PeekOrReconcile(c) /\ UNCHANGED <<log, route, faults, joined, inheriting>>
      /\ \A d : ~Fails(task[p], d)
  BY Facts DEF CancelJournaled, At, Fails
<1>2. \E t \in TaskState : Goto(p, t) /\ t.how \in {task[p].how, "cancelled", "none"}
  <2>1. CASE Goto(p, [task[p] EXCEPT !.pc = "settlePending", !.how = "cancelled"])
    <3>1. PICK t \in TaskState : t = [task[p] EXCEPT !.pc = "settlePending", !.how = "cancelled"]
      BY <1>1 DEF TaskState, PC, Kind, TerminalKind
    <3> QED BY <1>1, <2>1, <3>1 DEF TaskState
  <2>2. CASE Goto(p, [task[p] EXCEPT !.pc = "writing"])
    <3>1. PICK t \in TaskState : t = [task[p] EXCEPT !.pc = "writing"]
      BY <1>1 DEF TaskState, PC
    <3> QED BY <1>1, <2>2, <3>1 DEF TaskState
  <2>3. CASE Goto(p, Idle)
    BY <2>3, IdleType
  <2> QED BY <2>1, <2>2, <2>3 DEF CancelJournaled, Enqueue
<1> QED BY <1>1, <1>2, KPeek

\* One turn of a settlement loop.
LEMMA KSettleNext ==
  ASSUME IInv, IInv', KInv, NEW p \in Task, SettleNext(p)
  PROVE  KInv'
<1>1. /\ TypeOK /\ task[p].pc = "loop" /\ task[p] \in TaskState
      /\ task[p].how \in {"abandoned", "inherited"}
      /\ UNCHANGED <<log, row, joined, route, faults>>
  BY Facts DEF SettleNext, At, Sound
<1>2. CASE /\ task[p].todo = {} /\ inheriting' = (inheriting /\ task[p].how # "inherited")
           /\ Goto(p, Idle)
  <2>1. PICK t \in TaskState : t = Idle /\ t.how = "none"
    BY IdleType
  <2>2. Unabandoned => inheriting' /\ t.how # "inherited"
    BY <1>2, <2>1 DEF Unabandoned
  <2>3. \A c : ~Fails(task[p], c)
    BY <1>1, <1>2 DEF Fails
  <2> QED BY <1>1, <1>2, <2>1, <2>2, <2>3, KStill
<1>3. ASSUME NEW c \in task[p].todo, UNCHANGED inheriting,
             Goto(p, [Await(task[p], c) EXCEPT !.pc = "settle", !.todo = @ \ {c}])
      PROVE  KInv'
  <2>1. c \in Call /\ Await(task[p], c) \in TaskState
    BY <1>1, AwaitType DEF TaskState
  <2>2. PICK t \in TaskState : t = [Await(task[p], c) EXCEPT !.pc = "settle", !.todo = @ \ {c}]
    BY <2>1 DEF TaskState, PC
  <2>3. t.pc = "settle" /\ t.how = task[p].how /\ t.call = c /\ t.todo = task[p].todo \ {c}
    BY <1>1, <2>1, <2>2 DEF TaskState, Await
  <2>4. Unabandoned => inheriting' /\ t.how # "inherited"
    BY <1>3, <2>3 DEF Unabandoned
  <2>5. \A d \in row : Fails(task[p], d) => Fails(t, d)
    BY <1>1, <2>3 DEF Fails
  <2> QED BY <1>1, <1>3, <2>2, <2>4, <2>5, KStill
<1> QED BY <1>2, <1>3 DEF SettleNext

\* failPendingCallsTargeting takes up every row.
LEMMA KFailPendingCallsTargeting ==
  ASSUME IInv, IInv', KInv, NEW p \in Task, FailPendingCallsTargeting(p)
  PROVE  KInv'
<1>1. /\ TypeOK /\ task[p].pc = "leaving" /\ task[p] \in TaskState
      /\ Goto(p, [task[p] EXCEPT !.pc = "loop", !.todo = row])
      /\ UNCHANGED <<log, row, joined, inheriting, route, faults>>
  BY Facts DEF FailPendingCallsTargeting, At, durable
<1>2. PICK t \in TaskState : t = [task[p] EXCEPT !.pc = "loop", !.todo = row]
  <2>1. "loop" \in PC /\ row \in SUBSET Call
    BY <1>1 DEF PC, TypeOK
  <2> QED BY <2>1, <1>1 DEF TaskState
<1>3. t.pc = "loop" /\ t.how = task[p].how /\ t.todo = row
  BY <1>1, <1>2 DEF TaskState
<1>4. Unabandoned => inheriting' /\ t.how # "inherited"
  BY <1>1, <1>3 DEF Unabandoned
<1>5. \A d \in row : Fails(t, d)
  BY <1>3 DEF Fails
<1> QED BY <1>1, <1>2, <1>4, <1>5, KStill

\* redeliverPendingCallsTo prunes the rows with a terminal.
LEMMA KRedeliver ==
  ASSUME IInv, IInv', KInv, NEW p \in Task, Redeliver(p)
  PROVE  KInv'
<1>1. /\ task[p].pc = "redeliver" /\ row' = row \ {c \in row : HasTerminal(c)}
      /\ Goto(p, Idle) /\ UNCHANGED <<log, joined, inheriting, route, faults>>
      /\ \A c : ~Fails(task[p], c)
  BY DEF Redeliver, At, Fails
<1>2. PICK t \in TaskState : t = Idle /\ t.how = "none"
  BY IdleType
<1>3. Unabandoned => inheriting' /\ t.how # "inherited"
  BY <1>1, <1>2 DEF Unabandoned
<1> QED BY <1>1, <1>2, <1>3, KMove DEF Open

\* The publication queue commits its head.
LEMMA KCommit ==
  ASSUME IInv, IInv', JInv, KInv, Commit
  PROVE  KInv'
<1>0. PICK p \in Task : p = Head(queue)
  BY HeadFacts DEF Commit
<1>1. /\ queue # <<>> /\ log' = Appended(EventOf(p))
      /\ Goto(p, [task[p] EXCEPT !.pc = AfterAppend(p), !.seq = PositionOf(EventOf(p))])
      /\ UNCHANGED <<row, claim, joined, inheriting, route, deliveries, faults, granted>>
  BY <1>0 DEF Commit
<1>2. /\ TypeOK /\ RowIsJournaled /\ task[p] \in TaskState /\ CallOf(p) = task[p].call
      /\ Clean(task[p]) /\ Sound(task[p]) /\ CallOf(p) \in Call
  BY JFacts DEF IInv
<1>3. task[p].pc \in {"starting", "writing"} /\ EventOf(p) \in Event
  BY <1>0, <1>1, AppendKeeps
<1>4. /\ AfterAppend(p) \in {"journalEnd", "record", "consume"}
      /\ AfterAppend(p) = "journalEnd" <=> task[p].pc = "starting"
      /\ AfterAppend(p) = "record" => task[p].how \in {"lost", "notAdmitted", "output"}
  BY <1>3 DEF AfterAppend, At
<1>5. PICK t \in TaskState :
        t = [task[p] EXCEPT !.pc = AfterAppend(p), !.seq = PositionOf(EventOf(p))]
  <2>1. PositionOf(EventOf(p)) \in Nat /\ AfterAppend(p) \in PC
    BY <1>2, <1>4, PositionType DEF PC
  <2> QED BY <2>1, <1>2 DEF TaskState
<1>6. /\ t.pc = AfterAppend(p) /\ t.how = task[p].how /\ t.call = task[p].call
      /\ t.todo = task[p].todo /\ Goto(p, t)
  BY <1>1, <1>2, <1>5 DEF TaskState
<1>7. /\ task'[p] = t /\ \A q \in Task : q # p => task'[q] = task[q]
  BY <1>2, <1>6 DEF TypeOK, Goto
<1>8. Unabandoned => Unabandoned'
  BY <1>1, <1>6, <1>7 DEF Unabandoned
<1>9. PICK e \in Event : /\ e = EventOf(p) /\ e.call = task[p].call
                         /\ task[p].pc = "starting" => e.kind = "started"
                         /\ task[p].pc = "writing" => e.kind = task[p].how /\ e.kind # "started"
  BY <1>2, <1>3 DEF EventOf, CallOf, Sound, Settling, TerminalKind
<1>10. \A c \in Call : /\ HasStart(c)' <=> HasStart(c) \/ IsStart(e, c)
                       /\ HasTerminal(c)' <=> HasTerminal(c) \/ IsTerminal(e, c)
  BY <1>1, <1>2, <1>9, AppendedIs
<1> SUFFICES ASSUME faults' = 0, NoLost', NEW c \in Call
             PROVE  /\ HasStart(c)' /\ ~HasTerminal(c)' /\ c \notin row' =>
                         Unabandoned' \/ \E q \in Task : task'[q].pc = "journalEnd" /\ task'[q].call = c
                    /\ HasTerminal(c)' /\ c \in row' =>
                         \E q \in Task : task'[q].pc = "consume" /\ task'[q].call = c
                    /\ ~HasTerminal(c)' /\ c \in row' /\ ~joined' =>
                         Unabandoned' \/ \E q \in Task : Fails(task'[q], c)
  BY DEF KInv, Fails
<1>11. NoLost /\ faults = 0
  BY <1>1 DEF NoLost
<1>12. /\ Open(c) /\ c \notin row =>
            Unabandoned \/ \E q \in Task : task[q].pc = "journalEnd" /\ task[q].call = c
       /\ HasTerminal(c) /\ c \in row =>
            \E q \in Task : task[q].pc = "consume" /\ task[q].call = c
       /\ ~HasTerminal(c) /\ c \in row /\ ~joined =>
            Unabandoned \/ \E q \in Task : Fails(task[q], c)
  BY <1>11 DEF KInv, Open
<1>13. IsStart(e, c) => t.pc = "journalEnd" /\ t.call = c
  BY <1>3, <1>4, <1>6, <1>9 DEF IsStart
<1>14. IsTerminal(e, c) /\ c \in row => t.pc = "consume" /\ t.call = c
  <2> SUFFICES ASSUME IsTerminal(e, c), c \in row
               PROVE  t.pc = "consume" /\ t.call = c
    OBVIOUS
  <2>1. task[p].pc = "writing" /\ task[p].how \in TerminalKind /\ task[p].call = c
    BY <1>3, <1>9 DEF IsTerminal, TerminalKind
  <2>2. task[p].how \notin {"lost", "notAdmitted", "output"}
    BY <1>2, <1>11, <2>1 DEF Clean, RowIsJournaled, TerminalKind
  <2> QED BY <1>4, <1>6, <2>1, <2>2
<1>15. Fails(task[p], c) => Fails(t, c)
  BY <1>3, <1>4, <1>6 DEF Fails
<1>16. ASSUME Open(c)', c \notin row'
       PROVE  Unabandoned' \/ \E q \in Task : task'[q].pc = "journalEnd" /\ task'[q].call = c
  <2>1. CASE IsStart(e, c)
    BY <1>7, <1>13, <2>1
  <2>2. CASE ~IsStart(e, c)
    <3>1. Open(c) /\ c \notin row
      BY <1>1, <1>10, <1>16, <2>2 DEF Open
    <3> QED BY <1>3, <1>7, <1>8, <1>12, <3>1
  <2> QED BY <2>1, <2>2
<1>17. ASSUME HasTerminal(c)', c \in row'
       PROVE  \E q \in Task : task'[q].pc = "consume" /\ task'[q].call = c
  <2>1. CASE IsTerminal(e, c)
    BY <1>1, <1>7, <1>14, <1>17, <2>1
  <2>2. CASE HasTerminal(c)
    BY <1>1, <1>3, <1>7, <1>12, <1>17, <2>2
  <2> QED BY <1>10, <1>17, <2>1, <2>2
<1>18. ASSUME ~HasTerminal(c)', c \in row', ~joined'
       PROVE  Unabandoned' \/ \E q \in Task : Fails(task'[q], c)
  <2>1. ~HasTerminal(c) /\ c \in row /\ ~joined
    BY <1>1, <1>10, <1>18
  <2>2. ASSUME NEW q \in Task, Fails(task[q], c)
        PROVE  Fails(task'[q], c)
    BY <1>7, <1>15, <2>2
  <2> QED BY <1>8, <1>12, <2>1, <2>2
<1> QED BY <1>16, <1>17, <1>18 DEF Open

\* A step that fails, and a new activation, promise nothing of the cache.
LEMMA KFault ==
  ASSUME IInv, Crash \/ \E stored \in BOOLEAN : AppendRejects(stored)
  PROVE  KInv'
<1>1. faults \in Nat /\ faults' = faults + 1
  BY BoundAssumption DEF IInv, TypeOK, Crash, AppendRejects
<1> QED BY <1>1 DEF KInv

\* A fork starts with an empty cache and inherits what its log leaves open.
LEMMA KPostClone ==
  ASSUME NEW n \in 0 .. Len(log), PostClone(n)
  PROVE  KInv'
<1>1. Unabandoned'
  BY ResetFacts DEF PostClone, Unabandoned
<1> QED BY <1>1 DEF KInv, PostClone, InitializeClonedStorage

\* postClone settles what the fork inherited.
LEMMA KAbandonInheritedCalls ==
  ASSUME IInv, IInv', JInv, KInv, NEW p \in Task, AbandonInheritedCalls(p)
  PROVE  KInv'
<1>1. /\ TypeOK /\ task[p].pc = "idle" /\ row' = Derived
      /\ Goto(p, [Idle EXCEPT !.pc = "loop", !.how = "inherited", !.todo = Derived])
      /\ UNCHANGED <<log, route, faults>>
  BY DEF AbandonInheritedCalls, At, Reconcile, IInv
<1>2. PICK t \in TaskState :
        t = [Idle EXCEPT !.pc = "loop", !.how = "inherited", !.todo = Derived]
  <2>1. "loop" \in PC /\ "inherited" \in Kind /\ Derived \in SUBSET Call
    BY DerivedFacts DEF PC, Kind, TerminalKind
  <2> QED BY <2>1, IdleType DEF TaskState
<1>3. t.pc = "loop" /\ t.todo = Derived
  BY <1>2 DEF Idle
<1>4. task'[p] = t
  BY <1>1, <1>2 DEF Goto, TypeOK
<1>5. \A c \in row' : Fails(task'[p], c)
  BY <1>1, <1>3, <1>4 DEF Fails
<1> SUFFICES ASSUME faults' = 0, NoLost', NEW c \in Call
             PROVE  /\ HasStart(c)' /\ ~HasTerminal(c)' => c \in row'
                    /\ HasTerminal(c)' => c \notin row'
                    /\ c \in row' => \E q \in Task : Fails(task'[q], c)
  BY DEF KInv, Fails
<1>6. NoLost
  BY <1>1 DEF NoLost
<1>7. c \in row' <=> HasStart(c)' /\ ~HasTerminal(c)'
  BY <1>1, <1>6, KFold DEF Open, HasStart, HasTerminal
<1> QED BY <1>5, <1>7

\* A request that arrives and leaves the rows and the membership alone.
LEMMA KArrive ==
  ASSUME IInv, IInv', KInv, NEW p \in Task, task[p].pc = "idle", NEW t, Goto(p, t),
         t.how # "inherited", UNCHANGED <<log, route, faults, row, joined, inheriting>>
  PROVE  KInv'
<1>1. task'[p] = t /\ t \in TaskState
  BY DEF IInv, TypeOK, Goto
<1>2. Unabandoned => inheriting' /\ t.how # "inherited"
  BY DEF Unabandoned
<1>3. \A c : ~Fails(task[p], c)
  BY DEF Fails
<1> QED BY <1>1, <1>2, <1>3, KStill

\* Results, progress, answers and cancellations arrive.
LEMMA KRequest ==
  ASSUME IInv, IInv', KInv, NEW p \in Task, NEW c \in Call,
         \/ \E n \in 0 .. MaxClaim : \/ SubmitMethodResult(p, c, n)
                                    \/ SubmitMethodProgress(p, c, n)
                                    \/ ProviderReturns(p, c, n)
         \/ \E how \in {"cancelled", "notAdmitted"} : CancelMethodCall(p, c, how)
  PROVE  KInv'
<1>1. PICK u \in TaskState : u = Await(Idle, c)
  BY Facts, IdleType, AwaitType
<1>2. PICK i \in TaskState : i = Idle /\ i.how = "none"
  BY IdleType
<1>3. ASSUME NEW n \in 0 .. MaxClaim, SubmitMethodResult(p, c, n)
      PROVE  KInv'
  <2>1. PICK b : Goto(p, [u EXCEPT !.pc = "resolve", !.how = "result", !.gen = n,
                                   !.behindStart = b])
    BY <1>1, <1>3 DEF SubmitMethodResult
  <2>2. [u EXCEPT !.pc = "resolve", !.how = "result", !.gen = n, !.behindStart = b].how = "result"
    BY DEF TaskState
  <2> QED BY <1>3, <2>1, <2>2, KArrive DEF SubmitMethodResult, At, durable
<1>4. ASSUME NEW n \in 0 .. MaxClaim, SubmitMethodProgress(p, c, n)
      PROVE  KInv'
  <2>1. Goto(p, [u EXCEPT !.pc = "resolve", !.how = "output", !.gen = n])
    BY <1>1, <1>4 DEF SubmitMethodProgress
  <2>2. [u EXCEPT !.pc = "resolve", !.how = "output", !.gen = n].how = "output"
    BY DEF TaskState
  <2> QED BY <1>4, <2>1, <2>2, KArrive DEF SubmitMethodProgress, At, durable
<1>5. ASSUME NEW n \in 0 .. MaxClaim, ProviderReturns(p, c, n)
      PROVE  KInv'
  <2>1. [u EXCEPT !.pc = "settle", !.how = "result", !.gen = n].how = "result"
    BY DEF TaskState
  <2>2. \/ Goto(p, [u EXCEPT !.pc = "settle", !.how = "result", !.gen = n])
        \/ Goto(p, i)
    BY <1>1, <1>2, <1>5 DEF ProviderReturns
  <2> QED BY <1>2, <1>5, <2>1, <2>2, KArrive DEF ProviderReturns, At, durable
<1>6. ASSUME NEW how \in {"cancelled", "notAdmitted"}, CancelMethodCall(p, c, how)
      PROVE  KInv'
  <2>1. Goto(p, [i EXCEPT !.pc = "cancel", !.call = c, !.how = how])
    BY <1>2, <1>6 DEF CancelMethodCall
  <2>2. [i EXCEPT !.pc = "cancel", !.call = c, !.how = how].how = how
    BY DEF TaskState
  <2> QED BY <1>6, <2>1, <2>2, KArrive DEF CancelMethodCall, At, durable
<1> QED BY <1>3, <1>4, <1>5, <1>6

\* The provider leaves: every cached call is about to be settled.
LEMMA KLeave ==
  ASSUME IInv, IInv', KInv, NEW p \in Task, Leave(p)
  PROVE  KInv'
<1>1. /\ task[p].pc = "idle" /\ UNCHANGED <<log, route, faults, row, inheriting>>
      /\ Goto(p, [Idle EXCEPT !.pc = "leaving", !.how = "abandoned"])
  BY DEF Leave, At
<1>2. PICK t : t = [Idle EXCEPT !.pc = "leaving", !.how = "abandoned"]
  OBVIOUS
<1>3. t.pc = "leaving" /\ t.how = "abandoned" /\ Goto(p, t)
  BY <1>1, <1>2 DEF Idle
<1>4. t \in TaskState
  BY <1>3 DEF IInv, TypeOK, Goto
<1>5. \A c : Fails(t, c)
  BY <1>3 DEF Fails
<1>6. Unabandoned => inheriting' /\ t.how # "inherited"
  BY <1>1, <1>3 DEF Unabandoned
<1> QED BY <1>1, <1>3, <1>4, <1>5, <1>6, KMove DEF Open, Leave, At

\* The provider joins.
LEMMA KJoin ==
  ASSUME IInv, IInv', KInv, NEW p \in Task, Join(p)
  PROVE  KInv'
<1>1. /\ task[p].pc = "idle" /\ joined' = TRUE /\ task[p] \in TaskState
      /\ Goto(p, [task[p] EXCEPT !.pc = "redeliver"])
      /\ UNCHANGED <<log, route, faults, row, inheriting>>
  BY Facts DEF Join, At, GotoPc
<1>2. PICK t \in TaskState : t = [task[p] EXCEPT !.pc = "redeliver"]
  BY <1>1 DEF TaskState, PC
<1>3. t.how = task[p].how
  BY <1>1, <1>2 DEF TaskState
<1>4. Unabandoned => inheriting' /\ t.how # "inherited"
  BY <1>1, <1>3 DEF Unabandoned
<1> QED BY <1>1, <1>2, <1>4, KMove DEF Open

\* Steps that move no handler and leave the rows alone.
LEMMA KQuiet ==
  ASSUME KInv, UNCHANGED <<log, route, faults, row, joined, inheriting, task>>
  PROVE  KInv'
  BY DEF KInv, Unabandoned, Fails, HasStart, HasTerminal, NoLost

\* The convergence sweep.
LEMMA KReconcilePendingCalls ==
  ASSUME IInv, JInv, KInv, NEW force \in BOOLEAN, ReconcilePendingCalls(force)
  PROVE  KInv'
<1>1. /\ row' = Derived /\ RowIsJournaled
      /\ UNCHANGED <<log, route, faults, joined, inheriting, task>>
  BY DEF ReconcilePendingCalls, Reconcile, resident, IInv
<1> SUFFICES ASSUME faults' = 0, NoLost', NEW c \in Call
             PROVE  /\ HasStart(c)' /\ ~HasTerminal(c)' => c \in row'
                    /\ HasTerminal(c)' => c \notin row'
                    /\ ~HasTerminal(c)' /\ c \in row' /\ ~joined' =>
                         Unabandoned' \/ \E q \in Task : Fails(task'[q], c)
  BY DEF KInv, Fails
<1>2. NoLost /\ faults = 0
  BY <1>1 DEF NoLost
<1>3. c \in row' <=> Open(c)
  BY <1>1, <1>2, KFold
<1>4. HasStart(c)' = HasStart(c) /\ HasTerminal(c)' = HasTerminal(c)
  BY <1>1 DEF HasStart, HasTerminal
<1>5. ASSUME Open(c), ~joined
      PROVE  Unabandoned \/ \E q \in Task : Fails(task[q], c)
  <2>1. CASE c \in row
    BY <1>2, <1>5, <2>1 DEF KInv, Open
  <2>2. CASE c \notin row
    <3>1. Unabandoned \/ \E q \in Task : task[q].pc = "journalEnd" /\ task[q].call = c
      BY <1>2, <1>5, <2>2 DEF KInv, Open
    <3> QED BY <3>1 DEF Fails
  <2> QED BY <2>1, <2>2
<1> QED BY <1>1, <1>3, <1>4, <1>5 DEF Open, Unabandoned, Fails

\* Every step keeps the third invariant.
LEMMA NextKInv == IInv /\ IInv' /\ JInv /\ KInv /\ [Next]_vars => KInv'
<1> SUFFICES ASSUME IInv, IInv', JInv, KInv, [Next]_vars PROVE KInv'
  OBVIOUS
<1>1. ASSUME NEW p \in Task, Continue(p)
      PROVE  KInv'
  BY <1>1, KJournal, KRedriven, KJournalEnd, KDispatch, KResolve, KSettleCall,
     KSettlePending, KConsume, KRecord, KCancelJournaled, KSettleNext,
     KFailPendingCallsTargeting, KRedeliver DEF Continue
<1>2. ASSUME NEW p \in Task, Request(p)
      PROVE  KInv'
  <2>1. ASSUME NEW c \in Call, TimeoutMethodCall(p, c)
        PROVE  KInv'
    BY <2>1, KRequest DEF TimeoutMethodCall
  <2> QED BY <1>2, <2>1, KAbandonInheritedCalls, KLeave, KJoin, KJournal, KRequest DEF Request
<1>3. CASE Claims
  BY <1>3, KQuiet DEF Claims, ClaimMethodCall, MarkMethodCallExecutionStarted, resident
<1>4. CASE UNCHANGED vars
  BY <1>4, KQuiet DEF vars, durable, resident
<1> QED BY <1>1, <1>2, <1>3, <1>4, KCommit, KFault, KReconcilePendingCalls, KPostClone DEF Next

\* A new channel.
LEMMA KInit == Init => KInv
  BY DEF Init, KInv, HasStart, HasTerminal

\* At rest nothing is about to be cached, consumed or settled.
LEMMA RestIsExact ==
  ASSUME IInv, KInv, NoLost
  PROVE  CacheExactAtRest
<1> SUFFICES ASSUME AllIdle, faults = 0, ~inheriting
             PROVE  row = Pending /\ (joined \/ row = {})
  BY DEF CacheExactAtRest
<1>1. \A p \in Task : task[p].pc = "idle"
  BY DEF AllIdle, At
<1>2. /\ row \subseteq Call /\ RowIsJournaled /\ ~Unabandoned
      /\ \A p \in Task : \A c : ~Fails(task[p], c)
  BY <1>1 DEF IInv, TypeOK, Unabandoned, Fails
<1>3. \A c \in Call : c \in row <=> HasStart(c) /\ ~HasTerminal(c)
  BY <1>1, <1>2 DEF KInv, RowIsJournaled
<1>4. \A c \in row : joined
  BY <1>2, <1>3 DEF KInv
<1> QED BY <1>2, <1>3, <1>4 DEF Pending

\* calls.ts: whenever no handler runs and nothing failed, the cache is exactly the
\* set of calls the log leaves open, and none of them targets a provider that left.
\* Providers reached directly are taken not to answer before their call's start is
\* durable.
THEOREM RestsExact ==
  ASSUME "external" \in Routes => LostCall = {}
  PROVE  Spec => []CacheExactAtRest
<1>1. IInv => NoLost
  BY DEF IInv, TypeOK, NoLost
<1>2. IInv /\ KInv => CacheExactAtRest
  BY <1>1, RestIsExact
<1> QED BY <1>2, InitIInv, NextIInv, JInit, NextJInv, KInit, NextKInv, PTL DEF Spec
=============================================================================
