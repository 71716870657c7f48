------------------------------- MODULE ForkSaga --------------------------------
(***************************************************************************)
(* The durable fork operation of a channel: fork, forkOnce, runForkOp,     *)
(* runForkOpOnce and rollbackForkOp of workers/pubsub-channel/             *)
(* channel-do.ts, the reconciliation of interrupted operations, and the    *)
(* retirement that aborts them.                                            *)
(*                                                                         *)
(* Each operation owns a row of fork_ops.  A driver walks it through its   *)
(* phases: it exports the agents' knowledge, has the host clone the        *)
(* context, initializes the child channel and agents, seeds the child and  *)
(* announces it in the parent.  Remote calls may fail before or after      *)
(* their effect; an eviction ends a driver between any two steps.          *)
(***************************************************************************)
EXTENDS Naturals, FiniteSets, Sequences, SequencesExt

CONSTANTS
  Op,          \* fork operations, named by their operationId
  Agent,       \* agents that may be members of the parent
  Seeded,      \* the operations whose request carries a seed
  Caller,      \* calls of fork
  Driver,      \* slots for runForkOpOnce executions
  MaxCrash,    \* bound: evictions
  MaxChange,   \* bound: changes of the parent's membership
  MaxRetire,   \* bound: retirements that are prepared
  NoOp, Unselected

ASSUME OpAssumption == NoOp \notin Op /\ Seeded \subseteq Op
ASSUME UnselectedAssumption == \A S \in SUBSET Agent : S # Unselected
ASSUME BoundAssumption == MaxCrash \in Nat /\ MaxChange \in Nat /\ MaxRetire \in Nat

VARIABLES
  phase,       \* fork_ops.phase, "none" without a row
  recorded,    \* whether fork_ops.forked_context_id is set
  roster,      \* the selected agents of the row
  exported,    \* those whose knowledge is in the row
  members,     \* the parent's agents of the moment
  context,     \* the host's view of the cloned context
  child,       \* what the child's side has: initialized, imports, seeds
  announced,   \* channel.forked events of the operation in the parent's log
  caller, driver,
  aborted,     \* forkLifetime
  crashes, changes, retires

row == <<phase, recorded, roster, exported>>
world == <<context, child, announced>>
bounds == <<crashes, changes, retires>>
vars == <<row, members, world, caller, driver, aborted, bounds>>

FORK_PHASES == <<"journaled", "cloned", "postcloned", "seeded", "announced", "done">>
Index(p) == CHOOSE i \in DOMAIN FORK_PHASES : FORK_PHASES[i] = p
ForkPhaseReached(p, q) == p \in Range(FORK_PHASES) /\ Index(p) >= Index(q)
Terminal == {"done", "rolledback"}

NoDriver == [op |-> NoOp, at |-> "none", from |-> "none", did |-> {}, answered |-> FALSE]
Started(o, p) == [NoDriver EXCEPT !.op = o, !.at = "start", !.from = p]
NoCall == [op |-> NoOp, at |-> "none"]

-----------------------------------------------------------------------------
(* Who runs an operation *)

Drives(d, o) == driver[d].op = o
Driven(o) == \E d \in Driver : Drives(d, o)
Admitted(o) == \E k \in Caller : caller[k].op = o /\ caller[k].at \in {"resolving", "joined"}

\* runForkOp: one driver per operation, others join it.  Driver bounds how many run
Slot == CHOOSE d \in Driver : driver[d] = NoDriver
RunForkOp(o) ==
  \/ Driven(o) /\ UNCHANGED driver
  \/ /\ ~Driven(o) /\ \E d \in Driver : driver[d] = NoDriver
     /\ driver' = [driver EXCEPT ![Slot] = Started(o, phase'[o])]

\* fork: calls of the same operation queue behind each other
Fork(k, o) ==
  /\ caller[k].at = "none"
  /\ caller' = [caller EXCEPT ![k] = [op |-> o, at |-> IF aborted THEN "failed" ELSE "queued"]]
  /\ UNCHANGED <<row, members, world, driver, aborted, bounds>>

CallerGoes(k, at) == caller' = [caller EXCEPT ![k].at = at]

\* forkOnce, when it is the call's turn
ForkOnce(k) ==
  LET o == caller[k].op IN
  /\ caller[k].at = "queued" /\ ~Admitted(o)
  /\ CASE aborted \/ phase[o] = "rolledback" -> CallerGoes(k, "failed") /\ UNCHANGED driver
       [] ~aborted /\ phase[o] = "done" -> CallerGoes(k, "forked") /\ UNCHANGED driver
       [] ~aborted /\ phase[o] = "none" -> CallerGoes(k, "resolving") /\ UNCHANGED driver
       [] ~aborted /\ phase[o] \notin {"none"} \cup Terminal ->
            /\ CallerGoes(k, "joined")
            /\ UNCHANGED row /\ RunForkOp(o)
  /\ UNCHANGED <<row, members, world, aborted, bounds>>

\* the request is resolved and journaled, or the call fails with nothing done
Journal(k) ==
  LET o == caller[k].op IN
  /\ caller[k].at = "resolving"
  /\ \/ /\ ~aborted
        /\ phase' = [phase EXCEPT ![o] = "journaled"]
        /\ CallerGoes(k, "joined") /\ RunForkOp(o)
     \/ CallerGoes(k, "failed") /\ UNCHANGED <<phase, driver>>
  /\ UNCHANGED <<recorded, roster, exported, members, world, aborted, bounds>>

\* mutant: a rollback that could not finish is left alone
ReconcileForward(o) ==
  /\ phase[o] \notin {"none", "rollback-pending"} \cup Terminal
  /\ ~Driven(o) /\ ~Admitted(o) /\ ~aborted
  /\ UNCHANGED row /\ RunForkOp(o)
  /\ UNCHANGED <<members, world, caller, aborted, bounds>>
\* the maintenance queue resumes an operation that nobody owns
ReconcileForkOp(o) ==
  /\ phase[o] \notin {"none"} \cup Terminal
  /\ ~Driven(o) /\ ~Admitted(o) /\ ~aborted
  /\ UNCHANGED row /\ RunForkOp(o)
  /\ UNCHANGED <<members, world, caller, aborted, bounds>>

\* the driver's promise settles: it and the calls that joined it are gone
Ends(d, at) ==
  /\ driver' = [driver EXCEPT ![d] = NoDriver]
  /\ caller' = [k \in Caller |->
       IF caller[k].at = "joined" /\ caller[k].op = driver[d].op
         THEN [caller[k] EXCEPT !.at = at] ELSE caller[k]]

Goes(d, at) ==
  driver' = [driver EXCEPT ![d].at = at, ![d].answered = FALSE] /\ UNCHANGED caller

\* after an awaited call: on, or back when the fork lifetime was aborted
GoesUnlessAborted(d, at) == Goes(d, IF aborted THEN "rollback" ELSE at)

-----------------------------------------------------------------------------
(* The remote calls: a driver that awaits one is at its name *)

Reached(d, q) == ForkPhaseReached(driver[d].from, q)
Awaits(d) ==
  LET o == driver[d].op IN
  \/ driver[d].at = "export" /\ ~(roster[o] \subseteq exported[o])
  \/ driver[d].at \in {"clone", "destroy"}
  \/ driver[d].at = "postclone" /\ ~Reached(d, "postcloned")
  \/ driver[d].at = "import" /\ ~(roster[o] \subseteq driver[d].did)
  \/ driver[d].at = "seed" /\ o \in Seeded /\ ~Reached(d, "seeded")
  \/ driver[d].at = "announce" /\ ~Reached(d, "announced")

Answer(d) == driver' = [driver EXCEPT ![d].answered = TRUE]

\* cloneContext: the target key gives a resumed operation the same child, and
\* a destroyed one is refused.  destroyContext may be repeated
ServeContext(d) ==
  LET o == driver[d].op IN
  /\ Awaits(d) /\ ~driver[d].answered
  /\ \/ /\ driver[d].at = "clone" /\ context[o] # "destroyed"
        /\ context' = [context EXCEPT ![o] = "alive"]
     \/ /\ driver[d].at = "destroy"
        /\ context' = [context EXCEPT ![o] = "destroyed"]
  /\ Answer(d)
  /\ UNCHANGED <<row, members, child, announced, caller, aborted, bounds>>

\* appendSeed names the seed after the operation: it is stored once
Seeds(n) == 1

\* postClone, importChannelKnowledge of the next agent, appendSeed
ServeChild(d) ==
  LET o == driver[d].op IN
  /\ Awaits(d) /\ ~driver[d].answered /\ context[o] = "alive"
  /\ \/ /\ driver[d].at = "postclone"
        /\ child' = [child EXCEPT ![o].initialized = TRUE]
        /\ Answer(d)
     \/ /\ driver[d].at = "import"
        /\ \E a \in roster[o] \ driver[d].did :
             /\ child' = [child EXCEPT ![o].imported = @ \cup {a}]
             /\ driver' = [driver EXCEPT ![d].did = @ \cup {a}, ![d].answered = TRUE]
     \/ /\ driver[d].at = "seed" /\ child[o].initialized
        /\ child' = [child EXCEPT ![o].seeds = Seeds(@)]
        /\ Answer(d)
  /\ UNCHANGED <<row, members, context, announced, caller, aborted, bounds>>

\* appendForkEvent names the event after the operation
Announces(n) == 1

ServeParent(d) ==
  LET o == driver[d].op IN
  /\ Awaits(d) /\ ~driver[d].answered
  /\ driver[d].at = "announce"
  /\ announced' = [announced EXCEPT ![o] = Announces(@)]
  /\ Answer(d)
  /\ UNCHANGED <<row, members, context, child, caller, aborted, bounds>>

\* the call fails, before its effect or after it
CallFails(d) ==
  /\ Awaits(d) \/ driver[d].answered
  /\ driver[d].at # "destroy"
  /\ Goes(d, "rollback")
  /\ UNCHANGED <<row, members, world, aborted, bounds>>

-----------------------------------------------------------------------------
(* The phases *)

\* mutant: a resumed operation looks at the membership of the moment
SelectAgain(d) ==
  LET o == driver[d].op IN
  /\ driver[d].at = "start" /\ driver[d].from # "rollback-pending"
  /\ roster' = [roster EXCEPT ![o] = members]
  /\ Goes(d, "export")
  /\ UNCHANGED <<phase, recorded, exported, members, world, aborted, bounds>>
\* the roster is selected once and kept in the row
Select(d) ==
  LET o == driver[d].op IN
  /\ driver[d].at = "start" /\ driver[d].from # "rollback-pending"
  /\ roster' = [roster EXCEPT ![o] = IF @ = Unselected THEN members ELSE @]
  /\ Goes(d, "export")
  /\ UNCHANGED <<phase, recorded, exported, members, world, aborted, bounds>>

\* resolving the channel's own reference fails before anything is at stake
SelectFails(d) ==
  /\ driver[d].at = "start" /\ driver[d].from # "rollback-pending"
  /\ Ends(d, "failed")
  /\ UNCHANGED <<row, members, world, aborted, bounds>>

ResumeRollback(d) ==
  /\ driver[d].at = "start" /\ driver[d].from = "rollback-pending"
  /\ Goes(d, "rollback")
  /\ UNCHANGED <<row, members, world, aborted, bounds>>

\* exportChannelKnowledge answers for one agent more, until all are asked
Export(d) ==
  LET o == driver[d].op IN
  /\ driver[d].at = "export"
  /\ IF Awaits(d)
       THEN \E a \in roster[o] \ exported[o] :
              /\ exported' = [exported EXCEPT ![o] = IF aborted THEN @ ELSE @ \cup {a}]
              /\ GoesUnlessAborted(d, "export")
       ELSE Goes(d, "clone") /\ UNCHANGED exported
  /\ UNCHANGED <<phase, recorded, roster, members, world, aborted, bounds>>

SetForkOpPhase(o, p) == phase' = [phase EXCEPT ![o] = p]

\* the clone is recorded before an abort is noticed
Cloned(d) ==
  LET o == driver[d].op IN
  /\ driver[d].at = "clone" /\ driver[d].answered
  /\ IF Reached(d, "cloned") THEN UNCHANGED <<phase, recorded>>
     ELSE SetForkOpPhase(o, "cloned") /\ recorded' = [recorded EXCEPT ![o] = TRUE]
  /\ GoesUnlessAborted(d, "postclone")
  /\ UNCHANGED <<roster, exported, members, world, aborted, bounds>>

PostCloned(d) ==
  /\ driver[d].at = "postclone"
  /\ IF Awaits(d) THEN driver[d].answered /\ GoesUnlessAborted(d, "import")
     ELSE Goes(d, "seed")
  /\ UNCHANGED <<row, members, world, aborted, bounds>>

Imported(d) ==
  LET o == driver[d].op IN
  /\ driver[d].at = "import"
  /\ \/ driver[d].answered /\ GoesUnlessAborted(d, "import") /\ UNCHANGED phase
     \/ /\ ~Awaits(d) /\ ~driver[d].answered
        /\ SetForkOpPhase(o, "postcloned") /\ Goes(d, "seed")
  /\ UNCHANGED <<recorded, roster, exported, members, world, aborted, bounds>>

\* the child is seeded, or there is nothing to seed
SeedAppended(d) ==
  LET o == driver[d].op IN
  /\ driver[d].at = "seed" /\ (Awaits(d) => driver[d].answered)
  /\ IF aborted \/ Reached(d, "seeded") THEN UNCHANGED phase ELSE SetForkOpPhase(o, "seeded")
  /\ GoesUnlessAborted(d, "announce")
  /\ UNCHANGED <<recorded, roster, exported, members, world, aborted, bounds>>

\* after the announcement nothing is undone any more
Announced(d) ==
  LET o == driver[d].op IN
  /\ driver[d].at = "announce" /\ (Awaits(d) => driver[d].answered)
  /\ SetForkOpPhase(o, "done")
  /\ Ends(d, "forked")
  /\ UNCHANGED <<recorded, roster, exported, members, world, aborted, bounds>>

\* rollbackForkOp: what is recorded is destroyed first
RollbackForkOp(d) ==
  LET o == driver[d].op IN
  /\ driver[d].at = "rollback"
  /\ IF recorded[o] THEN Goes(d, "destroy") /\ UNCHANGED phase
     ELSE SetForkOpPhase(o, "rolledback") /\ Ends(d, "failed")
  /\ UNCHANGED <<recorded, roster, exported, members, world, aborted, bounds>>

\* mutant: a context that could not be destroyed is given up
RolledBackAnyway(d) ==
  /\ driver[d].at = "destroy"
  /\ SetForkOpPhase(driver[d].op, "rolledback")
  /\ Ends(d, "failed")
  /\ UNCHANGED <<recorded, roster, exported, members, world, aborted, bounds>>
RolledBack(d) ==
  /\ driver[d].at = "destroy" /\ driver[d].answered
  /\ SetForkOpPhase(driver[d].op, "rolledback")
  /\ Ends(d, "failed")
  /\ UNCHANGED <<recorded, roster, exported, members, world, aborted, bounds>>

\* the destruction fails, with or without its effect, and stays owed
RollbackFails(d) ==
  /\ driver[d].at = "destroy"
  /\ SetForkOpPhase(driver[d].op, "rollback-pending")
  /\ Ends(d, "failed")
  /\ UNCHANGED <<recorded, roster, exported, members, world, aborted, bounds>>

-----------------------------------------------------------------------------
(* The activation *)

\* drivers, calls and the lifetime signal are in memory, the rows are not
Evict ==
  /\ crashes < MaxCrash /\ crashes' = crashes + 1
  /\ driver' = [d \in Driver |-> NoDriver]
  /\ caller' = [k \in Caller |-> IF caller[k].at \in {"queued", "resolving", "joined"}
                                   THEN [caller[k] EXCEPT !.at = "failed"] ELSE caller[k]]
  /\ aborted' = FALSE
  /\ UNCHANGED <<row, members, world, changes, retires>>

\* beginLifecycleRelease in mode retire
BeginRetire ==
  /\ retires < MaxRetire /\ retires' = retires + 1
  /\ ~aborted /\ aborted' = TRUE
  /\ UNCHANGED <<row, members, world, caller, driver, crashes, changes>>

\* cancelLifecyclePreparation joins the drivers and calls, then starts anew
CancelRetire ==
  /\ aborted /\ aborted' = FALSE
  /\ \A d \in Driver : driver[d] = NoDriver
  /\ \A k \in Caller : caller[k].at \notin {"queued", "resolving", "joined"}
  /\ UNCHANGED <<row, members, world, caller, driver, bounds>>

ChangeMembers ==
  /\ changes < MaxChange /\ changes' = changes + 1
  /\ members' \in (SUBSET Agent) \ {members}
  /\ UNCHANGED <<row, world, caller, driver, aborted, crashes, retires>>

Init ==
  /\ phase = [o \in Op |-> "none"] /\ recorded = [o \in Op |-> FALSE]
  /\ roster = [o \in Op |-> Unselected] /\ exported = [o \in Op |-> {}]
  /\ members \in SUBSET Agent
  /\ context = [o \in Op |-> "none"] /\ announced = [o \in Op |-> 0]
  /\ child = [o \in Op |-> [initialized |-> FALSE, imported |-> {}, seeds |-> 0]]
  /\ caller = [k \in Caller |-> NoCall] /\ driver = [d \in Driver |-> NoDriver]
  /\ aborted = FALSE /\ crashes = 0 /\ changes = 0 /\ retires = 0

Serve(d) == ServeContext(d) \/ ServeChild(d) \/ ServeParent(d)
Step(d) ==
  \/ Select(d) \/ ResumeRollback(d) \/ Export(d) \/ Cloned(d) \/ PostCloned(d)
  \/ Imported(d) \/ SeedAppended(d) \/ Announced(d) \/ RollbackForkOp(d) \/ RolledBack(d)
Fail(d) == SelectFails(d) \/ CallFails(d) \/ RollbackFails(d)

Next ==
  \/ \E d \in Driver : Serve(d) \/ Step(d) \/ Fail(d)
  \/ \E k \in Caller : ForkOnce(k) \/ Journal(k) \/ \E o \in Op : Fork(k, o)
  \/ \E o \in Op : ReconcileForkOp(o)
  \/ Evict \/ BeginRetire \/ CancelRetire \/ ChangeMembers

\* The activation runs its continuations, calls end one way or the other, the
\* host runs due maintenance, and a retirement that began is cancelled, again if
\* the drivers it joined failed.  Of the destructions and of the lookups of the
\* channel's own reference that are tried again and again one is served: nothing
\* else bounds the retries of the code.
Fairness ==
  /\ \A o \in Op :
       /\ WF_vars(\E d \in Driver : Drives(d, o) /\ (Step(d) \/ Fail(d)))
       /\ SF_vars(\E d \in Driver : Drives(d, o) /\ Select(d))
       /\ SF_vars(\E d \in Driver : Drives(d, o) /\ ServeContext(d))
       /\ SF_vars(\E d \in Driver : Drives(d, o) /\ RolledBack(d))
  /\ \A k \in Caller : WF_vars(ForkOnce(k) \/ Journal(k))
  /\ \A o \in Op : WF_vars(ReconcileForkOp(o))
  /\ WF_vars(CancelRetire)

Spec == Init /\ [][Next]_vars /\ Fairness

-----------------------------------------------------------------------------
(* Properties *)

\* Every variable has its type.
Phase == {"none", "rollback-pending", "rolledback"} \cup Range(FORK_PHASES)
Await == {"export", "clone", "postclone", "import", "seed", "announce", "destroy"}
CallState == [op : Op \cup {NoOp},
              at : {"none", "queued", "resolving", "joined", "forked", "failed"}]
DriverState == [op : Op \cup {NoOp}, at : {"none", "start", "rollback"} \cup Await,
                from : Phase, did : SUBSET Agent, answered : BOOLEAN]
TypeOK ==
  /\ phase \in [Op -> Phase] /\ recorded \in [Op -> BOOLEAN]
  /\ roster \in [Op -> (SUBSET Agent) \cup {Unselected}] /\ exported \in [Op -> SUBSET Agent]
  /\ members \subseteq Agent
  /\ context \in [Op -> {"none", "alive", "destroyed"}] /\ announced \in [Op -> 0..1]
  /\ child \in [Op -> [initialized : BOOLEAN, imported : SUBSET Agent, seeds : 0..1]]
  /\ caller \in [Caller -> CallState] /\ driver \in [Driver -> DriverState]
  /\ aborted \in BOOLEAN
  /\ crashes \in 0..MaxCrash /\ changes \in 0..MaxChange /\ retires \in 0..MaxRetire

\* A fork that is reported done is whole: its context lives, its channel is
\* initialized, every agent selected for it has the parent's knowledge, its seed
\* is there once and the parent announced it once, whatever was interrupted,
\* repeated or resumed with another membership on the way.
Whole(o) ==
  /\ context[o] = "alive" /\ child[o].initialized /\ child[o].imported = roster[o]
  /\ child[o].seeds = IF o \in Seeded THEN 1 ELSE 0
DoneMeansWhole ==
  /\ \A o \in Op : phase[o] = "done" => Whole(o) /\ announced[o] = 1
  /\ \A k \in Caller : caller[k].at = "forked" => phase[caller[k].op] = "done"

\* A fork is announced in the parent only when it is whole.
AnnouncedWhole ==
  [][\A o \in Op : announced'[o] # announced[o] => Whole(o) /\ announced'[o] = 1]_vars

\* A rolled back operation leaves no context that its row knows of, whichever of
\* its attempts recorded it and however often its destruction failed.
RecordedIsDestroyed ==
  \A o \in Op : phase[o] = "rolledback" /\ recorded[o] => context[o] = "destroyed"

\* "the operation becomes terminal only after context destruction succeeds"
\* (channel-do.ts, rollbackForkOp): no rolled back operation leaves its context.
RolledBackIsGone ==
  \A o \in Op : phase[o] = "rolledback" => context[o] # "alive"

\* Every journaled operation ends, done or rolled back.
ForksEnd == \A o \in Op : phase[o] # "none" ~> phase[o] \in Terminal
=============================================================================
