# A formal model of Vibestudio's channels, workspace and automations

TLA+ modules, TLC runs and TLAPS proofs about the part of `vibestudio-base` that
everything else stands on: the **channel**, a Durable Object
(`src/workers/pubsub-channel`) that owns one append-only ledger and from it derives
method calls, deliveries, memberships, forks and the copy that the workspace's
log authority keeps; the client and the agent that read it; the semantic version
control of a workspace; and the runs of automations. `PROJECT.json` lists the
components, runs, mutants, hazards, findings and theorems, and maps every definition
to the lines it models.

Contents: [inventory](#1-inventory-of-the-system), [plan](#2-plan),
[modules](#3-the-modules-and-the-code), [runs](#4-the-runs),
[fairness](#5-fairness), [divergences](#6-where-the-code-and-its-words-diverge),
[proofs](#7-the-proofs), [limits](#8-what-is-only-model-checked-and-what-is-left-out).

## 1. Inventory of the system

The repository has about 537,000 lines. Workers are Durable Objects: one activation
at a time, JavaScript's event loop inside it (a handler runs without interruption to
its next `await`), SQLite for what survives the activation. Panels, agents and
extensions talk to them by RPC through a host that is not part of this repository.

### The channel (`workers/pubsub-channel`, about 14,000 lines)

| component | state it keeps | operations | talks to | hard behaviour | correct when |
|---|---|---|---|---|---|
| call transport (`calls.ts`) | the log; `pending_calls`, `provider_call_claims`, `calls_reconciled_through`; in memory the per-call journal barrier | `callMethod`, claim, mark executing, progress, result, cancel, timeout, settlement on leave, redelivery on join, `reconcilePendingCalls`, a fork's `abandonInheritedCalls` | publication queue, providers (RPC, mailbox, external), memberships, forks | results racing starts and cancellations, crash between log and cache, restarted executors | the log settles a call once; the cache follows the log; a superseded claim is never accepted; each call with a deadline ends |
| publication queue (`publication-queue.ts`, `appendDurable`) | two promise chains, pending receipts, completions, `sealed`; in memory only | `enqueue`, `seal`, `resume`, `observe`; `prepareDurableWorkRelease`, `releaseForLifecycle`, `cancelLifecyclePreparation` | every handler that appends, recipients, the host's release | capacity, sealing while publications wait for room, recipients that publish in turn or never answer | bounded backlog; order of storage; a captured head stays the head; a drain vouches for everything; receipts settle |
| channel observation (`channel-ledger.ts`, `channel-observation.ts`, claim row in `channel-do.ts`) | ledger with observed prefix and fork point, `channel_observation_claim`, waiters | adopt, claim, prepare, execute, settle, fail; `waitObservedThrough` | host driver, parent channel, log authority | a driver replaced in mid-call, late and duplicated requests, lost answers, evictions, interrupted appends | the authority's log is always a prefix of the ledger with the right lineage; an observed prefix is stored there; waiters end |
| log authority (`GadWorkspaceDO.ts`) | logs with heads, lineage | `initializeLogHead`, `appendLogEvent`, `forkLog` | channels | replayed batches | replays are absorbed, gaps and rewrites refused |
| fork operation (`channel-do.ts` 6919–7400) | `fork_ops` (phase, recorded context, roster, exports), in memory the running driver | `fork`, `runForkOp`, `rollbackForkOp`, reconciliation, retirement | host (clone and destroy a context), child channel, agents | eviction between any two steps, remote calls that fail after their effect, repeated calls, a retirement that aborts | a finished fork is whole and announced once; a rolled-back one leaves nothing it knows of; every fork ends |
| membership and delivery projection (`delivery-projection.ts`, `join`, `leave`, `detach`, `updateMetadata`, `subscribe`, `unsubscribe`) | relationships, retained join operations, mailbox of deliveries, fold cursor, reattachment ranges; in memory the per-participant lock and the open responses | the handlers named, `deriveDeliveries`, reattachment backfill, projection upgrade | publication queue, ledger, calls | handlers that fold side by side, revisions that two handlers take, detach and reattach, upgrade and crash | the projection is the fold of the ledger; nothing owed is lost; only its owner ends a relationship |
| delivery claims and the recipient's side (`settleOwnedDelivery`, `claimReadyWork`, `native-channel-session.ts`) | mailbox rows with claims, generations, leases and failures; the agent's admissions | publish, claim, execute, settle, fail, detach, join and backfill, rearm, release | host work driver, agents, resident sessions | two claims on one lane, a settlement of an older claim, a failure reported after a join, retry of what was done | an event is admitted once; nothing owed is dropped; a join is not undone by what predates it; deliveries and releases end |
| maintenance queue (`executeChannelMaintenanceClaim`), invite index, lineage-head outbox | due items with backoff, outbox rows | materialize, claim, execute, settle | host alarm, workspace source | an item due again while it runs | an owed item is run again until it is admitted |
| log store (`log-store.ts`), policies (`policy-host.ts`, `channel-policies`) | the encoded ledger; the policies' folded state | append and read by page; `conversation-v1` admission | publication queue | a policy's state and the ledger out of step | the policy state is the fold of the ledger |

### The other workers and packages

| component | state, operations, interactions | hard behaviour | correct when |
|---|---|---|---|
| pubsub client (`packages/pubsub`) | subscription, replay cursor, handled keys, gap and live buffers; opens streams, repairs gaps, recovers | streams that overlap, a replay meeting live events, receipts, failures of streams, pages and handlers | each event is projected once; the cursor vouches for what is below it; what was promised arrives |
| semantic workspace (`semanticWorkspace.ts`, `semanticVcsStore.ts`) | contexts, working chains, changes, decisions, commits, pending pushes, main | merges of parts, edits between merge and commit, pushes whose receipts come late | an integration keeps or decides what its source made and stays valid; main only moves forward |
| missions (`MissionsDO.ts`) and native automation runs (`native-automation-runs.ts`) | missions, runs, effects, cancel markers; in memory drivers, interruptions, seal; the agent's record of a run | commands, alarm, releases and crashes meeting the drivers at every wait | one run at a time; no session outlives its run; a stop is kept; a release vouches; every run ends |
| Durable Object base (`packages/runtime/src/worker/durable-base.ts`) | lifecycle preparation, adoption, release, alarms of every worker | a release racing work under way | as its uses, modelled below |
| agent vessel and publication (`packages/agentic-do`) | inbox cursor, publication intents, turn state | restart between publish and acknowledge | an intent is published once |
| deferred agent machine, chat session, channel-chat merge (`packages/agentic-core`) | optimistic client state over the channel's log | local entries meeting their durable echo | an echo replaces its entry exactly once |
| PTY stream, git bridge, shell, templates, file tools, evaluation, integrations, user interface, skills | processes, streams, files, adapters of external protocols | mostly I/O; locks per repository, flow control | see `PROJECT.json`, status `not_modelled` with the reason |

## 2. Plan

Done, in the order of importance: `CallOutcome` and `CallTransport`;
`PublicationQueue`; `SemanticLog` and `ChannelObservation`; `ForkSaga`;
`DeliveryProjection` and `ChannelMembership`; `ChannelDelivery`; `ChannelClient`;
`SemanticHistory` and `SemanticWorkspace`; `MissionRuns`. The proofs of the queue and
of the observation, the two halves of an envelope's way to the log authority, share a
module; every other component has one of its own.

Left, in this order:

1. `MaintenanceQueue` with the lineage-head outbox: due items, claims with backoff.
2. `NativePublication`: the agent's intents over restarts, composed with what
   `ChannelDelivery` promises.
3. Small modules: the repository locks of the git bridge, the flow control of a PTY
   stream.

Compositions: `CallTransport` contains the queue as a FIFO of handlers that wait for
their append; `PublicationQueue` refines that view with admissions, receipts and
completions. `ChannelObservation` uses `SemanticLog` as operators, `ChannelMembership`
extends `DeliveryProjection`, whose operators are the projection's transactions, and
`SemanticWorkspace` instantiates `SemanticHistory` twice, for the graph a transaction
has read and for the one it leaves. `ChannelDelivery` takes the projection's fold as
one step and opens up what `ChannelMembership` calls `Acknowledge`. The modules avoid
RECURSIVE operators throughout, so that each can be proved about.

## 3. The modules and the code

A step of a model is what a handler does between two waits. Where the event loop may
interleave handlers (an `await` on another service, on the queue, on a lock), the
model has a step boundary; where the code runs on, the model does too.

### `CallTransport`, `CallOutcome`

`log` is the channel's ledger restricted to call events, `row` is `pending_calls`,
`claim` is `provider_call_claims`, `observed` is `calls_reconciled_through`. `task`
holds the running handlers, `barrier` the per-call journal FIFO of
`mutateCallJournal`, `queue` the handlers whose append is in the publication queue,
`deliveries` the `onMethodCall` RPCs under way. Envelope ids decide what an append
meets (`SameId`): a start's id is its invocation id, a terminal's is
`terminal:{call}`, so the second one is answered with the first.

- `CallMethod` → `JournalStart` → append → `JournalEnd` → `Dispatch` (or
  `DispatchUnrouted`) is `callMethod` with `journalCallStart` and
  `dispatchCallStart`; `Redriven` is its replay.
- `ClaimMethodCall`, `MarkMethodCallExecutionStarted`, `SubmitMethodProgress`,
  `SubmitMethodResult`, `ProviderReturns` are the provider's side; `Resolve`,
  `SettleCall`, `SettlePending`, `Consume`, `Record` the settlement, including the
  lost call that is recorded without a start.
- `CancelMethodCall`, `TimeoutMethodCall`, `CancelJournaled`; `Leave` and `Join` with
  their loops over the provider's calls; `ReconcilePendingCalls`;
  `InitializeClonedStorage`, `PostClone` and `AbandonInheritedCalls` for a fork.
- `Commit`, `AppendRejects`, `Crash` are the queue's outcomes. An append may store its
  event and then fail.

One provider participant is the target of every call; callers' identities, payloads
and attachments are left out. `CallOutcome` is the promise in six lines of state
change: a call opens, is settled at most once, keeps its outcome, and only `lost` and
`notAdmitted` settle what never opened; a fork knows a prefix. The refinement mapping
(`Phase`) reads the log only.

### `PublicationQueue`

`order` is the order in which publications entered (both promise chains), `pending` the
open receipts, `completions` what recipients still owe, `stage` how far each
publication is, `observer` the host's requests that observe the queue with the role
they serve, `horizon` the head captured by an observation release. `Enqueue` with
`Waits`, `Refused`, `Entered` is `enqueue`; `Admit`, `Prepare`, `PrepareFails` the
admission chain, `SettleReceipt` the receipt chain, `Complete`, `CompleteFails`,
`Drop` the completion. `DeliveryRelease`, `PrepareObservation`, `Release`,
`AbortObserver`, `Return`, `Cancel` are the lifecycle requests of `channel-do.ts`.
`Cancel` is the successful one: when joined fork drivers fail, the code throws and the
queue stays sealed until it is cancelled again.

### `SemanticLog`, `ChannelObservation`

`SemanticLog` is the log authority as functions from a log to a log and a verdict
(`InitializeLogHead`, `Replayed`, `Remaining`, `AppendLogEvent`, `ForkLog`): a batch is
compared with what is stored, its replayed part is skipped, and what is left is added
one by one unless it is stored already.
`ChannelObservation` has a ledger per channel with observed prefix, root and parent
flags, the claim row, readiness (`offered`), a driver per generation (`worker`,
`host`), what each driver does about each channel (`attempt`), its request, the waiters
and evictions. `PrepareClaim`, `ExecuteObservation`,
`SettleObservation` and `FailObservation` are the driver's calls, and `Conclude` what the
last two share. A late driver's calls may still arrive; only the current host claims; a host that restarts offers every channel again (the scan).
`Interrupted` lets an append end after it stored its event and before it announced it,
which the code repairs at the next append, wait or scan. A hash chain is a prefix: two
chains agree exactly when the prefixes do.

### `ForkSaga`

`phase`, `recorded`, `roster` and `exported` are the columns of `fork_ops`; `context`,
`child` and `announced` what the host, the child and the parent's log hold; `driver`
the running `runForkOpOnce` with what it awaits and whether the remote effect happened
(`ServeContext`, `ServeChild`, `ServeParent` are the effects, the next action the
answer). `Evict` ends drivers and callers and keeps rows, `BeginRetire`/`CancelRetire`
set and clear `aborted`. `cloneContext` with one target key gives the same child while
it lives and refuses once it was destroyed. The phases `announced` and `done`, written
without a wait between them, are reached in one step. `Driver` slots are a bound: the
code keeps one driver per operation and has no limit on operations.

### `DeliveryProjection`, `ChannelMembership`

`DeliveryProjection` has one operator per method: `FoldRelationship` (with `Opened`,
`Detached`, `Ended`), `Derive`, `Fold`, `AdvanceReattachBackfill`,
`CompleteEmptyReattachBackfill`, `DetachRecoveryBoundary`, `EnsureProjectionVersion`.
`ChannelMembership` runs handlers over it: each takes its lock if it has one
(`Acquire`, `held`: join, leave and detach of one participant), derives
(`ResumeBackfill`, `ReadEvents`, `FoldReplayed`, `FoldAppended`, `SkipFolded`, or
`DeriveThrows`), decides (`JoinDecides`, …) and appends (`Commit`, `CommitExisting`,
`CommitRejects`), then derives once more and answers. A backfill reads its range page
by page, with a wait before each (`PageOf`; `Page` is the code's 500); a replay's page
is the whole rest. A delivery is open (the code's ready, leased and retrying),
completed, departed or retired; `Acknowledge` stands for claims and settlement in any
order. `subscribe`'s two derivations are one; interest and audience are one constant
set per event. `Inherited` is the prefix a fork copied from its parent.

The history variables `answered`, `asked` and `done` only record. So does `slipped`,
which marks the facts taken away by the two windows of section 6: `Skipped` where a
page read for an older range moves the start of the newer one, `StillOwed` where a
detachment is decided while a range is owed.

### `ChannelDelivery`

One lane: the deliveries of one participant, an agent that admits durably or a session
resident in memory. `box` holds the mailbox rows with their state, owner, claim
generation and the relationship revision the claim was made under; `going` the
attempts under way, live ones and claims; `host` and `owner` the work driver that runs
and the one the channel adopted; `lock` the mutation of the relationship; `session`
and `op` the resident side and its join operation; `waiter` a release that waits for
deliveries. `Publish`, `ClaimReadyWork`, `Answers` with `SettleOwned`,
`RecordOwnedFailure`, `SettleReadyWork`, `FailReadyWork` and `FailUnavailable` are the
channel's side, `AgentVerifies`/`Admit`, `SessionTakes`, `Defers`, `Fails`, `Refuses`
the participant's; `DetachRequested`/`Detached` and `Join`/`Backfill`/
`RearmRetryingFor`/`RedeliverPendingCallsTo`/`JoinAnswered` the relationship's;
`WaitDeliveryThrough`, `HostRestarts` and `ActivationEnds` the lifecycle's. The ledger
is the number of events addressed to the participant, appended and folded in one step.

### `ChannelClient`

The reading half of `rpc-client.ts`. `wire` is the channel's side of each stream
(asked, the replay read, attached with its queue, cut), `rd` the reader of each stream
with the page it goes through (`list`, `hold`), `seen` the recovery cursor, `handled`
and `busy` the remembered and the processing events, `gapBuffer` and `liveBuffer` what
waits for a repair or a replay. `Acknowledge`, `NextMessage`, `Take`, `Ready`,
`Repaired`, `Drain` are a reader's turns, `Receipt` the client's own publication coming
back, `Processed`/`ProcessFails` the coordinator, which is external and repeats a failed
handler; `StreamEnds`, `PageFails`, `Reconnect`, `RecoverSubscription` failure and
recovery. `shown` and `overtaken` only record. A reconnection of the host is combined
with no fault.

### `SemanticHistory`, `SemanticWorkspace`

`SemanticHistory` has what is read from the graph: the state at a node, its first-parent
line, merge bases, the changes that explain a difference (`coordinateAttribution`), the
comparison of a merge. Applications are numbered as they are made, so a line is a set of
them and its order is theirs. `Steps` is what a walk along a line reads of it, `Walked` and
`Explains` the walk, `BroughtIn` and `Accounted` what `isDecisionAccountedIntroduction`
adds to it from the decisions of the whole graph, and `Row` one file of a comparison. `SemanticWorkspace` has contexts with a committed event and a
working chain, `Edit`, `Merge` of any selection of files with what it reuses, `Commit`,
`CommitConcluding`, `Discard`, `Push` and its receipt (`Acknowledge`), `ForkContext`,
`EnsureContext`, `DropContext`. Each is one transaction in the code. A file is one
coordinate with one aspect, its content, and contents are atomic. The tie between two
merge bases is broken by digests in the code and by numbers here; the first clause of
`isDecisionAccountedIntroduction`, which takes one row of several, is modelled as any.
The resolutions `current` and `ours` have one effect here.

### `MissionRuns`

One automation whose action is an agent's prompt in a fresh conversation. `mission`,
`row`, `marked`, `box` and `wake` are the durable tables; `cmd`, `driver`, `halted`,
`sealed` the activation's memory; `net`, `session`, `agent`, `acked` and `report` the
host and the agent. `RunNow` and `Alarm` → `Authorized` → `AdmitRun` are admissions;
`DriverStep` walks the phases (`DriverStart`, `Prepared`, `Targeted`, `Admitted`,
`Readmitted`, `Dispatched`, `Described`, and `Caught`/`Interrupted`/`Closed`);
`Cancel`, `Pause`, `Resume`, `Edit`, `EditPlan`, `Retire` are the owner's commands,
`AgentEnds`/`Report` the agent's turn and its outcome; `Release` in its modes with
`Settled`, `HaltedAll`, `JoinedAll`, `Swept` the preparation of a release, `Crash`,
`EndActivation`, `Restart` the activation's end. Requests to the host and to agents are
an unordered set: they may be reordered, and those that a crash cuts off may be lost.

## 4. The runs

State counts are of complete searches. Small sets are enough where the code treats
members alike and never relates more than two: two handlers give every pairwise
interleaving, and each bound below was chosen so that the case named in the run's
description happens in it. A module's type invariant is `TypeOK`; theorems
state it, and the runs listed here spend their time on the rest.

| run | instance | states | shows |
|---|---|---|---|
| `calls_race` | one call, every route, two handlers, two executors, two claims, one output, one fault, one fork; handler slots symmetric | 0.78 M | `RowIsJournaled`, `NoResurrection`, `CacheExactAtRest`: cache and log agree over races and crashes; `SupersededNeverAccepted`; `KeepsPromise`: the log implements `CallOutcome` |
| `calls_live` | one call whose provider may answer before its start is durable, two handlers, one fault | 0.10 M | `StartRaceNeverRecovers`; `HandlersFinish` (no deadlock between barrier and queue); `DeadlineSettles` |
| `queue` | four publications, one published by a recipient of another, one a retry; capacity 2; one observing request | 0.48 M | `StoredInOrder`, `HorizonHolds`, `DrainVouches`; `ReceiptsSettle` with recipients that never answer; `ReleaseEnds` |
| `observe` | a channel and its fork, two driver generations, two events in pages of two, evictions, interrupted appends, a caller that waits for the fork | 0.58 M | `GraphFollowsLedger` and `WaitVouches` under late requests, replays and lost answers; `WaitersSettle` |
| `fork` | one operation, two callers, two candidate agents, two evictions, one retirement, one change of members | 0.28 M | `DoneMeansWhole`, `RecordedIsDestroyed`, `ForksEnd` |
| `members` | one agent, two handlers out of join (two operations on two routes), leave, detach, publish, derive; five events with one fact, pages of one event, one fault, one upgrade; slots symmetric | 4.7 M | `ProjectionIsFold`, `NothingLost`, `EndedByOwner` |
| `members_live` | an agent and a person, join, roster update, subscribe, unsubscribe, derivation; three events | 0.09 M | `HandlersEnd` when events compete for one revision |
| `delivery` | both routes, two events of which the first may be a pending call, two work drivers, one fault | 0.40 M | `AdmittedOnce`, `OwedIsKept`, `JoinStaysAttached`; `OwedIsTaken`, `ReleaseEnds` |
| `client` | three events, one the client's own, up to two failures, or one reconnection of the host | 0.32 M | `ProjectedOnce`, `CursorVouches`; `ReplayArrives`, `Recovers` |
| `semantic` | two contexts, two files, three contents, four events, three applications, two edits; contexts and contents symmetric | 0.14 M | `IntegrationKeepsSource`, `IntegrationStands`, `MainFastForwards` |
| `semantic_explained` | the same with one file and three edits | – | refutes `ComparisonExplained` (section 6) |
| `missions` | one manual run and one occurrence, two digests, `maxRuns` 1, two command slots, two commands, faults or releases | 0.10 M | `OneLive`, `RecordedSessionEnds`, `ReleaseVouches`, `StopHolds`; `RunsEnd` |

Bounds in the modules: `MaxClaim`, `MaxOutput`, `MaxFault` (calls); `MaxEvent`,
`MaxWorker`, `PageLimit` (observation; `PageLimit` is the code's page, cut to 2 so
that an observation needs several); `Driver`, `MaxCrash`, `MaxChange`, `MaxRetire`
(fork); `MaxLog`, `MaxFact`, `MaxStream`, `MaxFault`, `MaxUpgrade`, `Page` (members);
`MaxEvent`, `MaxWorker`, `MaxFault` (delivery); `MaxEvent`, `MaxOwn`, `MaxFault`,
`MaxHost` (client); `MaxEvent`, `MaxApp`, `MaxEdit`, `MaxDrop` (workspace); `MaxTick`,
`MaxEdit`, `MaxAsk` (missions). `Capacity` is 128 in the code and 2 here; the theorems
hold for every capacity. Deadlock is not checked: a channel with nothing to do stops,
and a bounded one stops at its bound; the liveness properties say what must not stop.

What the bounds leave out, the theorems of section 7 mostly cover: several calls of one
provider in the loops of `leave` and `postClone`, more handlers, longer ledgers and
longer pages, more faults. `observe` has one level of forks. `HandlersEnd` is checked
without faults; a fault ends the handler. With `MaxAsk` 3 and one digest the invariants
of `missions` were checked too (1.14 M states).

Every property of a passing run has a mutant in `PROJECT.json`: the definition of an
operation replaced by a variant with a plausible bug, under which TLC refutes the
property. The variants stand in the modules before the definitions, marked `mutant`.

## 5. Fairness

- *The event loop* (`CallTransport`, `PublicationQueue`, `ForkSaga`,
  `ChannelMembership`, `ChannelDelivery`, `ChannelClient`, `MissionRuns`): weak fairness
  of a handler's own continuation. An activation runs the continuations it has; nothing
  cancels them but its end, which is a fault.
- *FIFO waits*. In `CallTransport` barrier and queue are FIFOs and a handler's
  continuation has strong fairness (`Continue`), since the wait's end may be interrupted
  by another handler's. `ChannelMembership` leaves the order of waiting handlers free and
  gives each strong fairness of being served, which is less than the FIFO promise chains
  of the code give.
- *Appends* end: weak fairness of `Commit`; a failed append counts as a fault.
- *Deadlines*: `DeadlineSpec` adds strong fairness of `TimeoutMethodCall`: the
  maintenance item of a deadline is materialised again until it is admitted.
- *Recipients and providers* of `PublicationQueue` and `CallTransport`: none. They may
  never answer; a recipient's call ends only because a release aborts it.
- *Remote calls of a fork* end one way or the other; a context destruction that is tried
  again and again is served once, and so are context requests and the lookup of the
  channel's own reference. Nothing else would bound the retries in the code. A
  retirement that began is cancelled.
- *The host of `ChannelObservation`*: one weak fairness condition on everything the
  driver of the moment and the log authority do. Requests of replaced drivers are served
  in the end, their continuations never assumed.
- *The host of `ChannelDelivery`* claims while the channel reports work ready, executes
  and reports; a participant that is up answers, a session that is wanted opens. Nothing
  makes a publication, a restart or a fault happen.
- *The channel of `ChannelClient`* answers each stream, the coordinator repeats a handler
  that failed, each event's processing ends.
- *`MissionRuns`*: one weak fairness condition on everything under way (drivers, commands,
  the calls they wait for, an agent's turn and report, the end of a released
  activation), and one per slot for admissions, since a sealed activation may refuse one
  alarm after the other. Commands, faults and occurrences of the schedule happen or not.

## 6. Where the code and its words diverge

One has a run and a finding in `PROJECT.json`.

- **A comparison the changes do not explain** (`semantic_explained`). A conflict decided
  for the target's own value records no change, so a context that stands at the other
  value cannot merge the commit that decided it: `coordinateAttribution` refuses with
  `IntegrityFailure`, although nothing is wrong with the graph.

The others have no run. Where a property is named it stands in the module, and TLC
refutes it when it is put in place of the properties of the run in parentheses; the rest
is read from the code.

Calls and the fork operation:

- `FoldIsAuthority` (`calls_live`). A call that a provider answers before its start is
  durable is recorded as lost; if the start is appended after that terminal,
  `derivePendingCalls` reports it pending, though the header of `calls.ts` defines
  pending by the absence of a terminal.
- `SweepConverges` (`calls_race`). `reconcilePendingCalls(false)` returns early when its
  mark equals the head; `recordObservedHead` moves the mark to the sequence a handler
  just appended, past events whose append stored them and then failed. The cache stays
  wrong until a forced reconcile.
- `RolledBackIsGone` (`fork`). When `cloneContext` took effect and its answer was lost,
  or its answer lacks an expected entity, the operation is rolled back without a recorded
  context, and the context lives on.
- An announcement of a fork is stored and its publication then fails: the rollback
  destroys the context of a fork that the parent's log announces
  (`channel-do.ts:7267`). The source does not say what should happen.

Membership and delivery:

- *Two windows in which a delivery is lost*: `NothingLost` without its last disjunct is
  refuted by `members`. `detachRecoveryBoundary` looks at open deliveries; while another
  handler has folded a reattachment and still reads its range there are none, and the
  boundary becomes the cursor, though "every outstanding mailbox debt must lie on the
  replay side of it" (`delivery-projection.ts:699`). With one agent the window is between
  the last check for pending backfills and the decision; with two agents it is as long as
  a page's read. And `advanceReattachBackfill` does not ask whether its page touches the
  range that is owed now: a page read for an older range moves the newer range's start past
  events nobody derived, though progress "can never" be recorded "beyond an
  unmaterialized delivery debt" (`delivery-projection.ts:632`).
- `LeaveYieldsToNewerOpening` (`members` with `update`). An agent that joined at revision
  *r* and then changed its own roster entry leaves with *r*; `leave` takes this for an
  older owner's request, answers, and the relationship stays active.
- `SessionKeepsRelationship` (`members_live`, and with `Inherited` set to `MCOpened`). The
  ids of a person's relationship events are made of the person and the revision; a fork
  starts again at revision 1 over a ledger that contains the parent's events, ids being
  unique over the whole ledger, and the child's first opening is answered by the parent's
  event. Without a fork, `unsubscribe` counts the responses, then waits, then ends the
  relationship; a subscribe in between keeps its response without one.
- Two roster updates that decide on one revision share one id, and the second one's
  metadata is dropped. A join and a roster update may take one revision; the later is
  skipped by the fold, and the join is answered nevertheless.
- `JoinedIsAttached` (`delivery` with two faults). A join tried again under its operation id is answered
  from the retained operation although the relationship it opened was detached since: the
  session believes itself joined and gets nothing (`rpc-client.ts:2215`).

Client:

- `RecoveryCatchesUp` (`client`). A receipt, or an event held back during a repair, moves
  the cursor over events not shown, and the next stream starts behind them.
- Read from the code: an event committed between the replay's read and the stream's
  attachment is shown only by a later event; the gap buffer is drained without a gap check,
  and stranded when the repair of an aborted reader fails.

Workspace, besides the finding:

- `IntegrationsStayValid` (`tlc -config SemanticWorkspace_replay.cfg MCSemanticReplay`). A
  commit that was accepted as an integration can later be refused by every push with
  `IntegrityFailure`, though recorded operations "stay walkable as provenance"
  (`compare-and-merge.md:5`). `isDecisionAccountedIntroduction`
  (`semanticWorkspace.ts:10227`) asks the decisions of the whole graph which values a
  change is known to follow; a merge in another context that brings the same change in
  where it holds another value makes the walk along the commit's line begin elsewhere, and
  it no longer ends at the commit's state. The replay is one behaviour of 26 steps with
  five contexts, far beyond what a search reaches; the attempt to prove the property led to
  it. `IntegrationStands` therefore says what does hold: the commit stays decided, and
  becomes unexplained only where such a merge was recorded since (`BroughtInSince`).
- Differences that no change on the source's own first-parent line touches are not
  compared by a later merge, which then loses them silently
  (`semanticWorkspace.ts:10524`); a change reapplied after an undo counts once; nothing
  cancels a pending push that went stale, and `dropContext` deletes a pending publish
  effect which the host may have applied.

Missions:

- `RetiredStays` (`missions`). An edit that waits for `verifyPolicy` while the automation
  is retired makes it active again (`MissionsDO.ts:962` writes unconditionally), though
  retiring "permanently stops new runs" (`skills/automations/SKILL.md:228`).
- `MaxRunsHolds` (`missions`). Two admissions that started side by side write the same run
  count, though "`maxRuns` counts admitted runs" (`SKILL.md:219`).
- Read from the code or seen in traces of the model: the alarm never calls `resumeRuns`,
  which the API's description says comes first (`skills/automations/API.md:360`); a
  session opened for a run that is already terminal is never finished; a dispatch in
  flight at a cancellation may be served after the interrupt; a crash while `finishRun`
  waits parks the agent's report until the agent restarts (the exception in `RunsEnd`); an
  edit of the name keeps the digest, so its effect retires the active subject's authority;
  a release that overlaps an admission fails and leaves the activation sealed; retire and
  edit neither abort nor join drivers; `deliverNotification` ends a run without
  `closeAdmission`.

## 7. The proofs

Every theorem holds for every value of the constants that satisfies the modules' named
assumptions; they assume nothing else, except where a theorem's own hypothesis says so.
Each module of proofs has an inductive invariant (`IInv`), lemmas that each action keeps
it, and the theorems at its end. What the runs check of a component on a small instance,
its theorems show of any.

**Calls** (`CallTransportProofs`). `TypeCorrect`, `JournalBeforeDispatch`
(`RowIsJournaled`), `TerminalFirst`, `LogKeepsPromise` (`KeepsPromise`, that is, `Spec`
implements `CallOutcome`), `RacesWait` (`StartRaceNeverRecovers`), `OnlyNewestAccepted`
(`SupersededNeverAccepted`), `SettledStaysOut` (`NoResurrection`) and `RestsExact`
(`CacheExactAtRest`). There are three invariants.

- `IInv`. `RowIsJournaled` is not inductive: a handler writes a row at a later step than
  the one that saw the start in the log, and deletes a row at a later step than the one
  that saw the terminal. The invariant therefore says what each waiting handler already
  knows (`AllSound`: one that is about to cache a call has its start in the log, one about
  to consume it has a terminal, one about to write an outcome other than `lost` or
  `notAdmitted` has the start), that a handler waits for at most one append and waits in
  the state that appends (`Queued`), and that the log holds at most one terminal per call
  (`OneOutcome`, which `SameId` preserves). A fork cuts the log and ends every handler in
  the same step. The refinement is step by step: an append of a start is `Admit`, of a
  terminal `Settle`, the cut of a fork `Fork`, everything else a stutter.
- `JInv` is about order: the barriers of one call exclude each other, a start comes before
  the terminals, a call's claim equals the newest grant or is dropped for good, and a
  result behind a start waits for it. From it follow the three properties about races.
- `KInv` holds while nothing failed: an open call is cached or a handler is about to cache
  it, a cached call that is settled is about to be consumed, and a cached call of a provider
  that left is about to be settled. At rest nobody is about to do anything, so the cache is
  exact.

`SettledStaysOut` and `RestsExact` have the hypothesis that a provider reached directly
does not answer a call whose start is not durable; `FoldIsAuthority` (section 6) shows why.

**Publication queue** (`ChannelLedgerProofs`, first half). `TypeCorrect`, `Backlog`
(`BacklogBounded`), `Storage` (`StoredInOrder`), `Horizon` (`HorizonHolds`), `Drains`
(`DrainVouches`). The invariant has five parts: stages agree with `order`, `pending`,
`completions` and `faulted` (`Enrolled`); the open receipts are finitely many and fit
(`Fits`); an entered publication that left the queue has only admitted or refused ones
before it (`Serial`); what is in the log was put there by an admission that ended
(`Logged`), and the log's order is that of `order` (`Ordered`, which a retry whose envelope
is stored already leaves alone). `Fits` holds although all who wait for one receipt wake
together: each re-checks the bound. `HorizonIsHead` needs `BarriersHold`: from an
observation release's barrier on the queue is sealed, and the barrier resolves only with no
receipt open. The oldest receipt is found by well-foundedness of the naturals.

**Channel observation** (`ChannelLedgerProofs`, second half). `ObservationTypeCorrect`,
`LogFollows` (`GraphFollowsLedger`), `Vouches` (`WaitVouches`), and `LogsOnlyGrow`, which
no run states: no step takes anything away from a log. The difficulty is a request that is
served when its driver is long replaced. `ObservationInv` says three things that make this
harmless.

- A request carries a segment of its ledger (`RequestOK`), and ledgers only grow. The
  segment begins no later than one behind the end of the log when the request was made, and
  logs only grow too: whenever it is served it overlaps the log or follows it. The events of
  a ledger increase (`Increasing`: each is issued once, and a fork starts with its parent's),
  so no event occurs twice, the replayed part of the batch ends where the log ends
  (`ReplayedFact`), and the rest is a segment (`RemainingFact`, where two functions with
  one recurrence cannot differ first).
- An attempt is past or does the work of the one claim there is (`AttemptOK`), and a claim
  is what its ledger asks for next (`Due`), so an answer counts only for what was asked.
- What a ledger counts as observed, and what an answer says, is held (`ObservedHeld`,
  `AnswersHeld`), so whoever is woken is told the truth, and a fork that is made finds its
  parent's prefix.

The actions fall into four groups: those in which a ledger grows (`Grown`), those that only
move claims and attempts (`Quiet`), the service of a request (`AnswerServed`), and the end of
an attempt (`MarkedFact`, `Woken`).

**Fork operation** (`ForkSagaProofs`). `TypeCorrect`, `DoneIsWhole` (`DoneMeansWhole`),
`RecordedDestroyed` (`RecordedIsDestroyed`), `AnnouncedIsWhole` (`AnnouncedWhole`). A row's
phase vouches for what its child has, whoever drives it (`RowInv`); a driver adds what it
did of the step it is at, and a call what it waits for (`CallsInv`).

**Membership** (`ChannelMembershipProofs`). Four theorems on two invariants.

- `TypeCorrect` and `OwnerEnds` (`EndedByOwner`) rest on `IInv`: it follows a leave from the
  request (`asked`) through its handler (`Sound`) and the ledger (`Owned`) to the fold, and
  keeps the projection, its ranges and its deliveries below the ledger (`Fits`).
- `FoldsLedger` (`ProjectionIsFold`): at every cursor the projection is what `Recorded`
  computes of the ledger. `Recorded` is recursive over the ledger; what it says of an event
  is unfolded once, and what it says of all of them (it is typed, revisions only rise, an
  append changes no earlier value) is shown by a least counterexample, with the
  well-foundedness of the naturals.
- `NothingIsLost` (`NothingLost`) rests on `GInv`, which speaks of *debts*: the facts
  addressed to an active relationship since it began. Each debt is settled, open, in the
  range owed, behind the point of detachment, or marked (`Covered`); a delivery
  is open only under an attached relationship and ended for a reason (`RowOK`); and each event that declares something
  delivered, be it in the ledger or in the hands of a handler that waits for the queue,
  declares only what is settled or marked (`TaskOK`, `Declares`). The last part is what
  makes the property inductive: a detachment is decided at one step, appended at another,
  folded at a third, and between them other handlers fold and append. It stays true because
  a revision names one state of a relationship (`RevDecides`): if anything about the
  relationship changed in between, the event's revision is taken and the fold skips it.
  The lemmas go through the projection's methods first (what completing, advancing, closing
  a range, opening, detaching, ending and folding do to debts), then through what a handler
  may say (`Speaks`), then through the actions. That the property has the two windows of
  section 6 was found by this proof: it failed at the boundary of a detachment, TLC gave the
  behaviour, and the windows are now marked where they are entered.

**Delivery** (`ChannelDeliveryProofs`). `TypeCorrect`, `OnceAdmitted` (`AdmittedOnce`),
`OwedKept` (`OwedIsKept`), `JoinKept` (`JoinStaysAttached`). Each claim of the present work
driver holds its one lease unless its relationship ended; a claim that found no session is
under a relationship that nobody joined since (`Unreached`); what a detachment declares is
given (`DetachKnows`); between a join and its backfill nothing is owed under the new
revision (`GapIsNew`).

**Client** (`ChannelClientProofs`). `TypeCorrect`, `OneProjection` (`ProjectedOnce`),
`CursorTrue` (`CursorVouches`), `BoundaryTrue` (`BoundaryVouches`). The invariant follows
each reader through the page it processes: everything below the event it holds is handled.

**Workspace** (`SemanticWorkspaceProofs`). `Stand` (`IntegrationStands`), `Kept`
(`IntegrationKeepsSource`) and `MainForward` (`MainFastForwards`). A commit compares with
each of its sources once; the theorems are about the same comparison in a graph that has
grown since. The graph only grows and what is committed never changes (`Grows`). The merge
bases, the selected base, the lines and the decisions on them lie in the past of the node
(`BasesStay`, `LinesStay`, `DecidedStays`), so the status of every file stays
(`StatusStays`). The walk also asks the decisions of the whole graph, and is disturbed only
by a merge that brings in a change of the line (`AccountedStays`, `ExplainedStays`,
`NewlyBroughtIn`). A decision remembers the node it was made at, whose line must lie on the
deciding line: nodes of which this holds are `GoodNode`, and every context stands at one. A
merge and a concluding commit compare once more in the graph they leave, which is read
through `After`; its operators are shown to be the primed ones (`AfterRow`,
`CompleteAfter`). `TypeCorrect` and `Recording` (`StatesRecorded`) rest on the same
invariant and no run states the latter: along every chain, a context's or a commit's, each
application changes each file from the value it had to the value it gets, by a change of
its own or by the merged source's (`Reused` asks for just that). So "recorded operations
explain that state" of every step; the finding `ComparisonExplained` and
`IntegrationsStayValid` (section 6) show that the steps together need not explain a
difference between two states. For main, a pending push keeps naming an ancestor of what it publishes.

**Missions** (`MissionRunsProofs`). `TypeCorrect`, `OneRunAtATime` (`OneLive`),
`SessionsEndWithRuns` (`RecordedSessionEnds`), `ReleasesVouch` (`ReleaseVouches`),
`AcknowledgedIsOver` (`AckAfterTerminal`) and `StopsHold` (`StopHolds`). The invariant adds
what an answer that was heard says about the host (`Sessions`), that whatever names a run
names a durable one (`Known`), who may still start or admit something while a release is
under way (`Sealed`), and what a marker forbids (`Stopped`). The argument is by what a step
may do to each part of the state (`RowsMove`, `DriversMove`, `CmdsMove`, `NetMoves`, …):
each action is shown once to be a move of that kind, and the invariant's parts are shown of
the moves; the stages of a release are shown one by one.

## 8. What is only model-checked, and what is left out

The prover does not handle liveness under fairness or `ENABLED`: `HandlersFinish`,
`DeadlineSettles`, both `ReleaseEnds`, `ReceiptsSettle`, `WaitersSettle`, `ForksEnd`,
`HandlersEnd`, `OwedIsTaken`, `ReplayArrives`, `Recovers` and `RunsEnd` are checked by TLC
only. Every invariant and every action property of a passing run, and the refinement, has
a theorem.

Not modelled in the channel: several lanes of one recipient, audiences and the routing of
an agent's reply; the maintenance queue and lineage-head outbox; policies; presence,
handles, metadata, the conversation's opening; the administrator's unsubscribe; renaming
and archiving forks and the resolution of a fork's locus; the encoding of the ledger; the
identity checks of callers. Between a clone's initialised storage and its fork point a claim
would fail for good; the host opens the clone after `postClone`, and the host is outside the
repository. In the client: skip mode, signals, roster, method calls, the retained window and
the expiry of remembered keys at 2000. In the workspace: aspects other than content,
structural groups and paging, external deltas and application sources, materialization
effects, the journal of commands and its replay, import, move, copy and undo, and the push
of main itself to a remote. In the missions: method, notify, tool and eval actions,
conversations that go on, launch and provisioning, `untilAt`, the completion's response, the
replay of edits, the outbox of notifications, standing authority, and observers. The
components outside are listed in `PROJECT.json` with the reason: planned, or I/O, rendering,
conversions and documents without protocol.
