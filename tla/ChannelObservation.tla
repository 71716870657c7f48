-------------------------- MODULE ChannelObservation --------------------------
(***************************************************************************)
(* How a channel's own ledger reaches the workspace's log authority:       *)
(* the observation debt of channel-ledger.ts, the single                   *)
(* channel_observation_claim row of channel-do.ts with its claim, prepare, *)
(* execute, settle and fail calls, and the waiters for an observed prefix. *)
(*                                                                         *)
(* The host's durable-work driver claims a channel's debt, runs it in the  *)
(* channel and settles it.  The channel outlives drivers: a new one adopts *)
(* the channel while calls of the old one are still under way.             *)
(***************************************************************************)
EXTENDS SemanticLog

CONSTANTS
  Channel,
  Root,          \* the channels that are not forks
  ForkPlan,      \* [child, parent] pairs of forks that may be made
  Awaited,       \* the channels a caller waits for (waitObservedThrough)
  PageLimit,     \* MAX_CHANNEL_REPLAY_PAGE_LIMIT
  MaxEvent,      \* bound: events appended by all channels
  MaxWorker,     \* bound: generations of the host's driver
  Interrupted,   \* whether an append may end between storing and announcing
  Unborn, NoRow, NoRequest

ASSUME ChannelAssumption ==
  /\ Root \subseteq Channel /\ Awaited \subseteq Channel /\ NoParent \notin Channel
  /\ ForkPlan \subseteq [child : Channel \ Root, parent : Channel]
ASSUME BoundAssumption ==
  /\ PageLimit \in Nat \ {0} /\ MaxWorker \in Nat \ {0}
  /\ MaxEvent \in Nat /\ Interrupted \in BOOLEAN

Worker == 1..MaxWorker
NoWorker == 0
Event == 1..MaxEvent

Kind == {"fork", "root", "append"}
LedgerState == [events : Seq(Event), observed : Nat, rootObserved : BOOLEAN,
                parentObserved : BOOLEAN, parent : Channel \cup {NoParent}, forkSeq : Nat]
RowState == [kind : Kind, first : Nat, through : Nat, gen : Nat,
             disposition : {"ready", "leased", "failed"}, owner : Worker \cup {NoWorker}]
Phase == {"idle", "claimed", "waiting", "prepared", "asked", "answered", "refused"}
AttemptState == [kind : Kind, first : Nat, through : Nat, gen : Nat, phase : Phase]
RequestState == [kind : Kind, gen : Nat, parent : Channel \cup {NoParent}, through : Nat,
                 prefix : Seq(Event), batch : Seq(Event)]
LogState == [parent : Channel \cup {NoParent}, forkSeq : Nat, events : Seq(Event)]
WaiterState == [sequence : Nat, state : {"none", "open", "resolved"}]

ASSUME AbsenceAssumption ==
  /\ Unborn \notin LedgerState /\ NoRow \notin RowState /\ Absent \notin LogState

VARIABLES
  ledger,     \* channel_ledger_events and channel_ledger_state of each channel
  issued,     \* events appended so far
  row,        \* channel_observation_claim
  worker,     \* the driver each channel has adopted
  offered,    \* readiness not acknowledged, or a scan the driver still owes
  host,       \* the driver of the moment
  attempt,    \* what each driver does about each channel
  request,    \* its request to the log authority
  graph,      \* the log authority
  waiter      \* waitObservedThrough calls of callers

observationVars == <<ledger, issued, row, worker, offered, host, attempt, request, graph,
          waiter>>

NewLedger == [events |-> <<>>, observed |-> 0, rootObserved |-> FALSE,
              parentObserved |-> TRUE, parent |-> NoParent, forkSeq |-> 0]
Idle == [kind |-> "root", first |-> 0, through |-> 0, gen |-> 0, phase |-> "idle"]
NotWaiting == [sequence |-> 0, state |-> "none"]
Live == {ch \in Channel : ledger[ch] # Unborn}

-----------------------------------------------------------------------------
(* The debt *)

\* what is to be observed next, or nothing
PeekObservation(l) ==
  IF ~l.parentObserved
    THEN {[kind |-> "fork", first |-> 0, through |-> l.forkSeq]}
  ELSE IF ~l.rootObserved /\ l.events = <<>>
    THEN {[kind |-> "root", first |-> 0, through |-> 0]}
  ELSE IF Len(l.events) > l.observed
    THEN {[kind |-> "append", first |-> l.observed + 1,
           through |-> IF Len(l.events) < l.observed + PageLimit
                         THEN Len(l.events) ELSE l.observed + PageLimit]}
  ELSE {}

ObservationReady(l, r) ==
  /\ IF r = NoRow THEN TRUE ELSE r.disposition = "ready"
  /\ PeekObservation(l) # {}

\* releaseDurableWorkClaims, when the driver adopts the channel
Released(ch) ==
  IF row[ch] = NoRow \/ worker[ch] = host THEN row[ch]
  ELSE IF row[ch].disposition = "leased" /\ row[ch].owner = worker[ch]
    THEN [row[ch] EXCEPT !.disposition = "ready", !.owner = NoWorker]
  ELSE row[ch]

\* a recovered root claim stays one, and a recovered claim keeps its prefix
Observation(ch) ==
  LET due == CHOOSE o \in PeekObservation(ledger[ch]) : TRUE
  IN  IF row[ch] = NoRow THEN due
      ELSE IF row[ch].kind = "root" THEN [kind |-> "root", first |-> 0, through |-> 0]
      ELSE [due EXCEPT !.through = row[ch].through]

SameClaim(a, r) == <<a.kind, a.first, a.gen>> = <<r.kind, r.first, r.gen>>
Leases(w, ch) ==
  IF row[ch] = NoRow THEN FALSE
  ELSE SameClaim(attempt[w][ch], row[ch]) /\ row[ch].disposition = "leased"

-----------------------------------------------------------------------------
(* Waiting for an observed prefix *)

\* settleObservationWaiters, for one waiter
Verdict(l, r, n) ==
  IF l.rootObserved /\ l.observed >= n THEN "resolved"
  ELSE IF r = NoRow THEN "open"
  ELSE IF r.disposition = "failed" THEN "rejected" ELSE "open"

\* the wait for n; one that was rejected leaves nothing behind
Waiter(n, verdict) ==
  IF verdict = "rejected" THEN NotWaiting ELSE [sequence |-> n, state |-> verdict]

\* what the child's prepare does with its parent's answer
PreparedBy(c, verdict) ==
  LET l == ledger[c]
      exact == Prefix(ledger[l.parent].events, l.forkSeq) = Prefix(l.events, l.forkSeq)
  IN  CASE verdict = "open" -> "waiting"
        [] verdict = "resolved" /\ exact -> "prepared"
        [] OTHER -> "refused"

\* callers and children that wait for ch learn its verdict
WokenWaiters(ch, l, r) ==
  [c \in Awaited |->
     IF c = ch /\ waiter[c].state = "open"
       THEN Waiter(waiter[c].sequence, Verdict(l, r, waiter[c].sequence))
       ELSE waiter[c]]
WokenAttempts(ch, l, r) ==
  [w \in Worker |-> [c \in Channel |->
     IF attempt[w][c].phase = "waiting" /\ ledger[c].parent = ch
       THEN [attempt[w][c] EXCEPT !.phase =
               PreparedBy(c, Verdict(l, r, ledger[c].forkSeq))]
       ELSE attempt[w][c]]]

WaitObservedThrough(ch, n) ==
  /\ waiter[ch].state = "none" /\ ledger[ch] # Unborn
  /\ n \in 0..Len(ledger[ch].events)
  /\ waiter' = [waiter EXCEPT ![ch] = Waiter(n, Verdict(ledger[ch], row[ch], n))]
  /\ offered' = [offered EXCEPT ![ch] = @ \/ ObservationReady(ledger[ch], row[ch])]
  /\ UNCHANGED <<ledger, issued, row, worker, host, attempt, request, graph>>

AbortWait(ch) ==
  /\ waiter[ch].state = "open"
  /\ waiter' = [waiter EXCEPT ![ch] = NotWaiting]
  /\ UNCHANGED <<ledger, issued, row, worker, offered, host, attempt, request,
                 graph>>

-----------------------------------------------------------------------------
(* Channels *)

\* commitPublication: stored first, announced after the folds that follow
AppendDurable(ch) ==
  /\ ledger[ch] # Unborn /\ issued < MaxEvent
  /\ issued' = issued + 1
  /\ ledger' = [ledger EXCEPT ![ch].events = Append(@, issued')]
  /\ \E announced \in {TRUE, ~Interrupted} :
       offered' = [offered EXCEPT ![ch] = @ \/ announced]
  /\ UNCHANGED <<row, worker, host, attempt, request, graph, waiter>>

\* the clone keeps a prefix of the parent's events and owes the fork
PostClone(f, n) ==
  /\ ledger[f.child] = Unborn /\ ledger[f.parent] # Unborn
  /\ n \in 0..Len(ledger[f.parent].events)
  /\ ledger' = [ledger EXCEPT ![f.child] =
       [NewLedger EXCEPT !.events = Prefix(ledger[f.parent].events, n),
                         !.parentObserved = FALSE, !.parent = f.parent, !.forkSeq = n]]
  /\ offered' = [offered EXCEPT ![f.child] = TRUE]
  /\ UNCHANGED <<issued, row, worker, host, attempt, request, graph, waiter>>

\* the activation goes away with the calls it serves; what it sent may arrive
Evict(ch) ==
  /\ ledger[ch] # Unborn
  /\ waiter' = [c \in Awaited |-> IF c = ch /\ waiter[c].state = "open"
                                    THEN NotWaiting ELSE waiter[c]]
  /\ attempt' = [w \in Worker |-> [c \in Channel |->
       IF \/ c = ch /\ attempt[w][c].phase \in {"waiting", "asked"}
          \/ attempt[w][c].phase = "waiting" /\ ledger[c].parent = ch
         THEN [attempt[w][c] EXCEPT !.phase = "refused"]
         ELSE attempt[w][c]]]
  /\ UNCHANGED <<ledger, issued, row, worker, offered, host, request, graph>>

-----------------------------------------------------------------------------
(* The driver's calls *)

\* a new driver comes up and owes every channel a scan
HostRestart ==
  /\ host < MaxWorker /\ host' = host + 1
  /\ offered' = [ch \in Channel |-> ledger[ch] # Unborn]
  /\ UNCHANGED <<ledger, issued, row, worker, attempt, request, graph, waiter>>

AdoptDurableWorkWorker(ch) ==
  /\ ledger[ch] # Unborn /\ worker[ch] # host
  /\ worker' = [worker EXCEPT ![ch] = host]
  /\ row' = [row EXCEPT ![ch] = Released(ch)]
  /\ UNCHANGED <<ledger, issued, offered, host, attempt, request, graph, waiter>>

ClaimObservation(ch) ==
  LET o == Observation(ch)
      gen == IF row[ch] = NoRow THEN 1 ELSE row[ch].gen + 1
  IN
  /\ ledger[ch] # Unborn /\ offered[ch] /\ attempt[host][ch].phase = "idle"
  /\ ObservationReady(ledger[ch], Released(ch))
  /\ worker' = [worker EXCEPT ![ch] = host]
  /\ row' = [row EXCEPT ![ch] =
       [kind |-> o.kind, first |-> o.first, through |-> o.through, gen |-> gen,
        disposition |-> "leased", owner |-> host]]
  /\ attempt' = [attempt EXCEPT ![host][ch] =
       [kind |-> o.kind, first |-> o.first, through |-> o.through, gen |-> gen,
        phase |-> "claimed"]]
  /\ UNCHANGED <<ledger, issued, offered, host, request, graph, waiter>>

GoTo(w, ch, phase) == attempt' = [attempt EXCEPT ![w][ch].phase = phase]

\* prepareChannelObservationClaim: the child waits in its parent
PrepareClaim(w, ch) ==
  LET p == ledger[ch].parent
      n == ledger[ch].forkSeq
  IN
  /\ attempt[w][ch].phase = "claimed" /\ attempt[w][ch].kind = "fork"
  /\ IF Leases(w, ch)
       THEN /\ GoTo(w, ch, PreparedBy(ch, Verdict(ledger[p], row[p], n)))
            /\ offered' = [offered EXCEPT ![p] = @ \/ ObservationReady(ledger[p], row[p])]
       ELSE GoTo(w, ch, "refused") /\ UNCHANGED offered
  /\ UNCHANGED <<ledger, issued, row, worker, host, request, graph, waiter>>

\* executeChannelObservationClaim up to its request; the request carries what
\* the receipt must agree with
ExecuteObservation(w, ch) ==
  LET l == ledger[ch]
      o == IF row[ch].kind = "root" THEN [kind |-> "root", first |-> 0]
           ELSE CHOOSE d \in PeekObservation(l) : TRUE
      through == row[ch].through
  IN
  /\ attempt[w][ch].phase = IF attempt[w][ch].kind = "fork" THEN "prepared" ELSE "claimed"
  /\ IF Leases(w, ch)
       THEN /\ request' = [request EXCEPT ![w][ch] =
                 [kind |-> o.kind, gen |-> row[ch].gen, parent |-> l.parent,
                  through |-> through, prefix |-> Prefix(l.events, through),
                  batch |-> IF o.kind = "append" THEN SubSeq(l.events, o.first, through)
                            ELSE <<>>]]
            /\ GoTo(w, ch, "asked")
       ELSE GoTo(w, ch, "refused") /\ UNCHANGED request
  /\ UNCHANGED <<ledger, issued, row, worker, offered, host, graph, waiter>>

\* the log authority serves a request, and the channel checks the receipt
Serve(w, ch) ==
  LET q == request[w][ch]
      a == attempt[w][ch]
      served == CASE q.kind = "root" -> InitializeLogHead(graph, ch)
                  [] q.kind = "fork" -> ForkLog(graph, q.parent, ch, q.through)
                  [] q.kind = "append" -> AppendLogEvent(graph, ch, q.batch)
      exact == served.ok /\ Prefix(EventsOf(served.graph, ch), q.through) = q.prefix
  IN
  /\ q # NoRequest
  /\ graph' = served.graph
  /\ request' = [request EXCEPT ![w][ch] = NoRequest]
  /\ IF a.phase = "asked" THEN GoTo(w, ch, IF exact THEN "answered" ELSE "refused")
     ELSE UNCHANGED attempt
  /\ UNCHANGED <<ledger, issued, row, worker, offered, host, waiter>>

\* the answer never arrives
LoseAnswer(w, ch) ==
  /\ attempt[w][ch].phase = "asked"
  /\ GoTo(w, ch, "refused")
  /\ UNCHANGED <<ledger, issued, row, worker, offered, host, request, graph, waiter>>

\* mutant: everything there is counts as observed
MarkedToHead(l, r) ==
  CASE r.kind = "root" -> [l EXCEPT !.rootObserved = TRUE]
    [] r.kind = "fork" -> [l EXCEPT !.rootObserved = TRUE, !.parentObserved = TRUE,
                                    !.observed = l.forkSeq]
    [] r.kind = "append" -> [l EXCEPT !.rootObserved = TRUE, !.observed = Len(l.events)]
Marked(l, r) ==
  CASE r.kind = "root" -> [l EXCEPT !.rootObserved = TRUE]
    [] r.kind = "fork" -> [l EXCEPT !.rootObserved = TRUE, !.parentObserved = TRUE,
                                    !.observed = l.forkSeq]
    [] r.kind = "append" -> [l EXCEPT !.rootObserved = TRUE, !.observed = r.through]

Conclude(w, ch, l, r) ==
  /\ ledger' = [ledger EXCEPT ![ch] = l]
  /\ row' = [row EXCEPT ![ch] = r]
  /\ attempt' = [WokenAttempts(ch, l, r) EXCEPT ![w][ch] = Idle]
  /\ waiter' = WokenWaiters(ch, l, r)
  /\ UNCHANGED <<issued, worker, host, request, graph>>

\* mutant: the readiness of the whole queue is acknowledged
SettleAcknowledges(w, ch) ==
  LET owns == Leases(w, ch) /\ row[ch].owner = w IN
  /\ attempt[w][ch].phase = "answered"
  /\ Conclude(w, ch, IF owns THEN Marked(ledger[ch], row[ch]) ELSE ledger[ch],
            IF owns THEN NoRow ELSE row[ch])
  /\ offered' = [offered EXCEPT ![ch] = FALSE]
\* settleObservation: accepted, a duplicate or stale, readiness follows the debt
SettleObservation(w, ch) ==
  LET owns == Leases(w, ch) /\ row[ch].owner = w
      l == IF owns THEN Marked(ledger[ch], row[ch]) ELSE ledger[ch]
      r == IF owns THEN NoRow ELSE row[ch]
  IN
  /\ attempt[w][ch].phase = "answered"
  /\ Conclude(w, ch, l, r)
  /\ offered' = [offered EXCEPT ![ch] = ObservationReady(l, r)]

\* failObservation: a failure is final, or stale
FailObservation(w, ch) ==
  LET owns == Leases(w, ch) /\ row[ch].owner = w
      r == [row[ch] EXCEPT !.disposition = "failed", !.owner = NoWorker]
  IN
  /\ attempt[w][ch].phase = "refused"
  /\ IF owns THEN /\ Conclude(w, ch, ledger[ch], r)
                  /\ offered' = [offered EXCEPT ![ch] = FALSE]
     ELSE /\ attempt' = [attempt EXCEPT ![w][ch] = Idle]
          /\ UNCHANGED <<ledger, issued, row, worker, offered, host, request, graph,
                         waiter>>

-----------------------------------------------------------------------------

ObservationInit ==
  /\ ledger = [ch \in Channel |-> IF ch \in Root THEN NewLedger ELSE Unborn]
  /\ issued = 0
  /\ row = [ch \in Channel |-> NoRow] /\ worker = [ch \in Channel |-> NoWorker]
  /\ offered = [ch \in Channel |-> FALSE]
  /\ host = 1
  /\ attempt = [w \in Worker |-> [ch \in Channel |-> Idle]]
  /\ request = [w \in Worker |-> [ch \in Channel |-> NoRequest]]
  /\ graph = [ch \in Channel |-> Absent]
  /\ waiter = [ch \in Awaited |-> NotWaiting]

Drive(w, ch) == \/ PrepareClaim(w, ch) \/ ExecuteObservation(w, ch)
                \/ SettleObservation(w, ch) \/ FailObservation(w, ch)

ObservationNext ==
  \/ \E ch \in Channel : \/ AppendDurable(ch) \/ Evict(ch)
                         \/ AdoptDurableWorkWorker(ch) \/ ClaimObservation(ch)
  \/ \E f \in ForkPlan : \E n \in 0..MaxEvent : PostClone(f, n)
  \/ \E w \in Worker, ch \in Channel : Drive(w, ch) \/ Serve(w, ch) \/ LoseAnswer(w, ch)
  \/ \E ch \in Awaited : AbortWait(ch) \/ \E n \in 0..MaxEvent : WaitObservedThrough(ch, n)
  \/ HostRestart

\* the driver of the moment goes on with its work, the log authority serves requests
Onward ==
  \E ch \in Channel :
    ClaimObservation(ch) \/ Drive(host, ch) \/ \E w \in Worker : Serve(w, ch)
ObservationFairness == WF_observationVars(Onward)

ObservationSpec == ObservationInit /\ [][ObservationNext]_observationVars /\ ObservationFairness

-----------------------------------------------------------------------------
(* Properties *)

\* Every variable has its type.
ObservationTypeOK ==
  /\ ledger \in [Channel -> LedgerState \cup {Unborn}]
  /\ issued \in 0..MaxEvent
  /\ row \in [Channel -> RowState \cup {NoRow}]
  /\ worker \in [Channel -> Worker \cup {NoWorker}]
  /\ offered \in [Channel -> BOOLEAN]
  /\ host \in Worker
  /\ attempt \in [Worker -> [Channel -> AttemptState]]
  /\ request \in [Worker -> [Channel -> RequestState \cup {NoRequest}]]
  /\ graph \in [Channel -> LogState \cup {Absent}]
  /\ waiter \in [Awaited -> WaiterState]

\* The log authority never holds anything of a channel but a prefix of the
\* channel's own ledger, under the lineage the channel has: whatever drivers,
\* late requests and evictions do, no event is doubled, skipped or misfiled.
GraphFollowsLedger ==
  \A ch \in Channel : graph[ch] # Absent =>
    /\ ledger[ch] # Unborn
    /\ IsPrefix(graph[ch].events, ledger[ch].events)
    /\ graph[ch].parent = ledger[ch].parent /\ graph[ch].forkSeq = ledger[ch].forkSeq

Holds(ch, n) == graph[ch] # Absent /\ n <= Len(EventsOf(graph, ch))

\* Whoever is told that a prefix is observed finds it in the log authority: a
\* caller, and a child whose fork is about to be made, so that no fork is ever
\* refused because its parent is not there yet.
WaitVouches ==
  /\ \A ch \in Awaited : waiter[ch].state = "resolved" => Holds(ch, waiter[ch].sequence)
  /\ \A w \in Worker, ch \in Channel :
       attempt[w][ch].kind = "fork" /\ attempt[w][ch].phase \in {"prepared", "asked", "answered"}
         => Holds(ledger[ch].parent, ledger[ch].forkSeq)

\* Everyone who waits for an observed prefix is answered: by the observation or
\* by its failure, through any number of forks, replaced drivers and evictions,
\* and even if the append itself was interrupted before it was announced.
WaitersSettle ==
  \A ch \in Awaited : waiter[ch].state = "open" ~> waiter[ch].state # "open"
=============================================================================
