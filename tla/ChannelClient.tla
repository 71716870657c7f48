--------------------------- MODULE ChannelClient ---------------------------
(***************************************************************************)
(* The reading half of a channel client (packages/pubsub/src/rpc-client.ts)*)
(* over the channel's response streams (workers/pubsub-channel/            *)
(* channel-do.ts, log-store.ts): the client opens a stream, applies the    *)
(* replay its acknowledgement carries, projects the live events that       *)
(* follow, repairs gaps by reading pages of the ledger, and opens another  *)
(* stream from its cursor when one ends.  Several readers may be at work,  *)
(* and the receipts of the client's own publications come in beside them.  *)
(* Events are their sequence numbers.                                      *)
(***************************************************************************)
EXTENDS Naturals, Sequences, FiniteSets

CONSTANTS
  Replaces,  \* may a new stream of the participant replace the others (not
             \* those of a person: each of its panels has one)
  MaxEvent,  \* bound on the ledger
  MaxOwn,    \* bound on the client's publications
  MaxFault,  \* bound on streams cut and readings failed
  MaxHost    \* bound on the host's reconnections, in behaviours without a fault

ASSUME ReplacesAssumption == Replaces \subseteq BOOLEAN
ASSUME LimitAssumption ==
  /\ MaxEvent \in Nat \ {0} 
  /\ MaxOwn \in Nat /\ MaxFault \in Nat /\ MaxHost \in Nat

VARIABLES
  replaces,
  len,       \* the ledger's last event
  own,       \* how many events the client published
  receipts,  \* own events whose receipt has not come
  wire,      \* the channel's side of each stream
  rd,        \* the reader of each stream
  active,    \* the client's active subscription
  complete,  \* replayComplete
  recovery,  \* none, requested, running, or again: requested while running
  seen,      \* lastSeenSeq
  handled,   \* replayMessageKeys
  busy,      \* processingLogMessages
  repairing,
  gapBuffer,
  liveBuffer,
  shown,     \* history: how often each event was projected
  overtaken, \* history: a receipt, or an event of a buffer, moved the cursor over others
  faults, hosts

channel == <<replaces, len, own, wire>>
buffers == <<repairing, gapBuffer, liveBuffer>>
cursor == <<seen, handled, busy, shown, overtaken>>
vars == <<channel, receipts, rd, active, complete, recovery, cursor, buffers, faults, hosts>>

Event == 1 .. MaxEvent
Stream == 1 .. MaxFault + MaxHost + 3
Fault == faults < MaxFault /\ hosts = 0 /\ faults' = faults + 1 /\ UNCHANGED hosts

NoWire == [at |-> "none", snap |-> 0, q |-> <<>>]
NoReader == [pc |-> "none", prev |-> 0, since |-> 0, acked |-> FALSE, list |-> <<>>,
             hold |-> 0, trigger |-> 0, dying |-> FALSE]
\* the events a to b in the order a page lists them
Seq1(a, b) == [i \in 1 .. (IF b < a THEN 0 ELSE b - a + 1) |-> a + i - 1]

\* the person's session opened: its relationship is in the ledger
Init ==
  /\ replaces \in Replaces
  /\ len = 1 /\ own = 0 /\ receipts = {}
  /\ wire = [g \in Stream |-> IF g = 1 THEN [NoWire EXCEPT !.at = "asked"] ELSE NoWire]
  /\ rd = [g \in Stream |-> IF g = 1 THEN [NoReader EXCEPT !.pc = "asked"] ELSE NoReader]
  /\ active = 1 /\ complete = FALSE /\ recovery = "none"
  /\ seen = 0 /\ handled = {} /\ busy = {}
  /\ repairing = FALSE /\ gapBuffer = <<>> /\ liveBuffer = <<>>
  /\ shown = [s \in Event |-> 0] /\ overtaken = FALSE /\ faults = 0 /\ hosts = 0

-----------------------------------------------------------------------------
(* The channel *)

\* broadcast: the committed event goes to every stream that is attached
Appended ==
  /\ len < MaxEvent /\ len' = len + 1
  /\ wire' = [g \in Stream |-> IF wire[g].at = "attached"
                                 THEN [wire[g] EXCEPT !.q = Append(@, len + 1)] ELSE wire[g]]
Append_ == Appended /\ UNCHANGED <<replaces, own, receipts, rd, active, complete, recovery,
                                   cursor, buffers, faults, hosts>>
Publish ==
  /\ own < MaxOwn /\ own' = own + 1 /\ Appended /\ receipts' = receipts \cup {len + 1}
  /\ UNCHANGED <<replaces, rd, active, complete, recovery, cursor, buffers, faults, hosts>>

(* subscribe: the replay is read and hydrated, then the stream is attached;  *)
(* an event committed in between is in neither                               *)
ReadReplay(g) ==
  /\ wire[g].at = "asked"
  /\ wire' = [wire EXCEPT ![g] = [@ EXCEPT !.at = "read", !.snap = len]]
  /\ UNCHANGED <<replaces, len, own, receipts, rd, active, complete, recovery, cursor, buffers, faults, hosts>>
OpenSubscriptionResponse(g) ==
  /\ wire[g].at = "read"
  /\ wire' = [h \in Stream |->
       IF h = g THEN [wire[g] EXCEPT !.at = "attached"]
       ELSE IF replaces /\ wire[h].at = "attached" THEN [wire[h] EXCEPT !.at = "cut"]
       ELSE wire[h]]
  /\ UNCHANGED <<replaces, len, own, receipts, rd, active, complete, recovery, cursor, buffers, faults, hosts>>

\* the stream is too slow, or the activation ended: what it held may be lost
Cut(g) ==
  /\ Fault /\ wire[g].at \in {"asked", "read", "attached"}
  /\ \E n \in 0 .. Len(wire[g].q) :
       wire' = [wire EXCEPT ![g] = [@ EXCEPT !.at = "cut", !.q = SubSeq(wire[g].q, 1, n)]]
  /\ UNCHANGED <<replaces, len, own, receipts, rd, active, complete, recovery, cursor, buffers>>

-----------------------------------------------------------------------------
(* Processing one event *)

\* mutant: nothing is remembered
RememberedNever(s) == FALSE
ReplayMessageWasHandled(s) == s \in handled

\* the processing of s a reader waits for
Hold(s) == s

\* handleServerMessage: the first begins, the others join what is under way
NextMessage(g) ==
  /\ rd[g].list # <<>> /\ rd[g].hold = 0
  /\ LET s == Head(rd[g].list)
         skip == ReplayMessageWasHandled(s) \/ (rd[g].pc = "repair" /\ s <= seen)
     IN /\ rd' = [rd EXCEPT ![g] = [@ EXCEPT !.list = Tail(rd[g].list), !.hold = IF skip THEN 0 ELSE Hold(s)]]
        /\ busy' = IF skip THEN busy ELSE busy \cup {s}
  /\ UNCHANGED <<channel, receipts, active, complete, recovery, seen, handled, shown, overtaken,
                 buffers, faults, hosts>>

\* publishAccepted: the answer is processed as a replayed event
Receipt(s) ==
  /\ s \in receipts /\ receipts' = receipts \ {s}
  /\ busy' = IF ReplayMessageWasHandled(s) THEN busy ELSE busy \cup {s}
  /\ UNCHANGED <<channel, rd, active, complete, recovery, seen, handled, shown, overtaken,
                 buffers, faults, hosts>>

\* who waited for s goes on
Released(s) == [g \in Stream |-> IF rd[g].hold = s THEN [rd[g] EXCEPT !.hold = 0] ELSE rd[g]]

\* processServerMessage completed: cursor and key are moved last
Processed(s) ==
  /\ s \in busy /\ busy' = busy \ {s}
  /\ handled' = handled \cup {s} /\ shown' = [shown EXCEPT ![s] = @ + 1]
  /\ seen' = IF s > seen THEN s ELSE seen
  /\ overtaken' = (overtaken \/ (s > seen + 1 /\ \A g \in Stream : rd[g].hold = s => rd[g].pc = "drain"))
  /\ rd' = Released(s)
  /\ UNCHANGED <<channel, receipts, active, complete, recovery, buffers, faults, hosts>>

-----------------------------------------------------------------------------
(* A reader: live or drain with nothing left to process, it waits for the wire *)

Idle(r) == r.list = <<>> /\ r.hold = 0
Ended(r) == [r EXCEPT !.pc = "ended", !.list = <<>>, !.hold = 0]
Waits(r) == r.pc \in {"live", "drain"} /\ Idle(r) /\ ~r.dying
\* controller.abort: who waits for the wire ends, who processes finishes first
Aborted(r) == IF r.pc = "asked" \/ Waits(r) THEN Ended(r)
              ELSE IF r.pc = "ended" THEN r ELSE [r EXCEPT !.dying = TRUE]

\* the first opening was overtaken: its opener takes that for a failure
OpeningAborted(g) == rd[g].prev = 1 /\ rd[1].pc = "asked"

\* the acknowledgement is the stream's first record; a recovery starts over
Acknowledge(g) ==
  /\ rd[g].pc = "asked" /\ wire[g].at = "attached"
  /\ rd' = [h \in Stream |->
       IF h = g THEN [rd[g] EXCEPT !.pc = "replay", !.acked = TRUE,
                                   !.list = Seq1(rd[g].since + 1, wire[g].snap)]
       ELSE IF h = rd[g].prev THEN Aborted(rd[h]) ELSE rd[h]]
  /\ wire' = [h \in Stream |->
       IF h = rd[g].prev THEN [wire[h] EXCEPT !.at = "cut", !.q = <<>>] ELSE wire[h]]
  /\ \/ g = 1 /\ UNCHANGED <<complete, liveBuffer, recovery>>
     \/ /\ g # 1 /\ complete' = FALSE /\ liveBuffer' = <<>>
        /\ recovery' = IF recovery = "again" \/ OpeningAborted(g) THEN "requested" ELSE "none"
  /\ UNCHANGED <<replaces, len, own, receipts, active, cursor, repairing, gapBuffer, faults, hosts>>

\* mutant: a gap of one is no gap
GapWide(s) == s > seen + 2
Gap(s) == s > seen + 1

\* handleSubscriptionPayload, up to its first await
Take(g) ==
  /\ Waits(rd[g]) /\ wire[g].q # <<>>
  /\ wire' = [wire EXCEPT ![g].q = Tail(@)]
  /\ LET s == Head(wire[g].q) IN
     \/ /\ ~complete
        /\ liveBuffer' = Append(liveBuffer, s) /\ UNCHANGED <<rd, gapBuffer, repairing>>
     \/ /\ complete /\ repairing
        /\ gapBuffer' = Append(gapBuffer, s) /\ UNCHANGED <<rd, liveBuffer, repairing>>
     \/ /\ complete /\ ~repairing /\ Gap(s)
        /\ repairing' = TRUE
        /\ rd' = [rd EXCEPT ![g] = [@ EXCEPT !.pc = "repair", !.list = Seq1(seen + 1, s - 1),
                                             !.trigger = s]]
        /\ UNCHANGED <<liveBuffer, gapBuffer>>
     \/ /\ complete /\ ~repairing /\ ~Gap(s)
        /\ rd' = [rd EXCEPT ![g] = [@ EXCEPT !.pc = "live", !.list = <<s>>]]
        /\ UNCHANGED <<liveBuffer, gapBuffer, repairing>>
  /\ UNCHANGED <<replaces, len, own, receipts, active, complete, recovery, cursor, faults, hosts>>

\* the end of the replay: the boundary, then what was held back
Ready(g) ==
  /\ rd[g].pc = "replay" /\ Idle(rd[g])
  /\ complete' = TRUE /\ liveBuffer' = <<>>
  /\ rd' = [rd EXCEPT ![g] = [@ EXCEPT !.pc = "drain", !.list = liveBuffer]]
  /\ UNCHANGED <<channel, receipts, active, recovery, cursor, repairing, gapBuffer, faults, hosts>>
\* the pages of the gap are in: the event that showed it
Repaired(g) ==
  /\ rd[g].pc = "repair" /\ Idle(rd[g])
  /\ repairing' = FALSE
  /\ rd' = [rd EXCEPT ![g] = [@ EXCEPT !.pc = "trigger", !.list = <<rd[g].trigger>>]]
  /\ UNCHANGED <<channel, receipts, active, complete, recovery, cursor, gapBuffer, liveBuffer, faults, hosts>>
\* then the events that came meanwhile, through another reader
Drain(g) ==
  /\ rd[g].pc = "trigger" /\ Idle(rd[g])
  /\ gapBuffer' = <<>>
  /\ rd' = [rd EXCEPT ![g] = [@ EXCEPT !.pc = "drain", !.list = gapBuffer]]
  /\ UNCHANGED <<channel, receipts, active, complete, recovery, cursor, repairing, liveBuffer, faults, hosts>>

-----------------------------------------------------------------------------
(* Failures and recovery *)

\* the catch of the reader: the active, unaborted one asks for a replacement
Loses(broken) == active \in broken /\ ~rd[active].dying
Requested(r) == IF r = "none" THEN "requested" ELSE r

\* mutant: an event is remembered when it is received
HandledAtOnce(s) == handled \cup {s}
\* "A replay key acknowledges completed processing": a failed one leaves no key
HandledAfterFailure(s) == handled

\* a handler or the hydration threw: all who joined the processing fail
ProcessFails(s) ==
  /\ Fault /\ s \in busy /\ busy' = busy \ {s} /\ handled' = HandledAfterFailure(s)
  /\ LET broken == {g \in Stream : rd[g].hold = s}
     IN /\ rd' = [g \in Stream |-> IF g \in broken THEN Ended(rd[g]) ELSE rd[g]]
        /\ repairing' = (repairing /\ \A g \in broken : rd[g].pc # "repair")
        /\ IF Loses(broken) THEN complete' = FALSE /\ recovery' = Requested(recovery)
           ELSE UNCHANGED <<complete, recovery>>
  /\ UNCHANGED <<channel, receipts, active, seen, shown, overtaken, gapBuffer, liveBuffer>>

\* getReplayAfter failed
PageFails(g) ==
  /\ Fault /\ rd[g].pc \in {"replay", "repair"} /\ rd[g].hold = 0
  /\ rd' = [rd EXCEPT ![g] = Ended(@)]
  /\ repairing' = (repairing /\ rd[g].pc # "repair")
  /\ IF Loses({g}) THEN complete' = FALSE /\ recovery' = Requested(recovery)
     ELSE UNCHANGED <<complete, recovery>>
  /\ UNCHANGED <<channel, receipts, active, cursor, gapBuffer, liveBuffer>>

\* mutant: an opening that fails is not repeated
AfterEndAcked(g) == IF g = active /\ rd[g].acked THEN "requested"
                    ELSE IF recovery = "running" THEN "none" ELSE recovery
\* the reader asks for a replacement, or the opener does, or the coordinator
AfterEnd(g) == IF g = active THEN "requested" ELSE IF rd[g].pc = "asked" THEN "again" ELSE recovery

\* the response ended after its acknowledgement, or before
StreamEnds(g) ==
  /\ wire[g].at = "cut"
  /\ \/ Waits(rd[g]) /\ wire[g].q = <<>> /\ UNCHANGED active
     \/ rd[g].pc = "asked" /\ active' = IF active = g THEN rd[g].prev ELSE active
  /\ rd' = [rd EXCEPT ![g] = Ended(@)]
  /\ complete' = (complete /\ g # active)
  /\ recovery' = AfterEnd(g)
  /\ UNCHANGED <<channel, receipts, cursor, buffers, faults, hosts>>

\* the host's transport came back: the coordinator runs the handler
Reconnect ==
  /\ hosts < MaxHost /\ faults = 0 /\ hosts' = hosts + 1
  /\ recovery = "none" /\ recovery' = "requested"
  /\ UNCHANGED <<channel, receipts, rd, active, complete, cursor, buffers, faults>>

\* recoverSubscription, openSubscription: another stream from the cursor
RecoverSubscription(g) ==
  /\ recovery = "requested" /\ rd[g].pc = "none" /\ \A h \in 1 .. g - 1 : rd[h].pc # "none"
  /\ recovery' = "running" /\ active' = g
  /\ rd' = [rd EXCEPT ![g] = [@ EXCEPT !.pc = "asked", !.prev = active, !.since = seen]]
  /\ wire' = [wire EXCEPT ![g].at = "asked"]
  /\ UNCHANGED <<replaces, len, own, receipts, complete, cursor, buffers, faults, hosts>>

Reader(g) == \/ NextMessage(g) \/ Acknowledge(g) \/ Take(g) \/ Ready(g) \/ Repaired(g)
             \/ Drain(g) \/ StreamEnds(g) \/ RecoverSubscription(g)
Channel(g) == ReadReplay(g) \/ OpenSubscriptionResponse(g)

Next == \/ Append_ \/ Publish \/ Reconnect
        \/ \E s \in Event : Receipt(s) \/ Processed(s) \/ ProcessFails(s)
        \/ \E g \in Stream : Reader(g) \/ Channel(g) \/ Cut(g) \/ PageFails(g)

Spec == Init /\ [][Next]_vars
\* the channel answers, the client's turns run, the coordinator repeats a
\* handler that failed
FairSpec == /\ Spec
            /\ \A g \in Stream : WF_vars(Reader(g)) /\ WF_vars(Channel(g))
            /\ \A s \in Event : WF_vars(Processed(s))

-----------------------------------------------------------------------------
Wire == [at : {"none", "asked", "read", "attached", "cut"}, snap : 0 .. MaxEvent, q : Seq(Event)]
ReaderState ==
  [pc : {"none", "asked", "replay", "repair", "trigger", "drain", "live", "ended"},
   prev : 0 .. MaxFault + MaxHost + 3, since : 0 .. MaxEvent, acked : BOOLEAN, list : Seq(Event),
   hold : 0 .. MaxEvent, trigger : 0 .. MaxEvent, dying : BOOLEAN]

\* Shapes of the state.
TypeOK ==
  /\ replaces \in BOOLEAN /\ len \in Event /\ own \in 0 .. MaxOwn /\ receipts \subseteq Event
  /\ wire \in [Stream -> Wire] /\ rd \in [Stream -> ReaderState]
  /\ active \in 0 .. MaxFault + MaxHost + 3 /\ complete \in BOOLEAN
  /\ recovery \in {"none", "requested", "running", "again"}
  /\ seen \in 0 .. MaxEvent /\ handled \subseteq Event /\ busy \subseteq Event
  /\ repairing \in BOOLEAN /\ gapBuffer \in Seq(Event) /\ liveBuffer \in Seq(Event)
  /\ shown \in [Event -> Nat] /\ overtaken \in BOOLEAN /\ faults \in 0 .. MaxFault /\ hosts \in 0 .. MaxHost

\* However the streams overlap, a replay meets a live delivery, a repair meets
\* both and a receipt comes in beside them, an event is projected once.
ProjectedOnce == \A s \in Event : shown[s] <= 1

\* The recovery cursor acknowledges completed processing: unless a receipt or a
\* held-back event moved it over a gap, every event below it was projected.
CursorVouches == overtaken \/ 1 .. seen \subseteq handled

\* A reader that announces the end of its replay has all of it projected, what
\* it left to another reader's processing included.
BoundaryVouches ==
  [][\A g \in Stream :
       rd[g].pc = "replay" /\ rd'[g].pc = "drain" /\ ~overtaken => 1 .. wire[g].snap \subseteq handled]_vars

\* What the active stream's acknowledgement promised is projected in the end,
\* though that stream, a page or the processing of an event fails.
ReplayArrives ==
  \A s \in Event :
    (active # 0 /\ rd[active].acked /\ s <= wire[active].snap) ~> (shown[s] > 0 \/ overtaken)

\* The client does not stay without a live stream behind a completed replay.
Recovers == []<>(complete /\ active # 0 /\ rd[active].acked /\ rd[active].pc # "ended")

\* "The durable replay cursor catches this generation up without a liveness
\* lease, timer, or best-effort unary cleanup call" (rpc-client.ts:2383-2384).
RecoveryCatchesUp ==
  \A g \in Stream, s \in Event :
    (g = active /\ rd[g].acked /\ s <= wire[g].snap) ~> (shown[s] > 0)
=============================================================================
