------------------------- MODULE SemanticWorkspace -------------------------
(***************************************************************************)
(* The semantic version control of a workspace                             *)
(* (workers/workspace-source/semanticWorkspace.ts, semanticVcsStore.ts):   *)
(* contexts fork from the protected main, author applications of changes   *)
(* on their working chain, merge committed events of other contexts file   *)
(* by file, commit the chain, and push.  A merge compares states and asks  *)
(* the recorded changes to explain them; its decisions become the commit's *)
(* parents; a push queues a host effect whose receipt moves main.          *)
(*                                                                         *)
(* Every operation is one transaction.  A file is one coordinate with one  *)
(* aspect, its content, and a content is a member of Value: texts are not  *)
(* composed.  Changes, applications and events are numbered as they are    *)
(* made; a state node is an event with the applications that follow it.    *)
(***************************************************************************)
EXTENDS Naturals, Sequences, FiniteSets, FiniteSetsExt, SequencesExt

CONSTANTS
  Context, File, Value, Initial, NoContext,
  MaxEvent,  \* bound on events
  MaxApp,    \* bound on applications
  MaxEdit,   \* bound on authored edits
  MaxDrop    \* bound on chains discarded and contexts dropped

ASSUME ValueAssumption == Initial \in Value
ASSUME NoContextAssumption == NoContext \notin [event : Nat, chain : Seq(Nat)]
ASSUME BoundAssumption ==
  /\ MaxEvent \in Nat \ {0} /\ MaxApp \in Nat /\ MaxEdit \in Nat /\ MaxDrop \in Nat

VARIABLES
  apps,     \* gad_changes, gad_work_unit_applications
  events,   \* gad_workspace_events
  ctx,      \* vcs_contexts: committed event and working chain
  main,     \* vcs_workspace_heads
  effects,  \* pending publish-main intents
  edits, drops

vars == <<apps, events, ctx, main, effects, edits, drops>>
graph == <<apps, events>>

NoDecision == [source |-> 0]
Nothing == [f \in File |-> 0]
Genesis == [first |-> 0, sources |-> {}, apps |-> <<>>, state |-> [f \in File |-> Initial],
            closure |-> {1}, line |-> {}, generation |-> 0]

Init ==
  /\ apps = <<>> /\ events = <<Genesis>>
  /\ ctx = [c \in Context |-> NoContext] /\ main = 1 /\ effects = {}
  /\ edits = 0 /\ drops = 0

INSTANCE SemanticHistory
After == INSTANCE SemanticHistory WITH apps <- apps', events <- events'

-----------------------------------------------------------------------------
(* Contexts *)

Live(c) == ctx[c] # NoContext

EnsureContext(c) ==
  /\ ~Live(c) /\ ctx' = [ctx EXCEPT ![c] = Clean(main)]
  /\ UNCHANGED <<graph, main, effects, edits, drops>>
\* forkContext copies the working head too
ForkContext(c, d) ==
  /\ Live(c) /\ ~Live(d) /\ ctx' = [ctx EXCEPT ![d] = ctx[c]]
  /\ UNCHANGED <<graph, main, effects, edits, drops>>
\* dropContext takes the context's pending effects along
DropContext(c) ==
  /\ Live(c) /\ drops < MaxDrop /\ drops' = drops + 1
  /\ ctx' = [ctx EXCEPT ![c] = NoContext]
  /\ effects' = {x \in effects : x.context # c}
  /\ UNCHANGED <<graph, main, edits>>

\* persistWorkingMutation, applyApplication: the chain grows by one application
Applied(change, made, decision, state) ==
  apps' = Append(apps, [change |-> change, made |-> made, decision |-> decision, state |-> state])

RoomForApplication == Len(apps) < MaxApp

\* edit; a move, copy, revert or import is such an application too
Edit(c, f, v) ==
  /\ Live(c) /\ RoomForApplication /\ edits < MaxEdit /\ edits' = edits + 1
  /\ LET root == StateRoot(ctx[c]) IN
     /\ v # root[f]
     /\ Applied([Nothing EXCEPT ![f] = Len(apps) + 1],
                [g \in {f} |-> [base |-> root[f], result |-> v, merges |-> {}]],
                NoDecision, [root EXCEPT ![f] = v])
  /\ ctx' = [ctx EXCEPT ![c].chain = Append(@, Len(apps) + 1)]
  /\ UNCHANGED <<events, main, effects, drops>>

-----------------------------------------------------------------------------
(* merge *)

\* without a selection every file that is no conflict is taken
Selections(cmp) ==
  (SUBSET Pending(cmp) \ {{}}) \cup
  (IF \A f \in Pending(cmp) : cmp[f].status = "conflict" THEN {{}} ELSE {})

\* the source's last change is reused where it describes this very application
Reused(cmp, f) ==
  /\ cmp[f].terminal # 0
  /\ Change(cmp[f].terminal, f).base = cmp[f].ours
  /\ Change(cmp[f].terminal, f).result = cmp[f].theirs

\* theirs takes the source's value; ours and current keep the target's.  An
\* ancestor has nothing pending and is concluded: unchanged
Merge(c, s) ==
  /\ Live(c) /\ RoomForApplication /\ s \notin events[ctx[c].event].closure
  /\ LET cmp == Comparison(ctx[c], s) IN
     /\ Explained(cmp)
     /\ \E S \in Selections(cmp) : \E theirs \in SUBSET S :
        LET taken == {f \in theirs : cmp[f].status # "convergent"}
            made == {f \in taken : ~Reused(cmp, f)}
            change == [f \in File |-> IF f \in made THEN Len(apps) + 1
                                      ELSE IF f \in taken THEN cmp[f].terminal ELSE 0]
        IN /\ S # {} \/ ~Concluded(ctx[c], s)
           /\ Applied(change,
                      [f \in made |-> [base |-> cmp[f].ours, result |-> cmp[f].theirs,
                                       merges |-> cmp[f].contributors]],
                      [source |-> s, target |-> ctx[c],
                       entries |-> [f \in S |-> [change |-> change[f],
                                                 accounted |-> cmp[f].accounted]]],
                      [f \in File |-> IF f \in taken THEN cmp[f].theirs ELSE cmp[f].ours])
  /\ ctx' = [ctx EXCEPT ![c].chain = Append(@, Len(apps) + 1)]
  /\ UNCHANGED <<events, main, effects, edits, drops>>
  \* the comparison after the merge belongs to the same transaction
  /\ After!Explained(After!Comparison(ctx'[c], s))

-----------------------------------------------------------------------------
(* commit, discard *)

Sources(chain) == {apps[a].decision.source : a \in Range(chain)} \ {0}

RoomForEvent == Len(events) < MaxEvent
Committed(c, n, sources) ==
  /\ events' = Append(events,
       [first |-> n.event, sources |-> sources, apps |-> n.chain,
        state |-> apps'[Last(n.chain)].state,
        closure |-> {Len(events) + 1} \cup
                    UNION {events[p].closure : p \in sources \cup {n.event}},
        line |-> FirstParentLineage(n),
        generation |-> 1 + Max({events[p].generation : p \in sources \cup {n.event}})])
  /\ ctx' = [ctx EXCEPT ![c] = Clean(Len(events) + 1)]
  /\ UNCHANGED <<main, effects, edits, drops>>

Commit(c) ==
  /\ Live(c) /\ RoomForEvent /\ ctx[c].chain # <<>>
  /\ IntegrationComplete(ctx[c], Sources(ctx[c].chain))
  /\ UNCHANGED apps
  /\ Committed(c, ctx[c], Sources(ctx[c].chain))

\* concludeSource: a source with nothing undecided is concluded by the commit
CommitConcluding(c, s) ==
  /\ Live(c) /\ RoomForApplication /\ RoomForEvent
  /\ ~Concluded(ctx[c], s) /\ Complete(ctx[c], s)
  /\ LET cmp == Comparison(ctx[c], s) IN
     Applied(Nothing, <<>>,
       [source |-> s, target |-> ctx[c],
        entries |-> [f \in Pending(cmp) |-> [change |-> 0, accounted |-> cmp[f].accounted]]],
       StateRoot(ctx[c]))
  /\ \E n \in {[ctx[c] EXCEPT !.chain = Append(@, Len(apps) + 1)]} :
       \E sources \in {Sources(ctx[c].chain) \cup {s}} :
         /\ Committed(c, n, sources)
         /\ After!IntegrationComplete(n, sources)

Discard(c) ==
  /\ Live(c) /\ ctx[c].chain # <<>> /\ drops < MaxDrop /\ drops' = drops + 1
  /\ ctx' = [ctx EXCEPT ![c].chain = <<>>]
  /\ UNCHANGED <<graph, main, effects, edits>>

-----------------------------------------------------------------------------
(* push and its receipt *)

\* assertIntegrationHistoryValid walks back to main
Unpublished[e \in DOMAIN events] ==
  IF e = main THEN {} ELSE {e} \cup UNION {Unpublished[p] : p \in Parents(e)}
Result(e) == [event |-> events[e].first, chain |-> events[e].apps]
IntegrationValid(e) == \A s \in events[e].sources : Complete(Result(e), s)

FastForward(e) == main \in events[e].closure

Push(c) ==
  /\ Live(c) /\ ctx[c].chain = <<>> /\ FastForward(ctx[c].event)
  /\ ctx[c].event # main  \* a push of main itself moves nothing and is left out
  /\ \A e \in Unpublished[ctx[c].event] : IntegrationValid(e)
  /\ effects' = effects \cup {[context |-> c, previous |-> main, published |-> ctx[c].event]}
  /\ UNCHANGED <<graph, ctx, main, edits, drops>>

\* mutant: the receipt is taken though main has moved
StillMainUnasked(x) == TRUE
StillMain(x) == main = x.previous

\* applyPublicationReceipt; a receipt that comes too late is refused
Acknowledge(x) ==
  /\ x \in effects /\ StillMain(x)
  /\ main' = x.published /\ effects' = effects \ {x}
  /\ UNCHANGED <<graph, ctx, edits, drops>>

Next ==
  \/ \E c \in Context :
       \/ EnsureContext(c) \/ DropContext(c) \/ Commit(c) \/ Discard(c) \/ Push(c)
       \/ \E d \in Context : ForkContext(c, d)
       \/ \E f \in File, v \in Value : Edit(c, f, v)
       \/ \E s \in DOMAIN events : Merge(c, s)
       \/ \E s \in DOMAIN events : CommitConcluding(c, s)
  \/ \E x \in effects : Acknowledge(x)

Spec == Init /\ [][Next]_vars

-----------------------------------------------------------------------------
(* Types *)

State == [File -> Value]
StateNode == [event : DOMAIN events, chain : Seq(DOMAIN apps)]
ChangeState == [base : Value, result : Value, merges : SUBSET DOMAIN apps]
Entry == [change : DOMAIN apps \cup {0}, accounted : SUBSET DOMAIN apps]
EventState ==
  [first : DOMAIN events \cup {0}, sources : SUBSET DOMAIN events, apps : Seq(DOMAIN apps),
   state : State, closure : SUBSET DOMAIN events, line : SUBSET DOMAIN apps, generation : Nat]
DecisionTyped(d) ==
  /\ d.source \in DOMAIN events /\ d.target \in StateNode
  /\ DOMAIN d.entries \subseteq File /\ d.entries \in [DOMAIN d.entries -> Entry]
ApplicationTyped(a) ==
  /\ a.change \in [File -> DOMAIN apps \cup {0}] /\ a.state \in State
  /\ DOMAIN a.made \subseteq File /\ a.made \in [DOMAIN a.made -> ChangeState]
  /\ a.decision.source # 0 => DecisionTyped(a.decision)
\* Every variable has its type, and names only what there is.
TypeOK ==
  /\ apps \in Seq(Range(apps)) /\ Len(apps) <= MaxApp
  /\ \A a \in DOMAIN apps : ApplicationTyped(apps[a])
  /\ events \in Seq(EventState) /\ Len(events) \in 1 .. MaxEvent
  /\ ctx \in [Context -> StateNode \cup {NoContext}]
  /\ main \in DOMAIN events
  /\ effects \subseteq [context : Context, previous : DOMAIN events, published : DOMAIN events]
  /\ edits \in 0 .. MaxEdit /\ drops \in 0 .. MaxDrop

-----------------------------------------------------------------------------
(* Properties *)

\* Protected main only moves to descendants of itself, whatever contexts push
\* side by side and in whichever order their receipts come.
MainFastForwards == [][main' # main => main \in events[main'].closure]_vars

\* a merge recorded after e has brought in again a change of f that the integration of s walks
BroughtInSince(e, s, f) ==
  \E a \in events[e].line \cup events[s].line :
    /\ apps[a].change[f] # 0
    /\ \E b \in BroughtIn(apps[a].change[f], f) : b > Last(events[e].apps)
\* What a commit accepted as integrated stays decided for good; and a push refuses it
\* as unexplained only where a merge elsewhere has since brought in again a change
\* that the walk passes.
IntegrationStands ==
  \A e \in DOMAIN events : \A s \in events[e].sources :
    LET cmp == Comparison(Result(e), s)
    IN \A f \in File : /\ cmp[f].status \in Settled
                       /\ cmp[f].explained \/ BroughtInSince(e, s, f)

\* the files the source's own line changed, and holds otherwise than some common ancestor
OwnDifferences(n, s) ==
  {f \in File : /\ \E b \in MaximalMergeBases(n, s) : events[b].state[f] # events[s].state[f]
                /\ \E a \in events[s].line \ Shared(n, s, Base(n, s)) : apps[a].change[f] # 0}
\* An integration has what its source's own line made of a file, or a decision
\* about it, whatever was edited between the merge and the commit.
IntegrationKeepsSource ==
  \A e \in DOMAIN events : \A s \in events[e].sources :
    \A f \in OwnDifferences(Result(e), s) :
      events[e].state[f] = events[s].state[f] \/ DecidedAt(events[e].line, s, f) # {}

\* The recorded changes explain every comparison a merge may ask for ("Recorded
\* operations explain that state", compare-and-merge.md).  They do not: a decision
\* for the target's value records no change the next walk could follow.
ComparisonExplained ==
  \A c \in Context, s \in DOMAIN events :
    Live(c) /\ s \notin events[ctx[c].event].closure => Explained(Comparison(ctx[c], s))
=============================================================================
