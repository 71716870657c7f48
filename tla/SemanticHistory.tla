-------------------------- MODULE SemanticHistory --------------------------
(***************************************************************************)
(* What semantic version control reads from its graph                      *)
(* (workers/workspace-source/semanticWorkspace.ts): the state at a node,   *)
(* its first-parent line, the merge bases of two events, the changes that  *)
(* explain a difference, and the comparison of a merge.                    *)
(*                                                                         *)
(* A state node is an event with the applications that follow it, in a     *)
(* context's working chain or in a commit.  Applications are numbered as   *)
(* they are made, so that a line is a set of them: their order along it is *)
(* the order of their numbers.                                             *)
(***************************************************************************)
EXTENDS Naturals, Sequences, FiniteSetsExt, SequencesExt

CONSTANTS
  File,
  apps,   \* gad_work_unit_applications: the change applied to each file (0: none),
          \* the decision, the resulting state; and the gad_changes made for it:
          \* base, result and the changes merged.  A change is named by the
          \* application it was made for
  events  \* gad_workspace_events: first parent, merge sources, applications and
          \* resulting state, and what the walks over the parents find: ancestry,
          \* first-parent line, generation

(* States and histories *)

Clean(e) == [event |-> e, chain |-> <<>>]
StateRoot(n) == IF n.chain = <<>> THEN events[n.event].state ELSE apps[Last(n.chain)].state
FirstParentLineage(n) == events[n.event].line \cup Range(n.chain)
Parents(e) == ({events[e].first} \ {0}) \cup events[e].sources

MaximalMergeBases(n, s) ==
  LET common == events[n.event].closure \cap events[s].closure
  IN {b \in common : \A d \in common : b \notin Parents(d)}
\* the highest generation first; a tie is broken by the digests, here the numbers
First(generation) ==
  CHOOSE b \in DOMAIN generation : \A d \in DOMAIN generation \ {b} :
    \/ generation[d] < generation[b]
    \/ generation[d] = generation[b] /\ b < d
Base(n, s) == First([b \in MaximalMergeBases(n, s) |-> events[b].generation])

\* changesInApplications that touch f: a change counts where it is first applied
Touching(line, f) ==
  {a \in line : /\ apps[a].change[f] # 0
                /\ \A b \in line : b < a => apps[b].change[f] # apps[a].change[f]}

Change(c, f) == apps[c].made[f]

Decides(a, s, f) == apps[a].decision.source = s /\ f \in DOMAIN apps[a].decision.entries
DecidedAt(line, s, f) == {a \in line : Decides(a, s, f)}

-----------------------------------------------------------------------------
(* Attribution: the changes that explain a difference *)

\* the merges that brought change c of f in, wherever they were recorded
BroughtIn(c, f) ==
  {a \in DOMAIN apps : /\ apps[a].decision.source # 0
                       /\ f \in DOMAIN apps[a].decision.entries
                       /\ apps[a].decision.entries[f].change = c}
\* isDecisionAccountedIntroduction: the values such a change is known to follow
Accounted(c, f) ==
  {StateRoot(apps[a].decision.target)[f] : a \in BroughtIn(c, f)} \cup
  {Change(x, f).result : x \in UNION {apps[a].decision.entries[f].accounted : a \in BroughtIn(c, f)}}

\* what a walk along the line reads of its changes
Steps(touching, f) ==
  [a \in touching |->
     LET c == apps[a].change[f]
     IN [id |-> c, base |-> Change(c, f).base, result |-> Change(c, f).result,
         merges |-> Change(c, f).merges, accounted |-> Accounted(c, f)]]

\* coordinateAttribution: from the first change that starts at the base, each
\* continues the last
Walked(steps, base) ==
  LET step(acc, a) ==
        LET c == steps[a]
        IN IF c.base = c.result THEN acc
           ELSE IF c.base = acc.value \/ acc.value \in c.accounted
             THEN [acc EXCEPT !.value = c.result, !.first = IF @ = 0 THEN a ELSE @]
             ELSE [acc EXCEPT !.broken = @ \/ acc.first # 0]
      walk[a \in 0 .. Max(DOMAIN steps \cup {0})] ==
        IF a = 0 THEN [value |-> base, first |-> 0, broken |-> FALSE]
        ELSE IF a \in DOMAIN steps THEN step(walk[a - 1], a) ELSE walk[a - 1]
  IN walk[Max(DOMAIN steps \cup {0})]
\* otherwise IntegrityFailure
Explains(steps, base, final) ==
  base = final \/ LET w == Walked(steps, base) IN w.first # 0 /\ ~w.broken /\ w.value = final
\* expandMergeAttribution: a merge stands for what it merged
Attribution(steps, base, final) ==
  LET walked == {a \in DOMAIN steps : a >= Walked(steps, base).first}
  IN IF base = final THEN {} ELSE UNION {{steps[a].id} \cup steps[a].merges : a \in walked}

-----------------------------------------------------------------------------
(* mergeComparison of a target node with a source event *)

\* applications on both lines and on that of the selected base b are shared history
Shared(n, s, b) == FirstParentLineage(n) \cap events[s].line \cap events[b].line
Incoming(n, s, b, f) == Touching(events[s].line \ Shared(n, s, b), f)
Local(n, s, b, f) == Touching(FirstParentLineage(n) \ Shared(n, s, b), f)

\* only a file some change of the source's own line touches is compared
Compared(n, s, b, f) ==
  /\ \E d \in MaximalMergeBases(n, s) : events[d].state[f] # events[s].state[f]
  /\ StateRoot(n)[f] # events[b].state[f] \/ events[s].state[f] # events[b].state[f]
  /\ Incoming(n, s, b, f) # {}
Status(n, s, b, f) ==
  LET base == events[b].state[f]  ours == StateRoot(n)[f]  theirs == events[s].state[f]
  IN IF ~Compared(n, s, b, f) THEN "none"
     ELSE IF DecidedAt(FirstParentLineage(n), s, f) # {} THEN "resolved"
     ELSE IF \E d \in MaximalMergeBases(n, s) : events[d].state[f] # base THEN "conflict"
     ELSE IF ours = base THEN "adopt"
     ELSE IF ours = theirs THEN "convergent" ELSE "conflict"

\* a file decided before: the changes up to the decision, and those after it
DecisionExplained(line, s, f, base, ours) ==
  LET i == Max(DecidedAt(line, s, f))
      t == apps[i].decision.target
      after == {a \in line : a > i}
  IN base = ours \/
     /\ Explains(Steps(Touching(FirstParentLineage(t), f), f), base, StateRoot(t)[f])
     /\ Explains(Steps(Touching(after, f), f), apps[i].state[f], ours)
RowExplained(n, s, b, f, status) ==
  LET base == events[b].state[f]  ours == StateRoot(n)[f]  theirs == events[s].state[f]
  IN CASE status = "none" -> TRUE
       [] status = "resolved" -> DecisionExplained(FirstParentLineage(n), s, f, base, ours)
       [] OTHER -> /\ Explains(Steps(Incoming(n, s, b, f), f), base, theirs)
                   /\ Explains(Steps(Local(n, s, b, f), f), base, ours)

Row(n, s, b, f) ==
  LET base == events[b].state[f]  ours == StateRoot(n)[f]  theirs == events[s].state[f]
      status == Status(n, s, b, f)
      incoming == Incoming(n, s, b, f)
      accounted == Attribution(Steps(incoming, f), base, theirs)
  IN [status |-> status, ours |-> ours, theirs |-> theirs,
      explained |-> RowExplained(n, s, b, f, status),
      terminal |-> IF base = theirs \/ incoming = {} THEN 0 ELSE apps[Max(incoming)].change[f],
      accounted |-> accounted,
      contributors |-> accounted \cup Attribution(Steps(Local(n, s, b, f), f), base, ours)]
Comparison(n, s) == LET b == Base(n, s) IN [f \in File |-> Row(n, s, b, f)]

Explained(cmp) == \A f \in DOMAIN cmp : cmp[f].explained
Pending(cmp) == {f \in DOMAIN cmp : cmp[f].status \in {"adopt", "conflict", "convergent"}}
Settled == {"none", "resolved", "convergent"}
Complete(n, s) ==
  LET cmp == Comparison(n, s)
  IN Explained(cmp) /\ \A f \in DOMAIN cmp : cmp[f].status \in Settled
Concluded(n, s) ==
  \/ s \in events[n.event].closure
  \/ \E a \in FirstParentLineage(n) : apps[a].decision.source = s

\* mutant: the decisions are not asked whether they cover the source
IntegrationCompleteUnasked(n, sources) == TRUE
\* otherwise IntegrationIncomplete
IntegrationComplete(n, sources) == \A s \in sources : Complete(n, s)
=============================================================================
