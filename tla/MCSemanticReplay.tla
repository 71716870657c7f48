--------------------------- MODULE MCSemanticReplay ---------------------------
(***************************************************************************)
(* One behaviour of SemanticWorkspace, beyond the bounds of its runs: five *)
(* contexts, of which T alone can make a commit of B unwalkable.  A and    *)
(* its fork A2 commit the same change; B merges the one, edits, merges the *)
(* other, so that the change is on its line twice and counts where it is   *)
(* first applied; D forks off, and B merges it for its own value (event    *)
(* 8).  T then merges A's commit where it holds another value, and what it *)
(* records of the change moves the start of the walk along B's line.       *)
(***************************************************************************)
EXTENDS SemanticWorkspace

CONSTANTS A, A2, B, D, T, f, u, v, w, x, y, v0

VARIABLE step

\* the last merge took this value for the file, by this change (0: none)
Took(value, change) ==
  LET a == Last(apps')
  IN a.state[f] = value /\ a.change[f] = change /\ f \in DOMAIN a.decision.entries

At(i, Action) == step = i /\ Action /\ step' = i + 1

ReplayInit == Init /\ step = 1
ReplayNext ==
  \/ At(1, EnsureContext(A)) \/ At(2, EnsureContext(B)) \/ At(3, EnsureContext(T))
  \/ At(4, Edit(A, f, u)) \/ At(5, Edit(A, f, v)) \/ At(6, Commit(A))
  \/ At(7, Edit(A, f, w)) \/ At(8, ForkContext(A, A2)) \/ At(9, Commit(A)) \/ At(10, Commit(A2))
  \/ At(11, Edit(B, f, v)) \/ At(12, Merge(B, 2) /\ Took(v, 0)) \/ At(13, Commit(B))
  \/ At(14, Merge(B, 3) /\ Took(w, 3)) \/ At(15, Edit(B, f, v)) \/ At(16, Merge(B, 4) /\ Took(w, 3))
  \/ At(17, Edit(B, f, u)) \/ At(18, Commit(B))
  \/ At(19, ForkContext(B, D)) \/ At(20, Edit(D, f, x)) \/ At(21, Commit(D))
  \/ At(22, Edit(B, f, y)) \/ At(23, Merge(B, 7) /\ Took(y, 0)) \/ At(24, Commit(B))
  \/ At(25, Edit(T, f, v)) \/ At(26, Merge(T, 3) /\ Took(w, 3))
ReplaySpec == ReplayInit /\ [][ReplayNext]_<<vars, step>>

\* What a commit accepted as integrated every push accepts.  It does not hold: see
\* IntegrationStands for what does.
IntegrationsStayValid == \A e \in DOMAIN events : IntegrationValid(e)
=============================================================================
