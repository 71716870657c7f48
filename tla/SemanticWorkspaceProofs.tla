----------------------- MODULE SemanticWorkspaceProofs -----------------------
(***************************************************************************)
(* What a commit records as integrated stands, recorded changes explain    *)
(* every state, and main only moves forward, for any number of contexts,   *)
(* files, values and events.                                               *)
(*                                                                         *)
(* A commit compares with each of its sources once, and a push compares    *)
(* again, in a graph that has grown.  What carries the proofs is that the  *)
(* graph only grows and what is committed never changes: the bases of the  *)
(* comparison, the lines and the decisions on them are found in the past   *)
(* of the node, so every status stays.  Only the walk that explains a      *)
(* difference also asks the decisions recorded elsewhere, and it can only  *)
(* be disturbed by one that brings a change of the line in again.          *)
(*                                                                         *)
(* A push compares with the main of its moment and its receipt may come    *)
(* much later: the pending effect keeps naming an ancestor of what it      *)
(* publishes.                                                              *)
(***************************************************************************)
EXTENDS SemanticWorkspace, TLAPS, WellFoundedInduction

-----------------------------------------------------------------------------
(* The nodes of the graph, and the base of a comparison *)

Numbered == (\E S : events \in Seq(S)) /\ (\E S : apps \in Seq(S))

\* The graph only ever gains events and applications.
Grows ==
  /\ \A i \in DOMAIN apps : i \in DOMAIN apps' /\ apps'[i] = apps[i]
  /\ \A i \in DOMAIN events : i \in DOMAIN events' /\ events'[i] = events[i]

\* a committed event
EventOK(e) ==
  /\ events[e].first \in 0 .. e - 1 /\ events[e].sources \subseteq 1 .. e - 1
  /\ events[e].closure \subseteq DOMAIN events /\ 1 \in events[e].closure
  /\ events[e].generation \in 0 .. e - 1 /\ events[e].line \subseteq DOMAIN apps

\* A set of numbers that holds one has a least one.
LEMMA LeastFact ==
  ASSUME NEW S \in SUBSET Nat, S # {}
  PROVE  \E m \in S : \A x \in S : m <= x
<1>1. PICK m \in S : \A x \in S : ~(<<x, m>> \in OpToRel(<, Nat))
  BY WFMin, NatLessThanWellFounded
<1>2. \A x \in S : ~(x < m)
  BY <1>1 DEF OpToRel
<1> QED
  BY <1>2

\* A bounded set of numbers that holds one has a highest one, which Max is.
LEMMA HighestFact ==
  ASSUME NEW N \in Nat, NEW S \in SUBSET (0 .. N), S # {}
  PROVE  Max(S) \in S /\ \A x \in S : x <= Max(S)
<1> DEFINE T == {N - x : x \in S}
<1>0. \A x \in S : N - x \in Nat
  OBVIOUS
<1>1. T \in SUBSET Nat /\ T # {}
  BY <1>0
<1>2. PICK m \in T : \A x \in T : m <= x
  BY <1>1, LeastFact
<1>3. PICK h \in S : m = N - h
  OBVIOUS
<1>4. \A x \in S : N - h <= N - x
  BY <1>2, <1>3
<1>5. \A x \in S : x \in Nat /\ h \in Nat /\ h >= x
  BY <1>4
<1> QED
  BY <1>5 DEF Max

\* A node stays a node, with its state and its line.
LEMMA NodeStays ==
  ASSUME Grows, NEW n \in StateNode
  PROVE  /\ n \in StateNode'
         /\ StateRoot(n)' = StateRoot(n)
         /\ FirstParentLineage(n)' = FirstParentLineage(n)
<1>1. n.event \in DOMAIN events /\ n.chain \in Seq(DOMAIN apps) /\ n = [event |-> n.event, chain |-> n.chain]
  BY DEF StateNode
<1>2. n.event \in DOMAIN events' /\ n.chain \in Seq(DOMAIN apps')
  BY <1>1 DEF Grows
<1>3. n \in StateNode'
  BY <1>1, <1>2 DEF StateNode
<1>4. n.chain # <<>> => Last(n.chain) \in DOMAIN apps
  BY <1>1 DEF Last
<1> QED
  BY <1>1, <1>3, <1>4 DEF StateRoot, FirstParentLineage, Grows

\* The line of a node consists of applications there are.
LEMMA NodeLine ==
  ASSUME NEW n \in StateNode, EventOK(n.event)
  PROVE  FirstParentLineage(n) \subseteq DOMAIN apps
<1>1. n.event \in DOMAIN events /\ n.chain \in Seq(DOMAIN apps)
  BY DEF StateNode
<1>2. Range(n.chain) \subseteq DOMAIN apps
  BY <1>1 DEF Range
<1> QED
  BY <1>2 DEF FirstParentLineage, EventOK

EventsOK == \A e \in DOMAIN events : EventOK(e)

\* Events and applications are numbered from one.
LEMMA DomainFact ==
  ASSUME Numbered
  PROVE  /\ Len(events) \in Nat /\ DOMAIN events = 1 .. Len(events)
         /\ Len(apps) \in Nat /\ DOMAIN apps = 1 .. Len(apps)
  BY DEF Numbered

\* Two events have a common ancestor that is no parent of another one.
LEMMA BasesFact ==
  ASSUME Numbered, EventsOK, NEW n \in StateNode, NEW s \in DOMAIN events
  PROVE  MaximalMergeBases(n, s) # {} /\ MaximalMergeBases(n, s) \subseteq DOMAIN events
<1> DEFINE common == events[n.event].closure \cap events[s].closure
<1>1. n.event \in DOMAIN events
  BY DEF StateNode
<1>2. common \subseteq DOMAIN events /\ 1 \in common
  BY <1>1 DEF EventsOK, EventOK
<1>3. common \in SUBSET (0 .. Len(events)) /\ Len(events) \in Nat
  BY <1>2, DomainFact
<1>4. Max(common) \in common /\ \A x \in common : x <= Max(common)
  BY <1>2, <1>3, HighestFact
<1>5. \A d \in common : Parents(d) \subseteq 1 .. d - 1
  BY <1>2 DEF EventsOK, EventOK, Parents
<1>6. \A d \in common : Max(common) \notin Parents(d)
  <2> HIDE DEF common
  <2> SUFFICES ASSUME NEW d \in common, Max(common) \in 1 .. d - 1 PROVE FALSE
    BY <1>5
  <2>1. d \in Nat /\ d <= Max(common)
    BY <1>3, <1>4
  <2> QED
    BY <2>1
<1>7. Max(common) \in MaximalMergeBases(n, s)
  BY <1>4, <1>6 DEF MaximalMergeBases
<1> QED
  BY <1>2, <1>7 DEF MaximalMergeBases

\* The selected base is one of them.
LEMMA FirstFact ==
  ASSUME NEW N \in Nat, NEW S \in SUBSET (1 .. N), S # {}, NEW g \in [S -> 0 .. N]
  PROVE  First(g) \in S
<1> DEFINE G == {g[b] : b \in S}
<1>1. G \in SUBSET (0 .. N) /\ G # {}
  OBVIOUS
<1>2. Max(G) \in G /\ \A x \in G : x <= Max(G)
  BY <1>1, HighestFact
<1> DEFINE T == {b \in S : g[b] = Max(G)}
<1>3. T \in SUBSET Nat /\ T # {}
  <2>1. PICK b \in S : g[b] = Max(G)
    BY <1>2
  <2>2. b \in T
    BY <2>1
  <2>3. T \subseteq S /\ S \subseteq Nat
    OBVIOUS
  <2> HIDE DEF T
  <2> QED
    BY <2>2, <2>3
<1>4. PICK m \in T : \A x \in T : m <= x
  BY <1>3, LeastFact
<1>5. \A d \in S \ {m} : g[d] < g[m] \/ (g[d] = g[m] /\ m < d)
  <2> SUFFICES ASSUME NEW d \in S \ {m} PROVE g[d] < g[m] \/ (g[d] = g[m] /\ m < d)
    OBVIOUS
  <2>1. g[m] = Max(G)
    BY <1>4
  <2>0. g[d] \in G /\ g[d] \in Nat /\ g[m] \in Nat
    BY <1>4
  <2>2. g[d] <= g[m]
    BY <1>2, <2>0, <2>1
  <2>3. CASE g[d] = g[m]
    <3>1. d \in T
      BY <2>1, <2>3
    <3>2. m <= d /\ m \in Nat /\ d \in Nat
      BY <1>4, <3>1
    <3> QED
      BY <2>3, <3>2
  <2>4. CASE g[d] # g[m]
    BY <2>0, <2>2, <2>4
  <2> QED
    BY <2>3, <2>4
<1>6. m \in DOMAIN g /\ DOMAIN g = S
  BY <1>4
<1> QED
  BY <1>5, <1>6 DEF First

\* Every comparison has a base.
LEMMA BaseFact ==
  ASSUME Numbered, EventsOK, NEW n \in StateNode, NEW s \in DOMAIN events
  PROVE  Base(n, s) \in MaximalMergeBases(n, s) /\ Base(n, s) \in DOMAIN events
<1> DEFINE S == MaximalMergeBases(n, s)
           g == [b \in S |-> events[b].generation]
<1>1. S # {} /\ S \in SUBSET DOMAIN events
  BY BasesFact
<1>2. Len(events) \in Nat /\ S \in SUBSET (1 .. Len(events))
  BY <1>1, DomainFact
<1>3. \A b \in S : events[b].generation \in 0 .. Len(events)
  BY <1>1, <1>2 DEF EventsOK, EventOK
<1>4. g \in [S -> 0 .. Len(events)]
  BY <1>3
<1>5. First(g) \in S
  <2> HIDE DEF S, g
  <2> QED
    BY <1>1, <1>2, <1>4, FirstFact
<1> QED
  BY <1>1, <1>5 DEF Base

-----------------------------------------------------------------------------
(* What a step that only adds to the graph leaves as it is: bases and walks *)

AppOK(a) ==
  /\ \A f \in File : apps[a].change[f] # 0 =>
       apps[a].change[f] \in DOMAIN apps /\ f \in DOMAIN apps[apps[a].change[f]].made
  /\ \A f \in DOMAIN apps[a].made : apps[a].made[f].merges \subseteq DOMAIN apps
  /\ apps[a].decision.source # 0 =>
       /\ apps[a].decision.source \in DOMAIN events /\ apps[a].decision.target \in StateNode
       /\ \A f \in DOMAIN apps[a].decision.entries :
            apps[a].decision.entries[f].accounted \subseteq DOMAIN apps
AppsOK == \A a \in DOMAIN apps : AppOK(a)

\* The bases of a comparison stay.
LEMMA BasesStay ==
  ASSUME Numbered, EventsOK, Grows, NEW n \in StateNode, NEW s \in DOMAIN events
  PROVE  /\ MaximalMergeBases(n, s)' = MaximalMergeBases(n, s)
         /\ Base(n, s)' = Base(n, s)
<1>1. n.event \in DOMAIN events
  BY DEF StateNode
<1>2. events'[n.event] = events[n.event] /\ events'[s] = events[s]
  BY <1>1 DEF Grows
<1>3. \A d \in events[n.event].closure : d \in DOMAIN events
  BY <1>1 DEF EventsOK, EventOK
<1>4. \A d \in events[n.event].closure : Parents(d)' = Parents(d)
  BY <1>3 DEF Grows, Parents
<1>5. MaximalMergeBases(n, s)' = MaximalMergeBases(n, s)
  BY <1>2, <1>4 DEF MaximalMergeBases
<1>6. \A b \in MaximalMergeBases(n, s) : events'[b] = events[b]
  BY BasesFact DEF Grows
<1>7. [b \in MaximalMergeBases(n, s) |-> events[b].generation]'
        = [b \in MaximalMergeBases(n, s) |-> events[b].generation]
  BY <1>5, <1>6
<1> QED
  BY <1>5, <1>7 DEF Base

\* The changes on a line stay.
LEMMA TouchingStays ==
  ASSUME Grows, NEW line \in SUBSET DOMAIN apps, NEW f
  PROVE  Touching(line, f)' = Touching(line, f)
<1>1. \A a \in line : apps'[a] = apps[a]
  BY DEF Grows
<1> QED
  BY <1>1 DEF Touching

\* The decisions on a line stay.
LEMMA DecidedStays ==
  ASSUME Grows, NEW line \in SUBSET DOMAIN apps, NEW s, NEW f
  PROVE  DecidedAt(line, s, f)' = DecidedAt(line, s, f)
<1>1. \A a \in line : apps'[a] = apps[a]
  BY DEF Grows
<1> QED
  BY <1>1 DEF DecidedAt, Decides

\* What a change is known to follow stays while no merge brings it in.
LEMMA AccountedStays ==
  ASSUME AppsOK, Grows, NEW c, NEW f, BroughtIn(c, f)' = BroughtIn(c, f)
  PROVE  Accounted(c, f)' = Accounted(c, f)
<1>1. \A a \in BroughtIn(c, f) :
        /\ a \in DOMAIN apps /\ apps'[a] = apps[a]
        /\ apps[a].decision.source # 0 /\ f \in DOMAIN apps[a].decision.entries
  BY DEF BroughtIn, Grows
<1>2. ASSUME NEW a \in BroughtIn(c, f)
      PROVE  StateRoot(apps[a].decision.target)' = StateRoot(apps[a].decision.target)
  <2>1. PICK t \in StateNode : t = apps[a].decision.target
    BY <1>1, <1>2 DEF AppsOK, AppOK
  <2>2. t = apps'[a].decision.target
    BY <1>1, <1>2, <2>1
  <2>3. StateRoot(t)' = StateRoot(t)
    BY NodeStays
  <2> QED
    BY <2>1, <2>2, <2>3 DEF StateRoot
<1>3. ASSUME NEW a \in BroughtIn(c, f), NEW x \in apps[a].decision.entries[f].accounted
      PROVE  Change(x, f)' = Change(x, f)
  <2>1. x \in DOMAIN apps
    BY <1>1, <1>3 DEF AppsOK, AppOK
  <2> QED
    BY <2>1 DEF Change, Grows
<1>4. UNION {apps[a].decision.entries[f].accounted : a \in BroughtIn(c, f)}'
        = UNION {apps[a].decision.entries[f].accounted : a \in BroughtIn(c, f)}
  BY <1>1
<1>5. {StateRoot(apps[a].decision.target)[f] : a \in BroughtIn(c, f)}'
        = {StateRoot(apps[a].decision.target)[f] : a \in BroughtIn(c, f)}
  BY <1>2
<1>6. \A x \in UNION {apps[a].decision.entries[f].accounted : a \in BroughtIn(c, f)} :
        Change(x, f)' = Change(x, f)
  BY <1>3
<1> QED
  BY <1>4, <1>5, <1>6 DEF Accounted

\* The step brings no change of f on the line in again.
Unmoved(line, f) ==
  \A a \in line : \A c : c = apps[a].change[f] /\ c # 0 => BroughtIn(c, f)' = BroughtIn(c, f)

\* A walk along a line reads what it read, unless one of its changes was brought in.
LEMMA StepsStay ==
  ASSUME AppsOK, Grows, NEW line \in SUBSET DOMAIN apps, NEW f \in File, Unmoved(line, f)
  PROVE  Steps(Touching(line, f), f)' = Steps(Touching(line, f), f)
<1>1. Touching(line, f)' = Touching(line, f)
  BY TouchingStays
<1>2. ASSUME NEW a \in Touching(line, f), NEW c, c = apps[a].change[f]
      PROVE  c = apps'[a].change[f] /\ Change(c, f)' = Change(c, f) /\ Accounted(c, f)' = Accounted(c, f)
  <2>1. a \in line /\ a \in DOMAIN apps /\ c # 0
    BY <1>2 DEF Touching
  <2>2. c \in DOMAIN apps
    BY <1>2, <2>1 DEF AppsOK, AppOK
  <2>3. BroughtIn(c, f)' = BroughtIn(c, f)
    BY <1>2, <2>1 DEF Unmoved
  <2>4. Change(c, f)' = Change(c, f)
    BY <2>2 DEF Change, Grows
  <2> QED
    BY <1>2, <2>1, <2>3, <2>4, AccountedStays DEF Grows
<1> DEFINE step(a) == LET c == apps[a].change[f]
     IN [id |-> c, base |-> Change(c, f).base, result |-> Change(c, f).result,
         merges |-> Change(c, f).merges, accounted |-> Accounted(c, f)]
<1>3. ASSUME NEW a \in Touching(line, f) PROVE step(a)' = step(a)
  <2>1. PICK c : c = apps[a].change[f]
    OBVIOUS
  <2>2. c = apps'[a].change[f] /\ Change(c, f)' = Change(c, f) /\ Accounted(c, f)' = Accounted(c, f)
    BY <1>2, <1>3, <2>1
  <2>3. step(a) = [id |-> c, base |-> Change(c, f).base, result |-> Change(c, f).result,
         merges |-> Change(c, f).merges, accounted |-> Accounted(c, f)]
    BY <2>1
  <2>4. step(a)' = [id |-> c, base |-> Change(c, f)'.base, result |-> Change(c, f)'.result,
         merges |-> Change(c, f)'.merges, accounted |-> Accounted(c, f)']
    BY <2>2 DEF Change, Accounted, BroughtIn, StateRoot
  <2> QED
    BY <2>2, <2>3, <2>4
<1>4. [a \in Touching(line, f) |-> step(a)]' = [a \in Touching(line, f) |-> step(a)]
  <2> HIDE DEF step
  <2> QED
    BY <1>1, <1>3
<1> QED
  BY <1>4 DEF Steps

-----------------------------------------------------------------------------
(* ... the status of a file, and the walks up to a decision and after it *)

GraphOK == Numbered /\ EventsOK /\ AppsOK

\* The changes a comparison walks stay.
LEMMA LinesStay ==
  ASSUME GraphOK, Grows, NEW n \in StateNode, NEW s \in DOMAIN events, NEW b, b = Base(n, s), NEW f
  PROVE  /\ Shared(n, s, b)' = Shared(n, s, b)
         /\ Incoming(n, s, b, f)' = Incoming(n, s, b, f)
         /\ Local(n, s, b, f)' = Local(n, s, b, f)
         /\ FirstParentLineage(n) \subseteq DOMAIN apps
         /\ events[s].line \subseteq DOMAIN apps
<1>1. FirstParentLineage(n) \subseteq DOMAIN apps
  BY NodeLine DEF StateNode, GraphOK, EventsOK
<1>2. events[s].line \subseteq DOMAIN apps /\ events'[s] = events[s]
  BY DEF GraphOK, EventsOK, EventOK, Grows
<1>3. b \in DOMAIN events /\ events'[b] = events[b]
  BY BaseFact DEF GraphOK, Grows
<1>4. FirstParentLineage(n)' = FirstParentLineage(n)
  BY NodeStays
<1>5. Shared(n, s, b)' = Shared(n, s, b)
  BY <1>2, <1>3, <1>4 DEF Shared
<1>6. PICK own \in SUBSET DOMAIN apps : own = events[s].line \ Shared(n, s, b)
  BY <1>2
<1>7. PICK ours \in SUBSET DOMAIN apps : ours = FirstParentLineage(n) \ Shared(n, s, b)
  BY <1>1
<1>8. Touching(own, f)' = Touching(own, f) /\ Touching(ours, f)' = Touching(ours, f)
  BY TouchingStays
<1>9. own = events'[s].line \ Shared(n, s, b)' /\ ours = FirstParentLineage(n)' \ Shared(n, s, b)'
  BY <1>2, <1>4, <1>5, <1>6, <1>7
<1>10. Incoming(n, s, b, f) = Touching(own, f) /\ Incoming(n, s, b, f)' = Touching(own, f)'
  BY <1>6, <1>9 DEF Incoming, Touching
<1>11. Local(n, s, b, f) = Touching(ours, f) /\ Local(n, s, b, f)' = Touching(ours, f)'
  BY <1>7, <1>9 DEF Local, Touching
<1> QED
  BY <1>1, <1>2, <1>5, <1>8, <1>10, <1>11

\* The status of a file in a comparison stays, whatever is added.
LEMMA StatusStays ==
  ASSUME GraphOK, Grows, NEW n \in StateNode, NEW s \in DOMAIN events, NEW b, b = Base(n, s), NEW f
  PROVE  Status(n, s, b, f)' = Status(n, s, b, f)
<1>1. events'[s] = events[s] /\ events'[b] = events[b]
  BY BaseFact DEF GraphOK, Grows
<1>2. StateRoot(n)' = StateRoot(n)
  BY NodeStays
<1>3. MaximalMergeBases(n, s)' = MaximalMergeBases(n, s)
  BY BasesStay DEF GraphOK
<1>4. \A d \in MaximalMergeBases(n, s) : events'[d] = events[d]
  BY BasesFact DEF GraphOK, Grows
<1>5. Incoming(n, s, b, f)' = Incoming(n, s, b, f)
  BY LinesStay
<1>6. Compared(n, s, b, f)' = Compared(n, s, b, f)
  BY <1>1, <1>2, <1>3, <1>4, <1>5 DEF Compared
<1>7. DecidedAt(FirstParentLineage(n), s, f)' = DecidedAt(FirstParentLineage(n), s, f)
  <2>1. PICK line \in SUBSET DOMAIN apps : line = FirstParentLineage(n)
    BY LinesStay
  <2>2. line = FirstParentLineage(n)'
    BY <2>1, NodeStays
  <2>3. DecidedAt(line, s, f)' = DecidedAt(line, s, f)
    BY DecidedStays
  <2> QED
    BY <2>1, <2>2, <2>3 DEF DecidedAt, Decides
<1>8. (\E d \in MaximalMergeBases(n, s) : events[d].state[f] # events[b].state[f])'
        = (\E d \in MaximalMergeBases(n, s) : events[d].state[f] # events[b].state[f])
  BY <1>1, <1>3, <1>4
<1> QED
  BY <1>1, <1>2, <1>6, <1>7, <1>8 DEF Status

KeepsTargets(line) ==
  \A a \in line : apps[a].decision.source # 0 =>
    FirstParentLineage(apps[a].decision.target) \subseteq line

\* A decided file that is explained stays so, unless a change was brought in.
LEMMA DecisionExplainedStays ==
  ASSUME GraphOK, Grows, NEW line \in SUBSET DOMAIN apps, NEW s \in DOMAIN events, NEW f \in File,
         NEW base, NEW ours, s # 0, DecidedAt(line, s, f) # {}, KeepsTargets(line), Unmoved(line, f),
         DecisionExplained(line, s, f, base, ours)
  PROVE  DecisionExplained(line, s, f, base, ours)'
<1>1. Len(apps) \in Nat /\ DecidedAt(line, s, f) \in SUBSET (0 .. Len(apps))
  BY DomainFact DEF GraphOK, DecidedAt
<1>2. PICK i : i = Max(DecidedAt(line, s, f)) /\ i \in DecidedAt(line, s, f)
  BY <1>1, HighestFact
<1>3. i \in line /\ i \in DOMAIN apps /\ apps[i].decision.source # 0
  BY <1>2 DEF DecidedAt, Decides
<1>4. DecidedAt(line, s, f)' = DecidedAt(line, s, f)
  BY DecidedStays
<1>5. i = Max(DecidedAt(line, s, f))'
  BY <1>2, <1>4
<1>6. PICK t \in StateNode : t = apps[i].decision.target
  BY <1>3 DEF GraphOK, AppsOK, AppOK
<1>7. apps'[i] = apps[i]
  BY <1>3 DEF Grows
<1>8. PICK before \in SUBSET line : before = FirstParentLineage(t)
  BY <1>3, <1>6 DEF KeepsTargets
<1>9. before = FirstParentLineage(t)' /\ StateRoot(t)' = StateRoot(t)
  BY <1>8, NodeStays
<1> DEFINE after == {a \in line : a > i}
<1>10. ASSUME NEW part \in SUBSET line
       PROVE  Steps(Touching(part, f), f)' = Steps(Touching(part, f), f)
  BY StepsStay DEF Unmoved, GraphOK
<1>11. Steps(Touching(before, f), f)' = Steps(Touching(before, f), f)
  BY <1>10
<1>12. Steps(Touching(after, f), f)' = Steps(Touching(after, f), f)
  BY <1>10
<1>13. DecisionExplained(line, s, f, base, ours) <=>
         base = ours \/ /\ Explains(Steps(Touching(before, f), f), base, StateRoot(t)[f])
                        /\ Explains(Steps(Touching(after, f), f), apps[i].state[f], ours)
  BY <1>2, <1>6, <1>8 DEF DecisionExplained
<1>14. DecisionExplained(line, s, f, base, ours)' <=>
         base = ours \/ /\ Explains(Steps(Touching(before, f), f)', base, StateRoot(t)'[f])
                        /\ Explains(Steps(Touching(after, f), f)', apps[i].state[f], ours)
  BY <1>5, <1>6, <1>7, <1>9 DEF DecisionExplained
<1> QED
  BY <1>9, <1>11, <1>12, <1>13, <1>14

-----------------------------------------------------------------------------
(* ... and whether the changes explain it *)

\* A file that is explained stays so, unless a change of its lines was brought in.
LEMMA ExplainedStays ==
  ASSUME GraphOK, Grows, NEW n \in StateNode, NEW s \in DOMAIN events, NEW b, b = Base(n, s),
         NEW f \in File, KeepsTargets(FirstParentLineage(n)),
         Unmoved(FirstParentLineage(n), f), Unmoved(events[s].line, f),
         RowExplained(n, s, b, f, Status(n, s, b, f))
  PROVE  RowExplained(n, s, b, f, Status(n, s, b, f))'
<1>1. PICK st : st = Status(n, s, b, f)
  OBVIOUS
<1>2. Status(n, s, b, f)' = st
  BY <1>1, StatusStays
<1>3. PICK line \in SUBSET DOMAIN apps : line = FirstParentLineage(n)
  BY LinesStay
<1>4. line = FirstParentLineage(n)'
  BY <1>3, NodeStays
<1>5. /\ events'[s] = events[s] /\ events'[b] = events[b] /\ StateRoot(n)' = StateRoot(n)
  BY BaseFact, NodeStays DEF GraphOK, Grows
<1>6. CASE st = "resolved"
  <2>1. DecidedAt(line, s, f) # {}
    BY <1>1, <1>3, <1>6 DEF Status
  <2>2. PICK base : base = events[b].state[f]
    OBVIOUS
  <2>3. PICK ours : ours = StateRoot(n)[f]
    OBVIOUS
  <2>4. DecisionExplained(line, s, f, base, ours)
    BY <1>1, <1>3, <1>6, <2>2, <2>3 DEF RowExplained
  <2>5. s # 0
    BY DomainFact DEF GraphOK
  <2>6. DecisionExplained(line, s, f, base, ours)'
    BY <1>3, <2>1, <2>4, <2>5, DecisionExplainedStays
  <2>7. base = events'[b].state[f] /\ ours = StateRoot(n)'[f]
    BY <1>5, <2>2, <2>3
  <2>8. RowExplained(n, s, b, f, st)'
    BY <1>4, <1>6, <2>6, <2>7 DEF RowExplained, DecisionExplained, DecidedAt, Decides
  <2> QED
    BY <1>2, <2>8 DEF RowExplained
<1>7. CASE st # "resolved" /\ st # "none"
  <2>1. PICK own \in SUBSET DOMAIN apps : own = events[s].line \ Shared(n, s, b)
    BY LinesStay
  <2>2. PICK mine \in SUBSET DOMAIN apps : mine = FirstParentLineage(n) \ Shared(n, s, b)
    BY LinesStay
  <2>3. Incoming(n, s, b, f) = Touching(own, f) /\ Local(n, s, b, f) = Touching(mine, f)
    BY <2>1, <2>2 DEF Incoming, Local
  <2>4. Unmoved(own, f) /\ Unmoved(mine, f)
    BY <2>1, <2>2 DEF Unmoved
  <2>5. Steps(Touching(own, f), f)' = Steps(Touching(own, f), f)
    BY <2>4, StepsStay DEF GraphOK
  <2>6. Steps(Touching(mine, f), f)' = Steps(Touching(mine, f), f)
    BY <2>4, StepsStay DEF GraphOK
  <2>7. Shared(n, s, b)' = Shared(n, s, b)
    BY LinesStay
  <2>8. own = events'[s].line \ Shared(n, s, b)' /\ mine = FirstParentLineage(n)' \ Shared(n, s, b)'
    BY <1>3, <1>4, <1>5, <2>1, <2>2, <2>7
  <2>9. Incoming(n, s, b, f)' = Touching(own, f)' /\ Local(n, s, b, f)' = Touching(mine, f)'
    BY <2>8 DEF Incoming, Local, Touching
  <2>10. /\ Explains(Steps(Touching(own, f), f), events[b].state[f], events[s].state[f])
         /\ Explains(Steps(Touching(mine, f), f), events[b].state[f], StateRoot(n)[f])
    BY <1>1, <1>7, <2>3 DEF RowExplained
  <2>11. /\ Steps(Incoming(n, s, b, f), f)' = Steps(Touching(own, f), f)'
         /\ Steps(Local(n, s, b, f), f)' = Steps(Touching(mine, f), f)'
    BY <2>9 DEF Steps
  <2>12. RowExplained(n, s, b, f, st)' <=>
          /\ Explains(Steps(Incoming(n, s, b, f), f)', events'[b].state[f], events'[s].state[f])
          /\ Explains(Steps(Local(n, s, b, f), f)', events'[b].state[f], StateRoot(n)'[f])
    BY <1>7 DEF RowExplained
  <2>13. RowExplained(n, s, b, f, st)'
    BY <1>5, <2>5, <2>6, <2>10, <2>11, <2>12
  <2> QED
    BY <1>2, <2>13 DEF RowExplained
<1>8. CASE st = "none"
  BY <1>2, <1>8 DEF RowExplained
<1> QED
  BY <1>6, <1>7, <1>8

\* No application of the step brings in again what the integration walks.
LEMMA NewlyBroughtIn ==
  ASSUME Numbered, Grows, NEW c, NEW f,
         \A a \in DOMAIN apps' \ DOMAIN apps : a \notin BroughtIn(c, f)'
  PROVE  BroughtIn(c, f)' = BroughtIn(c, f)
<1>1. \A a \in DOMAIN apps : a \in BroughtIn(c, f)' <=> a \in BroughtIn(c, f)
  BY DEF BroughtIn, Grows
<1>2. BroughtIn(c, f) \subseteq DOMAIN apps /\ BroughtIn(c, f)' \subseteq DOMAIN apps'
  BY DEF BroughtIn
<1> QED
  BY <1>1, <1>2

-----------------------------------------------------------------------------
(* Integrations stand *)

\* A commit that records an integration keeps the node it was made of.
IntegrationOK(e) == events[e].sources # {} =>
  /\ Result(e) \in StateNode /\ events[e].apps # <<>>
  /\ events[e].line = FirstParentLineage(Result(e))
  /\ events[e].state = StateRoot(Result(e))
IntegrationsOK == \A e \in DOMAIN events : IntegrationOK(e) /\ KeepsTargets(events[e].line)

\* What the integration of s by e says of the file f.
Stands(e, s, f) ==
  LET n == Result(e)  b == Base(n, s)  status == Status(n, s, b, f)
  IN status \in Settled /\ (RowExplained(n, s, b, f, status) \/ BroughtInSince(e, s, f))
AllStand == \A e \in DOMAIN events : \A s \in events[e].sources : \A f \in File : Stands(e, s, f)

\* The rows of a comparison.
LEMMA RowFact ==
  ASSUME NEW n, NEW s, NEW f \in File
  PROVE  /\ Comparison(n, s)[f].status = Status(n, s, Base(n, s), f)
         /\ Comparison(n, s)[f].explained = RowExplained(n, s, Base(n, s), f, Status(n, s, Base(n, s), f))
  BY DEF Comparison, Row

\* The invariant is what the property says.
LEMMA StandsFact == AllStand => IntegrationStands
  BY RowFact DEF AllStand, Stands, IntegrationStands

\* The graph stays in order when what is added is.
LEMMA GraphStep ==
  ASSUME GraphOK, Grows, Numbered',
         \A a \in DOMAIN apps' \ DOMAIN apps : AppOK(a)',
         \A e \in DOMAIN events' \ DOMAIN events : EventOK(e)'
  PROVE  GraphOK'
<1>1. ASSUME NEW a \in DOMAIN apps PROVE AppOK(a)'
  <2>1. AppOK(a) /\ apps'[a] = apps[a]
    BY <1>1 DEF GraphOK, AppsOK, Grows
  <2>2. \A f \in File : apps'[a].change[f] # 0 =>
          apps'[a].change[f] \in DOMAIN apps' /\ f \in DOMAIN apps'[apps'[a].change[f]].made
    <3> SUFFICES ASSUME NEW f \in File, NEW c, c = apps[a].change[f], c # 0
                 PROVE  c \in DOMAIN apps' /\ f \in DOMAIN apps'[c].made
      BY <2>1
    <3>1. c \in DOMAIN apps /\ f \in DOMAIN apps[c].made
      BY <2>1 DEF AppOK
    <3> QED
      BY <3>1 DEF Grows
  <2>3. DOMAIN apps \subseteq DOMAIN apps' /\ DOMAIN events \subseteq DOMAIN events'
    BY DEF Grows
  <2>4. \A f \in DOMAIN apps'[a].made : apps'[a].made[f].merges \subseteq DOMAIN apps'
    BY <2>1, <2>3 DEF AppOK
  <2>5. ASSUME apps'[a].decision.source # 0
        PROVE /\ apps'[a].decision.source \in DOMAIN events' /\ apps'[a].decision.target \in StateNode'
              /\ \A f \in DOMAIN apps'[a].decision.entries :
                   apps'[a].decision.entries[f].accounted \subseteq DOMAIN apps'
    <3>1. PICK t \in StateNode : t = apps[a].decision.target
      BY <2>1, <2>5 DEF AppOK
    <3>2. t \in StateNode'
      BY NodeStays
    <3> QED
      BY <2>1, <2>3, <2>5, <3>1, <3>2 DEF AppOK
  <2> QED
    BY <2>2, <2>4, <2>5 DEF AppOK, StateNode
<1>2. ASSUME NEW e \in DOMAIN events PROVE EventOK(e)'
  <2>1. EventOK(e) /\ events'[e] = events[e]
    BY <1>2 DEF GraphOK, EventsOK, Grows
  <2>2. DOMAIN apps \subseteq DOMAIN apps' /\ DOMAIN events \subseteq DOMAIN events'
    BY DEF Grows
  <2> QED
    BY <2>1, <2>2 DEF EventOK
<1> QED
  BY <1>1, <1>2 DEF GraphOK, AppsOK, EventsOK

\* A line that holds the lines of its merges keeps doing so.
LEMMA TargetsStay ==
  ASSUME GraphOK, Grows, NEW line \in SUBSET DOMAIN apps, KeepsTargets(line)
  PROVE  KeepsTargets(line)'
<1> SUFFICES ASSUME NEW a \in line, apps'[a].decision.source # 0,
                    NEW u, u = apps'[a].decision.target
             PROVE  FirstParentLineage(u)' \subseteq line
  BY DEF KeepsTargets, FirstParentLineage
<1>1. a \in DOMAIN apps /\ apps'[a] = apps[a]
  BY DEF Grows
<1>2. PICK t \in StateNode : t = apps[a].decision.target
  BY <1>1 DEF GraphOK, AppsOK, AppOK
<1>3. FirstParentLineage(t)' = FirstParentLineage(t)
  BY NodeStays
<1>4. FirstParentLineage(t) \subseteq line
  BY <1>1, <1>2 DEF KeepsTargets
<1>5. t = u
  BY <1>1, <1>2
<1> QED
  BY <1>3, <1>4, <1>5

\* A recorded integration keeps its node and its line.
LEMMA IntegrationStays ==
  ASSUME GraphOK, Grows, NEW e \in DOMAIN events, IntegrationOK(e), KeepsTargets(events[e].line)
  PROVE  IntegrationOK(e)' /\ KeepsTargets(events[e].line)'
<1>1. events'[e] = events[e]
  BY DEF Grows
<1>2. IntegrationOK(e)'
  <2> SUFFICES ASSUME events[e].sources # {} PROVE IntegrationOK(e)'
    BY <1>1 DEF IntegrationOK
  <2>1. PICK n \in StateNode : n = Result(e)
    BY DEF IntegrationOK
  <2>2. Result(e)' = n
    BY <1>1, <2>1 DEF Result
  <2>3. /\ n \in StateNode' /\ StateRoot(n)' = StateRoot(n)
        /\ FirstParentLineage(n)' = FirstParentLineage(n)
    BY NodeStays
  <2>4. events[e].line = FirstParentLineage(n) /\ events[e].state = StateRoot(n) /\ events[e].apps # <<>>
    BY <2>1 DEF IntegrationOK
  <2>5. StateRoot(Result(e))' = StateRoot(n)' /\ FirstParentLineage(Result(e))' = FirstParentLineage(n)'
    BY <2>2 DEF StateRoot, FirstParentLineage
  <2> QED
    BY <1>1, <2>2, <2>3, <2>4, <2>5 DEF IntegrationOK
<1>3. PICK line \in SUBSET DOMAIN apps : line = events[e].line
  BY DEF GraphOK, EventsOK, EventOK
<1>4. KeepsTargets(line)'
  BY <1>3, TargetsStay
<1> QED
  BY <1>1, <1>2, <1>3, <1>4 DEF KeepsTargets, FirstParentLineage

\* What an integration says of a file stands through a step of the graph: the
\* status as it is, the explanation as it is or given up for a newer merge that
\* brought one of its changes in.
LEMMA StandsStays ==
  ASSUME GraphOK, Numbered', Grows, NEW e \in DOMAIN events, IntegrationOK(e),
         KeepsTargets(events[e].line), NEW s \in events[e].sources, NEW f \in File, Stands(e, s, f)
  PROVE  Stands(e, s, f)'
<1>1. events'[e] = events[e]
  BY DEF Grows
<1>2. PICK n \in StateNode : n = Result(e)
  BY DEF IntegrationOK
<1>3. Result(e)' = n
  BY <1>1, <1>2 DEF Result
<1>4. s \in DOMAIN events
  BY DomainFact DEF GraphOK, EventsOK, EventOK
<1>5. PICK b : b = Base(n, s)
  OBVIOUS
<1>6. Base(n, s)' = b
  BY <1>4, <1>5, BasesStay DEF GraphOK
<1>7. PICK st : st = Status(n, s, b, f)
  OBVIOUS
<1>8. Status(n, s, b, f)' = st
  BY <1>4, <1>5, <1>7, StatusStays
<1>9. st \in Settled /\ (RowExplained(n, s, b, f, st) \/ BroughtInSince(e, s, f))
  BY <1>2, <1>5, <1>7 DEF Stands
<1>10. events[e].line = FirstParentLineage(n) /\ events[e].apps # <<>> /\ n.chain = events[e].apps
  BY <1>2 DEF IntegrationOK, Result
<1>11. Last(events[e].apps) \in DOMAIN apps
  <2>1. n.chain \in Seq(DOMAIN apps) /\ n.chain # <<>>
    BY <1>10 DEF StateNode
  <2> QED
    BY <1>10, <2>1 DEF Last
<1>12. events'[s] = events[s] /\ events[s].line \subseteq DOMAIN apps /\ events[e].line \subseteq DOMAIN apps
  BY <1>4 DEF GraphOK, EventsOK, EventOK, Grows
<1>13. BroughtInSince(e, s, f) => BroughtInSince(e, s, f)'
  <2> SUFFICES ASSUME NEW a \in events[e].line \cup events[s].line, apps[a].change[f] # 0,
                      NEW d \in BroughtIn(apps[a].change[f], f), d > Last(events[e].apps)
               PROVE  BroughtInSince(e, s, f)'
    BY DEF BroughtInSince
  <2>1. apps'[a] = apps[a]
    BY <1>12 DEF Grows
  <2>2. d \in BroughtIn(apps[a].change[f], f)'
    BY <2>1 DEF BroughtIn, Grows
  <2> QED
    BY <1>1, <1>12, <2>1, <2>2 DEF BroughtInSince, BroughtIn
<1>14. ASSUME RowExplained(n, s, b, f, st)
       PROVE  RowExplained(n, s, b, f, st)' \/ BroughtInSince(e, s, f)'
  <2>1. CASE Unmoved(events[e].line, f) /\ Unmoved(events[s].line, f)
    <3>1. RowExplained(n, s, b, f, Status(n, s, b, f))'
      BY <1>4, <1>5, <1>7, <1>10, <1>14, <2>1, ExplainedStays
    <3> QED
      BY <1>8, <3>1 DEF RowExplained
  <2>2. CASE ~(Unmoved(events[e].line, f) /\ Unmoved(events[s].line, f))
    <3>1. PICK a \in events[e].line \cup events[s].line :
            \E c : c = apps[a].change[f] /\ c # 0 /\ BroughtIn(c, f)' # BroughtIn(c, f)
      BY <2>2 DEF Unmoved
    <3>2. PICK c : c = apps[a].change[f] /\ c # 0 /\ BroughtIn(c, f)' # BroughtIn(c, f)
      BY <3>1
    <3>3. PICK d \in DOMAIN apps' \ DOMAIN apps : d \in BroughtIn(c, f)'
      BY <3>2, NewlyBroughtIn DEF GraphOK
    <3>4. d > Last(events[e].apps)
      <4>1. Len(apps) \in Nat /\ DOMAIN apps = 1 .. Len(apps)
        BY DomainFact DEF GraphOK
      <4>2. DOMAIN apps' \subseteq Nat \ {0}
        BY DEF Numbered
      <4> QED
        BY <1>11, <4>1, <4>2
    <3>5. apps'[a] = apps[a]
      BY <1>12 DEF Grows
    <3>6. c = apps'[a].change[f] /\ a \in events'[e].line \cup events'[s].line
      BY <1>1, <1>12, <3>2, <3>5
    <3>7. d > Last(events'[e].apps)
      BY <1>1, <3>4
    <3> QED
      BY <3>2, <3>3, <3>6, <3>7 DEF BroughtInSince, BroughtIn
  <2> QED
    BY <2>1, <2>2
<1>15. st \in Settled /\ (RowExplained(n, s, b, f, st)' \/ BroughtInSince(e, s, f)')
  BY <1>9, <1>13, <1>14
<1>16. Stands(e, s, f)' = (Status(n, s, b, f)' \in Settled
         /\ (RowExplained(n, s, b, f, st)' \/ BroughtInSince(e, s, f)'))
  <2>1. Stands(e, s, f)' = (LET status == Status(n, s, b, f)'
         IN status \in Settled /\ (RowExplained(n, s, b, f, st)' \/ BroughtInSince(e, s, f)'))
    BY <1>3, <1>6, <1>8 DEF Stands, RowExplained, Status, Compared
  <2> QED
    BY <2>1
<1> QED
  BY <1>8, <1>15, <1>16

-----------------------------------------------------------------------------
(* A new application *)

\* nodes whose line holds the lines of the merges on it
GoodNode == {n \in StateNode : KeepsTargets(FirstParentLineage(n))}
ContextsStand == ctx \in [Context -> GoodNode \cup {NoContext}]
EffectsForward == \A x \in effects :
  x.published \in DOMAIN events /\ x.previous \in events[x.published].closure

GraphInv == GraphOK /\ IntegrationsOK /\ AllStand
IInv == GraphInv /\ ContextsStand /\ EffectsForward /\ main \in DOMAIN events

\* A node of a context stays one.
LEMMA GoodNodesStay ==
  ASSUME GraphOK, Grows PROVE GoodNode \subseteq GoodNode'
<1> SUFFICES ASSUME NEW n \in GoodNode PROVE n \in GoodNode'
  OBVIOUS
<1>1. n \in StateNode /\ KeepsTargets(FirstParentLineage(n))
  BY DEF GoodNode
<1>2. n \in StateNode' /\ FirstParentLineage(n)' = FirstParentLineage(n)
  BY <1>1, NodeStays
<1>3. PICK line \in SUBSET DOMAIN apps : line = FirstParentLineage(n)
  BY <1>1, NodeLine DEF StateNode, GraphOK, EventsOK
<1>4. KeepsTargets(line)'
  BY <1>1, <1>3, TargetsStay
<1>5. KeepsTargets(FirstParentLineage(n))'
  BY <1>2, <1>3, <1>4 DEF KeepsTargets
<1> QED
  BY <1>2, <1>5 DEF GoodNode

\* The graph keeps its invariant when the new events have it.
LEMMA GraphInvStep ==
  ASSUME GraphInv, Grows, GraphOK',
         \A e \in DOMAIN events' \ DOMAIN events :
           /\ IntegrationOK(e)' /\ KeepsTargets(events[e].line)'
           /\ \A s \in events'[e].sources : \A f \in File : Stands(e, s, f)'
  PROVE  GraphInv'
<1>1. ASSUME NEW e \in DOMAIN events
      PROVE  IntegrationOK(e)' /\ KeepsTargets(events[e].line)'
  BY <1>1, IntegrationStays DEF GraphInv, IntegrationsOK
<1>2. IntegrationsOK'
  BY <1>1 DEF IntegrationsOK
<1>3. ASSUME NEW e \in DOMAIN events, NEW s \in events'[e].sources, NEW f \in File
      PROVE  Stands(e, s, f)'
  <2>1. s \in events[e].sources
    BY <1>3 DEF Grows
  <2>2. Stands(e, s, f) /\ IntegrationOK(e) /\ KeepsTargets(events[e].line) /\ GraphOK /\ Numbered'
    BY <1>3, <2>1 DEF GraphInv, AllStand, IntegrationsOK, GraphOK
  <2> QED
    BY <2>1, <2>2, StandsStays
<1>4. AllStand'
  BY <1>3 DEF AllStand
<1> QED
  BY <1>2, <1>4 DEF GraphInv

\* The graph as it is.
LEMMA GraphSame ==
  ASSUME GraphInv, UNCHANGED graph
  PROVE  GraphInv' /\ Grows /\ GoodNode \subseteq GoodNode'
<1>1. Grows /\ DOMAIN apps' = DOMAIN apps /\ DOMAIN events' = DOMAIN events
  BY DEF Grows, graph
<1>2. Numbered'
  BY DEF GraphInv, GraphOK, Numbered, graph
<1>3. GraphOK'
  BY <1>1, <1>2, GraphStep DEF GraphInv
<1> QED
  BY <1>1, <1>3, GraphInvStep, GoodNodesStay DEF GraphInv

\* What a new application may be.
NewApp(r) ==
  /\ \A f \in File : r.change[f] # 0 =>
       \/ r.change[f] \in DOMAIN apps /\ f \in DOMAIN apps[r.change[f]].made
       \/ r.change[f] = Len(apps) + 1 /\ f \in DOMAIN r.made
  /\ \A f \in DOMAIN r.made : r.made[f].merges \subseteq DOMAIN apps
  /\ r.decision.source # 0 =>
       /\ r.decision.source \in DOMAIN events /\ r.decision.target \in StateNode
       /\ \A f \in DOMAIN r.decision.entries : r.decision.entries[f].accounted \subseteq DOMAIN apps

\* Grows for the applications alone
AppsAppended(r) ==
  /\ Len(apps) + 1 \in Nat \ {0} /\ DOMAIN apps' = DOMAIN apps \cup {Len(apps) + 1}
  /\ Len(apps) + 1 \notin DOMAIN apps
  /\ apps'[Len(apps) + 1] = r /\ \A i \in DOMAIN apps : apps'[i] = apps[i]
  /\ \E S : apps' \in Seq(S)

\* An application is added with the next number.
LEMMA AppendedFact ==
  ASSUME Numbered, NEW r, apps' = Append(apps, r) PROVE AppsAppended(r)
<1>1. PICK S : apps \in Seq(S)
  BY DEF Numbered
<1>2. apps \in Seq(S \cup {r}) /\ r \in S \cup {r}
  BY <1>1
<1>3. apps' \in Seq(S \cup {r})
  BY <1>2
<1> QED
  BY <1>2, <1>3 DEF AppsAppended

\* It is in order in the graph it is added to.
LEMMA NewAppOK ==
  ASSUME GraphOK, Grows, NEW r, AppsAppended(r), NewApp(r)
  PROVE  \A a \in DOMAIN apps' \ DOMAIN apps : AppOK(a)'
<1>0. PICK k : k = Len(apps) + 1
  OBVIOUS
<1> SUFFICES AppOK(k)'
  BY <1>0 DEF AppsAppended
<1>1. apps'[k] = r /\ DOMAIN apps \subseteq DOMAIN apps' /\ DOMAIN events \subseteq DOMAIN events' /\ k \in DOMAIN apps'
  BY <1>0 DEF AppsAppended, Grows
<1>2. ASSUME NEW f \in File, r.change[f] # 0
      PROVE  r.change[f] \in DOMAIN apps' /\ f \in DOMAIN apps'[r.change[f]].made
  BY <1>0, <1>1, <1>2 DEF NewApp, Grows
<1>3. r.decision.source # 0 => r.decision.target \in StateNode'
  <2> SUFFICES ASSUME r.decision.source # 0 PROVE r.decision.target \in StateNode'
    OBVIOUS
  <2>1. PICK t \in StateNode : t = r.decision.target
    BY DEF NewApp
  <2> QED
    BY <2>1, NodeStays
<1>4. \A f \in DOMAIN r.made : r.made[f].merges \subseteq DOMAIN apps'
  BY <1>1 DEF NewApp
<1>5. r.decision.source # 0 =>
       /\ r.decision.source \in DOMAIN events'
       /\ \A f \in DOMAIN r.decision.entries : r.decision.entries[f].accounted \subseteq DOMAIN apps'
  BY <1>1 DEF NewApp
<1> QED
  BY <1>1, <1>2, <1>3, <1>4, <1>5 DEF AppOK, StateNode

\* A sequence with one element more.
LEMMA AppendRange ==
  ASSUME NEW S, NEW q \in Seq(S), NEW k \in S
  PROVE  Append(q, k) \in Seq(S) /\ Range(Append(q, k)) = Range(q) \cup {k}
<1>1. PICK t : t = Append(q, k)
  OBVIOUS
<1>2. t \in Seq(S) /\ DOMAIN t = DOMAIN q \cup {Len(q) + 1} /\ t[Len(q) + 1] = k
      /\ \A i \in DOMAIN q : t[i] = q[i]
  BY <1>1
<1> QED
  BY <1>1, <1>2 DEF Range

\* A context's node with the new application on its chain.
LEMMA NodeGrows ==
  ASSUME GraphOK, Grows, NEW r, AppsAppended(r), NEW n \in GoodNode,
         r.decision.source # 0 => r.decision.target = n
  PROVE  [n EXCEPT !.chain = Append(@, Len(apps) + 1)] \in GoodNode'
<1>1. PICK k : k = Len(apps) + 1
  OBVIOUS
<1>2. PICK m : m = [n EXCEPT !.chain = Append(@, Len(apps) + 1)]
  OBVIOUS
<1>3. n.event \in DOMAIN events /\ n.chain \in Seq(DOMAIN apps) /\ n = [event |-> n.event, chain |-> n.chain]
  BY DEF GoodNode, StateNode
<1>4. k \in DOMAIN apps' /\ DOMAIN apps \subseteq DOMAIN apps' /\ apps'[k] = r
  BY <1>1 DEF AppsAppended
<1>5. n.chain \in Seq(DOMAIN apps')
  BY <1>3, <1>4
<1>6. m = [event |-> n.event, chain |-> Append(n.chain, k)] /\ Append(n.chain, k) \in Seq(DOMAIN apps')
  <2>1. Append(n.chain, k) \in Seq(DOMAIN apps')
    BY <1>4, <1>5, AppendRange
  <2> QED
    BY <1>1, <1>2, <1>3, <2>1
<1>7. m \in StateNode'
  BY <1>3, <1>6 DEF StateNode, Grows
<1>8. PICK before \in SUBSET DOMAIN apps : before = FirstParentLineage(n)
  BY NodeLine DEF StateNode, GoodNode, GraphOK, EventsOK
<1>9. FirstParentLineage(n)' = before /\ KeepsTargets(before)'
  BY <1>8, NodeStays, TargetsStay DEF GoodNode
<1>10. Range(Append(n.chain, k)) = Range(n.chain) \cup {k}
  <2>1. n.chain \in Seq(DOMAIN apps') /\ k \in DOMAIN apps'
    BY <1>4, <1>5
  <2> QED
    BY <2>1, AppendRange
<1>11. FirstParentLineage(m)' = before \cup {k}
  BY <1>3, <1>6, <1>9, <1>10 DEF FirstParentLineage
<1>12. \A a \in before \cup {k} : \A t : apps'[a].decision.source # 0 /\ t = apps'[a].decision.target
         => FirstParentLineage(t)' \subseteq before \cup {k}
  BY <1>4, <1>9 DEF KeepsTargets, FirstParentLineage
<1>13. KeepsTargets(FirstParentLineage(m))'
  BY <1>11, <1>12 DEF KeepsTargets, FirstParentLineage
<1> QED
  BY <1>2, <1>7, <1>13 DEF GoodNode

\* One more application on a context's chain keeps the invariant.
LEMMA ChainStep ==
  ASSUME IInv, NEW c \in Context, Live(c), NEW r, apps' = Append(apps, r), NewApp(r),
         r.decision.source # 0 => r.decision.target = ctx[c],
         ctx' = [ctx EXCEPT ![c].chain = Append(@, Len(apps) + 1)],
         UNCHANGED <<events, main, effects>>
  PROVE  IInv'
<1>1. AppsAppended(r)
  BY AppendedFact DEF IInv, GraphInv, GraphOK
<1>2. Grows /\ DOMAIN events' = DOMAIN events
  BY <1>1 DEF Grows, AppsAppended
<1>3. Numbered'
  BY <1>1 DEF AppsAppended, Numbered, IInv, GraphInv, GraphOK
<1>4. GraphOK'
  BY <1>1, <1>2, <1>3, NewAppOK, GraphStep DEF IInv, GraphInv
<1>5. GraphInv'
  BY <1>2, <1>4, GraphInvStep DEF IInv
<1>6. ctx' = [ctx EXCEPT ![c] = [ctx[c] EXCEPT !.chain = Append(@, Len(apps) + 1)]]
  BY DEF IInv, ContextsStand
<1>7. PICK n \in GoodNode : n = ctx[c]
  BY DEF IInv, ContextsStand, Live
<1>8. [n EXCEPT !.chain = Append(@, Len(apps) + 1)] \in GoodNode'
  BY <1>1, <1>2, <1>7, NodeGrows DEF IInv, GraphInv
<1>9. GoodNode \subseteq GoodNode'
  BY <1>2, GoodNodesStay DEF IInv, GraphInv
<1>10. ContextsStand'
  BY <1>6, <1>7, <1>8, <1>9 DEF IInv, ContextsStand
<1> QED
  BY <1>5, <1>10 DEF IInv, EffectsForward

-----------------------------------------------------------------------------
(* Edits and merges *)

\* What a comparison explains it explains by applications made before.
LEMMA AttributionFact ==
  ASSUME GraphOK, NEW line \in SUBSET DOMAIN apps, NEW f \in File, NEW x, NEW y
  PROVE  Attribution(Steps(Touching(line, f), f), x, y) \subseteq DOMAIN apps
<1>1. PICK steps : steps = Steps(Touching(line, f), f)
  OBVIOUS
<1>2. ASSUME NEW a \in DOMAIN steps PROVE {steps[a].id} \cup steps[a].merges \subseteq DOMAIN apps
  <2>1. a \in line /\ a \in DOMAIN apps /\ apps[a].change[f] # 0
    BY <1>1, <1>2 DEF Steps, Touching
  <2>2. PICK c : c = apps[a].change[f]
    OBVIOUS
  <2>3. c \in DOMAIN apps /\ f \in DOMAIN apps[c].made
    BY <2>1, <2>2 DEF GraphOK, AppsOK, AppOK
  <2>4. Change(c, f).merges \subseteq DOMAIN apps
    BY <2>3 DEF Change, GraphOK, AppsOK, AppOK
  <2>5. steps[a].id = c /\ steps[a].merges = Change(c, f).merges
    BY <1>1, <1>2, <2>2 DEF Steps
  <2> QED
    BY <2>3, <2>4, <2>5
<1>3. Attribution(steps, x, y) \subseteq DOMAIN apps
  BY <1>2 DEF Attribution
<1> QED
  BY <1>1, <1>3

\* So are the changes a row of the comparison names.
LEMMA ComparedApps ==
  ASSUME GraphOK, NEW n \in StateNode, NEW s \in DOMAIN events, NEW f \in File,
         NEW row, row = Comparison(n, s)[f]
  PROVE  /\ row.accounted \subseteq DOMAIN apps /\ row.contributors \subseteq DOMAIN apps
         /\ row.terminal # 0 => row.terminal \in DOMAIN apps /\ f \in DOMAIN apps[row.terminal].made
<1>1. PICK b : b = Base(n, s)
  OBVIOUS
<1>2. PICK own \in SUBSET DOMAIN apps : own = events[s].line \ Shared(n, s, b)
  BY DEF GraphOK, EventsOK, EventOK
<1>3. PICK mine \in SUBSET DOMAIN apps : mine = FirstParentLineage(n) \ Shared(n, s, b)
  BY NodeLine DEF StateNode, GraphOK, EventsOK
<1>4. Incoming(n, s, b, f) = Touching(own, f) /\ Local(n, s, b, f) = Touching(mine, f)
  BY <1>2, <1>3 DEF Incoming, Local
<1>5. row = Row(n, s, b, f)
  BY <1>1 DEF Comparison
<1>6. /\ row.accounted = Attribution(Steps(Touching(own, f), f), events[b].state[f], events[s].state[f])
      /\ row.contributors = row.accounted \cup
           Attribution(Steps(Touching(mine, f), f), events[b].state[f], StateRoot(n)[f])
      /\ row.terminal = IF events[b].state[f] = events[s].state[f] \/ Touching(own, f) = {} THEN 0
                        ELSE apps[Max(Touching(own, f))].change[f]
  BY <1>4, <1>5 DEF Row
<1>7. row.accounted \subseteq DOMAIN apps /\ row.contributors \subseteq DOMAIN apps
  BY <1>6, AttributionFact
<1>8. ASSUME row.terminal # 0
      PROVE  row.terminal \in DOMAIN apps /\ f \in DOMAIN apps[row.terminal].made
  <2>1. Touching(own, f) # {} /\ Touching(own, f) \subseteq DOMAIN apps
    BY <1>6, <1>8 DEF Touching
  <2>2. Len(apps) \in Nat /\ Touching(own, f) \in SUBSET (0 .. Len(apps))
    BY <2>1, DomainFact DEF GraphOK
  <2>3. Max(Touching(own, f)) \in DOMAIN apps
    BY <2>1, <2>2, HighestFact
  <2> QED
    BY <1>6, <1>8, <2>1, <2>3 DEF GraphOK, AppsOK, AppOK
<1> QED
  BY <1>7, <1>8

\* A comparison is about the files.
LEMMA PendingFact ==
  ASSUME NEW n, NEW s
  PROVE  DOMAIN Comparison(n, s) = File /\ Pending(Comparison(n, s)) \subseteq File
  BY DEF Comparison, Pending

\* An edit keeps the invariant.
LEMMA EditStep ==
  ASSUME IInv, NEW c \in Context, NEW f \in File, NEW v \in Value, Edit(c, f, v)
  PROVE  IInv'
<1>1. PICK r : r = [change |-> [Nothing EXCEPT ![f] = Len(apps) + 1],
                    made |-> [g \in {f} |-> [base |-> StateRoot(ctx[c])[f], result |-> v, merges |-> {}]],
                    decision |-> NoDecision, state |-> [StateRoot(ctx[c]) EXCEPT ![f] = v]]
  OBVIOUS
<1>2. apps' = Append(apps, r)
  BY <1>1 DEF Edit, Applied
<1>3. r.decision.source = 0
  BY <1>1 DEF NoDecision
<1>4. \A g \in File : r.change[g] # 0 => g = f /\ r.change[g] = Len(apps) + 1
  BY <1>1 DEF Nothing
<1>5. DOMAIN r.made = {f} /\ r.made[f].merges = {}
  BY <1>1
<1>6. NewApp(r)
  BY <1>3, <1>4, <1>5 DEF NewApp
<1> QED
  BY <1>2, <1>3, <1>6, ChainStep DEF Edit

\* What a merge records.
MergeRecord(n, s, cmp, S, taken, made) ==
  LET change == [f \in File |-> IF f \in made THEN Len(apps) + 1
                                ELSE IF f \in taken THEN cmp[f].terminal ELSE 0]
  IN [change |-> change,
      made |-> [f \in made |-> [base |-> cmp[f].ours, result |-> cmp[f].theirs,
                                merges |-> cmp[f].contributors]],
      decision |-> [source |-> s, target |-> n,
         entries |-> [f \in S |-> [change |-> change[f], accounted |-> cmp[f].accounted]]],
      state |-> [f \in File |-> IF f \in taken THEN cmp[f].theirs ELSE cmp[f].ours]]

\* A merge records a selection: what is taken, and which of it by a change of its own.
LEMMA MergeIs ==
  ASSUME NEW c \in Context, NEW s, Merge(c, s), NEW n, n = ctx[c], NEW cmp, cmp = Comparison(n, s)
  PROVE  \E S, taken, made :
           /\ S \subseteq File /\ taken \subseteq S /\ made \subseteq taken
           /\ \A f \in taken \ made : Reused(cmp, f)
           /\ apps' = Append(apps, MergeRecord(n, s, cmp, S, taken, made))
<1> DEFINE found == Comparison(ctx[c], s)
           Taken(t) == {f \in t : found[f].status # "convergent"}
           Made(t) == {f \in Taken(t) : ~Reused(found, f)}
           Chg(t) == [f \in File |-> IF f \in Made(t) THEN Len(apps) + 1
                                        ELSE IF f \in Taken(t) THEN found[f].terminal ELSE 0]
           Answer(S, t) == Applied(Chg(t),
                [f \in Made(t) |-> [base |-> found[f].ours, result |-> found[f].theirs,
                                    merges |-> found[f].contributors]],
                [source |-> s, target |-> ctx[c],
                 entries |-> [f \in S |-> [change |-> Chg(t)[f], accounted |-> found[f].accounted]]],
                [f \in File |-> IF f \in Taken(t) THEN found[f].theirs ELSE found[f].ours])
<1>1. \E S \in Selections(found) : \E t \in SUBSET S :
         (S # {} \/ ~Concluded(ctx[c], s)) /\ Answer(S, t)
  BY Zenon DEF Merge
<1>2. PICK S, t : S \in Selections(found) /\ t \in SUBSET S /\ Answer(S, t)
  BY <1>1, Zenon
<1>3. apps' = Append(apps, MergeRecord(ctx[c], s, found, S, Taken(t), Made(t)))
  BY <1>2 DEF Applied, MergeRecord
<1>4. S \subseteq File
  BY <1>2, PendingFact DEF Selections
<1>5. Taken(t) \subseteq S /\ Made(t) \subseteq Taken(t) /\ \A f \in Taken(t) \ Made(t) : Reused(found, f)
  BY <1>2
<1>6. found = cmp
  OBVIOUS
<1> HIDE DEF Taken, Made, Chg, Answer, found
<1> QED
  BY <1>3, <1>4, <1>5, <1>6

\* A merge keeps the invariant.
LEMMA MergeStep ==
  ASSUME IInv, NEW c \in Context, NEW s \in DOMAIN events, Merge(c, s)
  PROVE  IInv'
<1>1. PICK n \in StateNode : n = ctx[c]
  BY DEF Merge, Live, IInv, ContextsStand, GoodNode
<1>2. PICK cmp : cmp = Comparison(n, s)
  OBVIOUS
<1>3. PICK S, taken, made :
           /\ S \subseteq File /\ taken \subseteq S /\ made \subseteq taken
           /\ \A f \in taken \ made : Reused(cmp, f)
           /\ apps' = Append(apps, MergeRecord(n, s, cmp, S, taken, made))
  BY <1>1, <1>2, MergeIs
<1>4. PICK r : r = MergeRecord(n, s, cmp, S, taken, made)
  OBVIOUS
<1>5. PICK change : change = [f \in File |-> IF f \in made THEN Len(apps) + 1
                                ELSE IF f \in taken THEN cmp[f].terminal ELSE 0]
  OBVIOUS
<1>6. /\ r.change = change
      /\ r.made = [f \in made |-> [base |-> cmp[f].ours, result |-> cmp[f].theirs,
                                   merges |-> cmp[f].contributors]]
      /\ r.decision = [source |-> s, target |-> n,
            entries |-> [f \in S |-> [change |-> change[f], accounted |-> cmp[f].accounted]]]
  BY <1>4, <1>5 DEF MergeRecord
<1>7. \A f \in File :
        /\ cmp[f].accounted \subseteq DOMAIN apps /\ cmp[f].contributors \subseteq DOMAIN apps
        /\ cmp[f].terminal # 0 => cmp[f].terminal \in DOMAIN apps /\ f \in DOMAIN apps[cmp[f].terminal].made
  <2> SUFFICES ASSUME NEW f \in File, NEW row, row = cmp[f]
               PROVE /\ row.accounted \subseteq DOMAIN apps /\ row.contributors \subseteq DOMAIN apps
                     /\ row.terminal # 0 => row.terminal \in DOMAIN apps /\ f \in DOMAIN apps[row.terminal].made
    OBVIOUS
  <2> QED
    BY <1>2, ComparedApps DEF IInv, GraphInv
<1>8. \A f \in File : r.change[f] # 0 =>
       \/ r.change[f] \in DOMAIN apps /\ f \in DOMAIN apps[r.change[f]].made
       \/ r.change[f] = Len(apps) + 1 /\ f \in DOMAIN r.made
  <2> SUFFICES ASSUME NEW f \in File, r.change[f] # 0
               PROVE \/ r.change[f] \in DOMAIN apps /\ f \in DOMAIN apps[r.change[f]].made
                     \/ r.change[f] = Len(apps) + 1 /\ f \in DOMAIN r.made
    OBVIOUS
  <2>1. CASE f \in made
    BY <1>5, <1>6, <2>1
  <2>2. CASE f \notin made
    <3>1. r.change[f] = cmp[f].terminal
      BY <1>5, <1>6, <2>2
    <3> QED
      BY <1>7, <3>1
  <2> QED
    BY <2>1, <2>2
<1>9. \A f \in DOMAIN r.made : r.made[f].merges \subseteq DOMAIN apps
  BY <1>3, <1>6, <1>7
<1>10. r.decision.target = n /\ r.decision.source = s
       /\ \A f \in DOMAIN r.decision.entries : r.decision.entries[f].accounted \subseteq DOMAIN apps
  BY <1>3, <1>6, <1>7
<1>11. NewApp(r)
  BY <1>8, <1>9, <1>10 DEF NewApp
<1> QED
  BY <1>1, <1>3, <1>4, <1>10, <1>11, ChainStep DEF Merge

-----------------------------------------------------------------------------
(* The comparison in the graph after the step *)

\* The graph after a step is read as the step's primed operators read it.
LEMMA AfterNode ==
  ASSUME NEW n
  PROVE  After!FirstParentLineage(n) = FirstParentLineage(n)' /\ After!StateRoot(n) = StateRoot(n)'
  BY DEF FirstParentLineage, After!FirstParentLineage, StateRoot, After!StateRoot,
         Range, After!Range, Last, After!Last

\* Its bases.
LEMMA AfterBases ==
  ASSUME NEW n, NEW s
  PROVE  /\ After!MaximalMergeBases(n, s) = MaximalMergeBases(n, s)'
         /\ After!Base(n, s) = Base(n, s)'
<1>1. \A d : After!Parents(d) = Parents(d)'
  BY DEF Parents, After!Parents
<1>2. After!MaximalMergeBases(n, s) = MaximalMergeBases(n, s)'
  BY <1>1 DEF MaximalMergeBases, After!MaximalMergeBases
<1> QED
  BY <1>2 DEF Base, After!Base, First, After!First

\* Its changes on a line.
LEMMA AfterTouching ==
  ASSUME NEW line, NEW f PROVE After!Touching(line, f) = Touching(line, f)'
  BY DEF Touching, After!Touching

\* Its changes to compare.
LEMMA AfterLines ==
  ASSUME NEW n, NEW s, NEW b, NEW f
  PROVE  /\ After!Incoming(n, s, b, f) = Incoming(n, s, b, f)'
         /\ After!Local(n, s, b, f) = Local(n, s, b, f)'
<1>1. After!Shared(n, s, b) = Shared(n, s, b)'
  BY AfterNode DEF Shared, After!Shared
<1> QED
  BY <1>1, AfterNode DEF Incoming, After!Incoming, Local, After!Local, Touching, After!Touching

\* Its decisions.
LEMMA AfterDecided ==
  ASSUME NEW line, NEW s, NEW f PROVE After!DecidedAt(line, s, f) = DecidedAt(line, s, f)'
  BY DEF DecidedAt, After!DecidedAt, Decides, After!Decides

\* Its statuses.
LEMMA AfterStatus ==
  ASSUME NEW n, NEW s, NEW b, NEW f
  PROVE  After!Status(n, s, b, f) = Status(n, s, b, f)'
<1>1. After!Compared(n, s, b, f) = Compared(n, s, b, f)'
  BY AfterNode, AfterBases, AfterLines DEF Compared, After!Compared
<1>2. After!DecidedAt(After!FirstParentLineage(n), s, f) = DecidedAt(FirstParentLineage(n), s, f)'
  BY AfterNode DEF DecidedAt, After!DecidedAt, Decides, After!Decides
<1> QED
  BY <1>1, <1>2, AfterNode, AfterBases DEF Status, After!Status

\* What its walks read.
LEMMA AfterSteps ==
  ASSUME NEW touching, NEW f PROVE After!Steps(touching, f) = Steps(touching, f)'
<1>1. \A c : After!Change(c, f) = Change(c, f)'
  BY DEF Change, After!Change
<1>2. \A t : After!StateRoot(t) = StateRoot(t)'
  BY AfterNode
<1>3. \A c : After!BroughtIn(c, f) = BroughtIn(c, f)'
  BY DEF BroughtIn, After!BroughtIn
<1>4. \A c : After!Accounted(c, f) = Accounted(c, f)'
  BY <1>1, <1>2, <1>3 DEF Accounted, After!Accounted, StateRoot, After!StateRoot, Last, After!Last
<1> QED
  BY <1>1, <1>4 DEF Steps, After!Steps

\* Its walks.
LEMMA AfterExplains ==
  ASSUME NEW steps, NEW base, NEW final
  PROVE  After!Explains(steps, base, final) <=> Explains(steps, base, final)
<1>1. After!Walked(steps, base) = Walked(steps, base)
  BY DEF Walked, After!Walked, Max, After!Max
<1> QED
  BY <1>1 DEF Explains, After!Explains

\* Its explanations.
LEMMA AfterRow ==
  ASSUME NEW n, NEW s, NEW b, NEW f, NEW status
  PROVE  After!RowExplained(n, s, b, f, status) <=> RowExplained(n, s, b, f, status)'
<1>1. CASE status = "resolved"
  <2>1. PICK line : line = FirstParentLineage(n)'
    OBVIOUS
  <2>2. PICK i : i = Max(DecidedAt(line, s, f))'
    OBVIOUS
  <2>3. i = After!Max(After!DecidedAt(line, s, f))
    BY <2>2, AfterDecided DEF Max, After!Max
  <2>4. PICK t : t = apps'[i].decision.target
    OBVIOUS
  <2>5. PICK before : before = FirstParentLineage(t)'
    OBVIOUS
  <2>6. before = After!FirstParentLineage(t) /\ After!StateRoot(t) = StateRoot(t)' /\ line = After!FirstParentLineage(n)
    BY <2>1, <2>5, AfterNode
  <2>7. PICK x : x = Steps(Touching(before, f), f)'
    OBVIOUS
  <2>8. PICK y : y = Steps(Touching({a \in line : a > i}, f), f)'
    OBVIOUS
  <2>9. /\ x = After!Steps(After!Touching(before, f), f)
        /\ y = After!Steps(After!Touching({a \in line : a > i}, f), f)
    BY <2>7, <2>8, AfterTouching, AfterSteps DEF Steps
  <2> QED
    BY <1>1, <2>1, <2>2, <2>3, <2>4, <2>5, <2>6, <2>7, <2>8, <2>9, AfterNode, AfterExplains
    DEF RowExplained, After!RowExplained, DecisionExplained, After!DecisionExplained
<1>2. CASE status # "resolved" /\ status # "none"
  <2>1. PICK x : x = Steps(Incoming(n, s, b, f), f)'
    OBVIOUS
  <2>2. PICK y : y = Steps(Local(n, s, b, f), f)'
    OBVIOUS
  <2>3. x = After!Steps(After!Incoming(n, s, b, f), f) /\ y = After!Steps(After!Local(n, s, b, f), f)
    BY <2>1, <2>2, AfterLines, AfterSteps DEF Steps
  <2> QED
    BY <1>2, <2>1, <2>2, <2>3, AfterNode, AfterExplains DEF RowExplained, After!RowExplained
<1>3. CASE status = "none"
  BY <1>3 DEF RowExplained, After!RowExplained
<1> QED
  BY <1>1, <1>2, <1>3

\* What a comparison must say for the integration to be complete.
LEMMA CompleteFact ==
  ASSUME NEW n, NEW s, Complete(n, s), NEW f \in File, NEW b, b = Base(n, s),
         NEW status, status = Status(n, s, b, f)
  PROVE  status \in Settled /\ RowExplained(n, s, b, f, status)
  BY PendingFact, RowFact DEF Complete, Explained

\* The same, in the graph after the step.
LEMMA CompleteAfter ==
  ASSUME NEW n, NEW s, After!Complete(n, s), NEW f \in File, NEW b, b = Base(n, s)',
         NEW status, status = Status(n, s, b, f)'
  PROVE  status \in Settled /\ RowExplained(n, s, b, f, status)'
<1>1. b = After!Base(n, s) /\ status = After!Status(n, s, b, f)
  BY AfterBases, AfterStatus
<1>2. DOMAIN After!Comparison(n, s) = File
  BY DEF After!Comparison
<1>3. /\ After!Comparison(n, s)[f].status = status
      /\ After!Comparison(n, s)[f].explained = After!RowExplained(n, s, b, f, status)
  BY <1>1 DEF After!Comparison, After!Row
<1>4. status \in After!Settled /\ After!RowExplained(n, s, b, f, status)
  BY <1>2, <1>3 DEF After!Complete, After!Explained
<1> QED
  BY <1>4, AfterRow DEF Settled, After!Settled

-----------------------------------------------------------------------------
(* Commits *)

\* What a new event's integrations must say in the graph it is added to.
NewStands(n, s) ==
  \A f \in File : \A b, status : b = Base(n, s)' /\ status = Status(n, s, b, f)' =>
    status \in Settled /\ RowExplained(n, s, b, f, status)'

\* The sources of a chain are events there are.
LEMMA SourcesFact ==
  ASSUME GraphOK, NEW chain \in Seq(DOMAIN apps)
  PROVE  Sources(chain) \subseteq DOMAIN events
<1> SUFFICES ASSUME NEW s \in Sources(chain) PROVE s \in DOMAIN events
  OBVIOUS
<1>1. PICK a \in Range(chain) : s = apps[a].decision.source /\ s # 0
  BY DEF Sources
<1>2. a \in DOMAIN apps
  BY <1>1 DEF Range
<1> QED
  BY <1>1, <1>2 DEF GraphOK, AppsOK, AppOK

\* The new event is placed above its parents.
LEMMA NewGeneration ==
  ASSUME GraphOK, NEW P \in SUBSET DOMAIN events, P # {}
  PROVE  1 + Max({events[p].generation : p \in P}) \in 0 .. Len(events)
<1>1. Len(events) \in Nat \ {0} /\ DOMAIN events = 1 .. Len(events)
  BY DomainFact DEF GraphOK
<1> DEFINE G == {events[p].generation : p \in P}
<1>2. \A g \in G : g \in 0 .. Len(events) - 1
  BY <1>1 DEF GraphOK, EventsOK, EventOK
<1>3. G # {} /\ Len(events) - 1 \in Nat /\ G \in SUBSET (0 .. (Len(events) - 1))
  <2>1. G # {}
    OBVIOUS
  <2> HIDE DEF G
  <2> QED
    BY <1>1, <1>2, <2>1
<1> HIDE DEF G
<1>4. Max(G) \in G
  BY <1>3, HighestFact
<1>5. 1 + Max(G) \in 0 .. Len(events)
  <2>1. Max(G) \in 0 .. (Len(events) - 1)
    BY <1>3, <1>4
  <2> QED
    BY <1>1, <2>1
<1> QED
  BY <1>5 DEF G

\* A commit adds an integration that stands, and leaves its context on it.
LEMMA CommitStep ==
  ASSUME IInv, NEW c \in Context, NEW n, NEW sources \in SUBSET DOMAIN events, Committed(c, n, sources),
         Grows, \E S : apps' \in Seq(S),
         \A a \in DOMAIN apps' \ DOMAIN apps : AppOK(a)',
         n \in GoodNode', n.event \in DOMAIN events, n.chain # <<>>,
         FirstParentLineage(n)' = FirstParentLineage(n),
         FirstParentLineage(n) \subseteq DOMAIN apps',
         \A s \in sources : NewStands(n, s)
  PROVE  IInv'
<1>1. PICK e : e = [first |-> n.event, sources |-> sources, apps |-> n.chain,
        state |-> apps'[Last(n.chain)].state,
        closure |-> {Len(events) + 1} \cup
                    UNION {events[p].closure : p \in sources \cup {n.event}},
        line |-> FirstParentLineage(n),
        generation |-> 1 + Max({events[p].generation : p \in sources \cup {n.event}})]
  OBVIOUS
<1>2. events' = Append(events, e)
  BY <1>1 DEF Committed
<1>3. PICK k : k = Len(events) + 1
  OBVIOUS
<1>4. Len(events) \in Nat /\ DOMAIN events = 1 .. Len(events)
  BY DomainFact DEF IInv, GraphInv, GraphOK
<1>5. /\ events'[k] = e /\ DOMAIN events' = DOMAIN events \cup {k} /\ k \notin DOMAIN events
      /\ k \in Nat \ {0} /\ \E S : events' \in Seq(S)
  <2>1. PICK S : events \in Seq(S)
    BY DEF IInv, GraphInv, GraphOK, Numbered
  <2>2. events \in Seq(S \cup {e}) /\ e \in S \cup {e}
    BY <2>1
  <2> QED
    BY <1>2, <1>3, <2>2
<1>6. Numbered'
  BY <1>5 DEF Numbered
<1>7. EventOK(k)'
  <2>1. events'[k].first \in 0 .. k - 1
    BY <1>1, <1>3, <1>4, <1>5
  <2>2. events'[k].sources \subseteq 1 .. k - 1
    BY <1>1, <1>3, <1>4, <1>5
  <2>3. events'[k].closure \subseteq DOMAIN events' /\ 1 \in events'[k].closure
    <3>1. \A p \in sources \cup {n.event} : events[p].closure \subseteq DOMAIN events /\ 1 \in events[p].closure
      BY DEF IInv, GraphInv, GraphOK, EventsOK, EventOK
    <3>2. events'[k].closure = {k} \cup UNION {events[p].closure : p \in sources \cup {n.event}}
      BY <1>1, <1>3, <1>5
    <3> QED
      BY <1>5, <3>1, <3>2
  <2>4. events'[k].generation \in 0 .. k - 1
    <3>1. 1 + Max({events[p].generation : p \in sources \cup {n.event}}) \in 0 .. Len(events)
      BY NewGeneration DEF IInv, GraphInv
    <3>2. events'[k].generation = 1 + Max({events[p].generation : p \in sources \cup {n.event}})
      BY <1>1, <1>5
    <3>3. k - 1 = Len(events)
      BY <1>3, <1>4
    <3> QED
      BY <3>1, <3>2, <3>3
  <2>5. events'[k].line \subseteq DOMAIN apps'
    BY <1>1, <1>5
  <2> QED
    BY <2>1, <2>2, <2>3, <2>4, <2>5 DEF EventOK
<1>8. GraphOK'
  BY <1>5, <1>6, <1>7, GraphStep DEF IInv, GraphInv
<1>9. Result(k)' = n
  <2>1. n = [event |-> n.event, chain |-> n.chain]
    BY DEF GoodNode, StateNode
  <2> QED
    BY <1>1, <1>5, <2>1 DEF Result
<1>10. KeepsTargets(events[k].line)'
  BY <1>1, <1>5 DEF GoodNode, KeepsTargets, FirstParentLineage
<1>11. IntegrationOK(k)'
  <2>1. /\ Result(k)' \in StateNode' /\ events'[k].apps # <<>>
        /\ events'[k].line = FirstParentLineage(n)' /\ events'[k].state = StateRoot(n)'
    BY <1>1, <1>5, <1>9 DEF GoodNode, StateRoot
  <2>2. FirstParentLineage(Result(k))' = FirstParentLineage(n)' /\ StateRoot(Result(k))' = StateRoot(n)'
    BY <1>9 DEF FirstParentLineage, StateRoot
  <2> QED
    BY <2>1, <2>2 DEF IntegrationOK
<1>12. ASSUME NEW s \in events'[k].sources, NEW f \in File PROVE Stands(k, s, f)'
  <2>0. s \in sources
    BY <1>1, <1>5, <1>12
  <2>1. PICK b : b = Base(n, s)'
    OBVIOUS
  <2>2. PICK status : status = Status(n, s, b, f)'
    OBVIOUS
  <2>3. status \in Settled /\ RowExplained(n, s, b, f, status)'
    BY <2>0, <2>1, <2>2 DEF NewStands
  <2>4. b = Base(Result(k), s)'
    BY <1>9, <2>1 DEF Base, MaximalMergeBases
  <2>5. status = Status(Result(k), s, b, f)'
    BY <1>9, <2>2 DEF Status, Compared
  <2>6. RowExplained(Result(k), s, b, f, status)'
    BY <1>9, <2>3 DEF RowExplained
  <2> QED
    BY <2>3, <2>4, <2>5, <2>6 DEF Stands
<1>13. GraphInv'
  <2>1. \A d \in DOMAIN events' \ DOMAIN events :
           /\ IntegrationOK(d)' /\ KeepsTargets(events[d].line)'
           /\ \A s \in events'[d].sources : \A f \in File : Stands(d, s, f)'
    BY <1>5, <1>10, <1>11, <1>12
  <2> QED
    BY <1>8, <2>1, GraphInvStep DEF IInv
<1>14. Clean(k) \in GoodNode'
  <2>1. Clean(k) = [event |-> k, chain |-> <<>>] /\ <<>> \in Seq(DOMAIN apps') /\ Range(<<>>) = {}
    BY DEF Clean, Range
  <2>2. Clean(k) \in StateNode'
    BY <1>5, <2>1 DEF StateNode
  <2>3. FirstParentLineage(Clean(k))' = events'[k].line
    BY <2>1 DEF FirstParentLineage, Clean, Range
  <2> QED
    BY <1>10, <2>2, <2>3 DEF GoodNode, KeepsTargets, FirstParentLineage, Clean
<1>15. GoodNode \subseteq GoodNode'
  BY GoodNodesStay DEF IInv, GraphInv
<1>16. ContextsStand'
  BY <1>3, <1>14, <1>15 DEF IInv, ContextsStand, Committed
<1>17. EffectsForward' /\ main' \in DOMAIN events'
  BY DEF IInv, EffectsForward, Committed, Grows
<1> QED
  BY <1>13, <1>16, <1>17 DEF IInv

\* A commit asks its own graph whether the integration is complete.
LEMMA CommitPlain ==
  ASSUME IInv, NEW c \in Context, Commit(c) PROVE IInv'
<1>1. PICK n \in GoodNode : n = ctx[c]
  BY DEF Commit, Live, IInv, ContextsStand
<1>2. n \in StateNode /\ n.event \in DOMAIN events /\ n.chain \in Seq(DOMAIN apps) /\ n.chain # <<>>
  BY <1>1 DEF GoodNode, StateNode, Commit
<1>3. PICK sources \in SUBSET DOMAIN events : sources = Sources(n.chain)
  BY <1>2, SourcesFact DEF IInv, GraphInv
<1>4. Committed(c, n, sources) /\ apps' = apps /\ IntegrationComplete(n, sources)
  BY <1>1, <1>3 DEF Commit
<1>5. PICK e : events' = Append(events, e)
  BY <1>4 DEF Committed
<1>6. Grows
  <2>1. PICK S : events \in Seq(S)
    BY DEF IInv, GraphInv, GraphOK, Numbered
  <2>2. events \in Seq(S \cup {e}) /\ e \in S \cup {e}
    BY <2>1
  <2> QED
    BY <1>4, <1>5, <2>2 DEF Grows
<1>7. n \in GoodNode'
  BY <1>6, GoodNodesStay DEF IInv, GraphInv
<1>8. FirstParentLineage(n)' = FirstParentLineage(n)
  BY <1>2, <1>6, NodeStays
<1>9. FirstParentLineage(n) \subseteq DOMAIN apps'
  BY <1>2, <1>4, NodeLine DEF IInv, GraphInv, GraphOK, EventsOK
<1>10. ASSUME NEW s \in sources PROVE NewStands(n, s)
  <2>1. Complete(n, s)
    BY <1>4, <1>10 DEF IntegrationComplete
  <2> SUFFICES ASSUME NEW f \in File, NEW b, NEW status, b = Base(n, s)', status = Status(n, s, b, f)'
               PROVE  status \in Settled /\ RowExplained(n, s, b, f, status)'
    BY DEF NewStands
  <2>2. s \in DOMAIN events
    BY <1>10
  <2>3. b = Base(n, s)
    BY <1>2, <1>6, <2>2, BasesStay DEF IInv, GraphInv, GraphOK
  <2>4. status = Status(n, s, b, f)
    BY <1>2, <1>6, <2>2, <2>3, StatusStays DEF IInv, GraphInv
  <2>5. status \in Settled /\ RowExplained(n, s, b, f, status)
    BY <2>1, <2>3, <2>4, CompleteFact
  <2>6. \A line : Unmoved(line, f)
    BY <1>4 DEF Unmoved, BroughtIn
  <2>7. RowExplained(n, s, b, f, Status(n, s, b, f))'
    BY <1>2, <1>6, <2>2, <2>3, <2>4, <2>5, <2>6, ExplainedStays DEF IInv, GraphInv, GoodNode
  <2>8. status = Status(n, s, b, f)'
    OBVIOUS
  <2> QED
    BY <2>5, <2>7 DEF RowExplained
<1>11. \A a \in DOMAIN apps' \ DOMAIN apps : AppOK(a)'
  BY <1>4
<1>12. \E S : apps' \in Seq(S)
  BY <1>4 DEF IInv, GraphInv, GraphOK, Numbered
<1> QED
  BY <1>2, <1>4, <1>6, <1>7, <1>8, <1>9, <1>10, <1>11, <1>12, CommitStep

\* A concluding commit asks the graph with its own decision in it.
LEMMA ConcludingStep ==
  ASSUME IInv, NEW c \in Context, NEW s \in DOMAIN events, CommitConcluding(c, s) PROVE IInv'
<1>1. PICK m \in GoodNode : m = ctx[c]
  BY DEF CommitConcluding, Live, IInv, ContextsStand
<1>2. m \in StateNode /\ m.event \in DOMAIN events /\ m.chain \in Seq(DOMAIN apps)
      /\ m = [event |-> m.event, chain |-> m.chain]
  BY <1>1 DEF GoodNode, StateNode
<1> DEFINE cmp == Comparison(m, s)
<1>3. PICK r : r = [change |-> Nothing, made |-> <<>>,
       decision |-> [source |-> s, target |-> ctx[c],
        entries |-> [f \in Pending(cmp) |-> [change |-> 0, accounted |-> cmp[f].accounted]]],
       state |-> StateRoot(ctx[c])]
  OBVIOUS
<1>4. apps' = Append(apps, r)
  BY <1>1, <1>3 DEF CommitConcluding, Applied
<1>5. \A f \in Pending(cmp) : cmp[f].accounted \subseteq DOMAIN apps
  BY <1>2, PendingFact, ComparedApps DEF IInv, GraphInv
<1>6. NewApp(r)
  <2>1. /\ r.change = Nothing /\ DOMAIN r.made = {} /\ r.decision.source = s /\ r.decision.target = m
        /\ \A f \in DOMAIN r.decision.entries : r.decision.entries[f].accounted \subseteq DOMAIN apps
    <3> HIDE DEF cmp
    <3> QED
      BY <1>1, <1>3, <1>5
  <2> QED
    BY <1>2, <2>1 DEF NewApp, Nothing
<1>7. AppsAppended(r)
  BY <1>4, AppendedFact DEF IInv, GraphInv, GraphOK
<1>8. PICK n : n = [m EXCEPT !.chain = Append(@, Len(apps) + 1)]
  OBVIOUS
<1>9. PICK sources : sources = Sources(m.chain) \cup {s}
  OBVIOUS
<1>10. Committed(c, n, sources) /\ After!IntegrationComplete(n, sources)
  BY <1>1, <1>8, <1>9 DEF CommitConcluding
<1>11. sources \in SUBSET DOMAIN events
  BY <1>2, <1>9, SourcesFact DEF IInv, GraphInv
<1>12. PICK e : events' = Append(events, e)
  BY <1>10 DEF Committed
<1>13. Grows
  <2>1. PICK S : events \in Seq(S)
    BY DEF IInv, GraphInv, GraphOK, Numbered
  <2>2. events \in Seq(S \cup {e}) /\ e \in S \cup {e}
    BY <2>1
  <2> QED
    BY <1>7, <1>12, <2>2 DEF Grows, AppsAppended
<1>14. \A a \in DOMAIN apps' \ DOMAIN apps : AppOK(a)'
  BY <1>6, <1>7, <1>13, NewAppOK DEF IInv, GraphInv
<1>15. n \in GoodNode'
  <2>1. r.decision.target = m
    BY <1>1, <1>3
  <2> QED
    BY <1>7, <1>8, <1>13, <2>1, NodeGrows DEF IInv, GraphInv
<1>16. n.event = m.event /\ n.chain = Append(m.chain, Len(apps) + 1) /\ n.chain # <<>>
  BY <1>2, <1>8
<1>17. /\ FirstParentLineage(n)' = FirstParentLineage(n)
       /\ FirstParentLineage(n) \subseteq DOMAIN apps'
  <2>1. PICK k : k = Len(apps) + 1
    OBVIOUS
  <2>2. k \in DOMAIN apps' /\ DOMAIN apps \subseteq DOMAIN apps' /\ n.chain = Append(m.chain, k)
    BY <1>7, <1>16, <2>1 DEF AppsAppended
  <2>3. n.chain \in Seq(DOMAIN apps')
    BY <1>2, <2>2, AppendRange
  <2>4. Range(n.chain) \subseteq DOMAIN apps'
    BY <2>3 DEF Range
  <2>5. events'[n.event] = events[n.event] /\ events[n.event].line \subseteq DOMAIN apps
    BY <1>2, <1>13, <1>16 DEF Grows, IInv, GraphInv, GraphOK, EventsOK, EventOK
  <2> QED
    BY <2>2, <2>4, <2>5 DEF FirstParentLineage
<1>18. ASSUME NEW x \in sources PROVE NewStands(n, x)
  <2>1. After!Complete(n, x)
    BY <1>10, <1>18 DEF After!IntegrationComplete
  <2> QED
    BY <2>1, CompleteAfter DEF NewStands
<1>19. \E S : apps' \in Seq(S)
  BY <1>7 DEF AppsAppended
<1> QED
  BY <1>2, <1>10, <1>11, <1>13, <1>14, <1>15, <1>16, <1>17, <1>18, <1>19, CommitStep

-----------------------------------------------------------------------------
(* Types, and what applications record *)

\* What an application records of a file is what it did to it: a change from the value
\* before it to the value after it, or none if the value stayed.
RecordsStep(a, before) ==
  \A f \in File :
    LET c == apps[a].change[f]
    IN IF c = 0 THEN apps[a].state[f] = before[f]
       ELSE Change(c, f).base = before[f] /\ Change(c, f).result = apps[a].state[f]
Before(n, i) == IF i = 1 THEN events[n.event].state ELSE apps[n.chain[i - 1]].state
Recorded(n) == \A i \in DOMAIN n.chain : RecordsStep(n.chain[i], Before(n, i))
\* Recorded changes explain each state, application by application from the first parent's.
StatesRecorded ==
  /\ \A c \in Context : Live(c) => Recorded(ctx[c])
  /\ \A e \in DOMAIN events \ {1} :
       events[e].first # 0 /\ Recorded(Result(e)) /\ events[e].state = StateRoot(Result(e))

\* The state of a node assigns values to files.
LEMMA RootTyped ==
  ASSUME TypeOK, NEW n \in StateNode
  PROVE  StateRoot(n) \in State
<1>1. n.event \in DOMAIN events /\ n.chain \in Seq(DOMAIN apps)
  BY DEF StateNode
<1>2. n.chain # <<>> => Last(n.chain) \in DOMAIN apps
  BY <1>1 DEF Last
<1>3. \A e \in DOMAIN events : events[e].state \in State
  <2>1. \A e \in DOMAIN events : events[e] \in EventState
    BY DEF TypeOK
  <2> QED
    BY <2>1 DEF EventState
<1>4. \A a \in DOMAIN apps : apps[a].state \in State
  BY DEF TypeOK, ApplicationTyped
<1> QED
  BY <1>1, <1>2, <1>3, <1>4 DEF StateRoot

\* What is typed stays typed when the graph grows.
LEMMA ApplicationsStayTyped ==
  ASSUME TypeOK, Grows, NEW a \in DOMAIN apps
  PROVE  ApplicationTyped(apps[a])'
<1>1. apps'[a] = apps[a] /\ DOMAIN apps \subseteq DOMAIN apps' /\ DOMAIN events \subseteq DOMAIN events'
  BY DEF Grows
<1>2. PICK x : x = apps[a]
  OBVIOUS
<1>3. ApplicationTyped(x)
  BY <1>2 DEF TypeOK
<1>4. x.change \in [File -> DOMAIN apps' \cup {0}] /\ x.state \in State
  BY <1>1, <1>3 DEF ApplicationTyped
<1>5. ChangeState \subseteq ChangeState' /\ Entry \subseteq Entry' /\ StateNode \subseteq StateNode'
  BY <1>1, NodeStays DEF ChangeState, Entry
<1>6. DOMAIN x.made \subseteq File /\ x.made \in [DOMAIN x.made -> ChangeState']
  BY <1>3, <1>5 DEF ApplicationTyped
<1>7. x.decision.source # 0 => DecisionTyped(x.decision)'
  <2> SUFFICES ASSUME x.decision.source # 0 PROVE DecisionTyped(x.decision)'
    OBVIOUS
  <2>1. PICK d : d = x.decision
    OBVIOUS
  <2>2. DecisionTyped(d)
    BY <1>3, <2>1 DEF ApplicationTyped
  <2>3. PICK s : s = DOMAIN d.entries
    OBVIOUS
  <2>4. d.source \in DOMAIN events' /\ d.target \in StateNode'
    BY <1>1, <1>5, <2>2 DEF DecisionTyped
  <2>5. DOMAIN d.entries \subseteq File /\ d.entries \in [DOMAIN d.entries -> Entry']
    BY <1>5, <2>2 DEF DecisionTyped
  <2> QED
    BY <2>1, <2>4, <2>5 DEF DecisionTyped, StateNode, Entry
<1> QED
  BY <1>1, <1>2, <1>4, <1>6, <1>7 DEF ApplicationTyped, DecisionTyped, ChangeState, Entry, StateNode

\* What a chain records stays recorded when the graph grows.
LEMMA RecordedStays ==
  ASSUME TypeOK, Grows, NEW n \in StateNode, Recorded(n)
  PROVE  Recorded(n)'
<1> SUFFICES ASSUME NEW i \in DOMAIN n.chain, NEW f \in File, NEW c, c = apps'[n.chain[i]].change[f]
             PROVE  IF c = 0 THEN apps'[n.chain[i]].state[f] = Before(n, i)'[f]
                    ELSE Change(c, f)'.base = Before(n, i)'[f] /\ Change(c, f)'.result = apps'[n.chain[i]].state[f]
  BY DEF Recorded, RecordsStep, Before, Change
<1>1. n.event \in DOMAIN events /\ n.chain \in Seq(DOMAIN apps)
  BY DEF StateNode
<1>2. n.chain[i] \in DOMAIN apps /\ (i # 1 => n.chain[i - 1] \in DOMAIN apps)
  BY <1>1
<1>3. Before(n, i)' = Before(n, i) /\ apps'[n.chain[i]] = apps[n.chain[i]]
  BY <1>1, <1>2 DEF Before, Grows
<1>4. c \in DOMAIN apps \cup {0}
  BY <1>2, <1>3 DEF TypeOK, ApplicationTyped
<1>5. c # 0 => Change(c, f)' = Change(c, f)
  BY <1>4 DEF Change, Grows
<1> QED
  BY <1>2, <1>3, <1>5 DEF Recorded, RecordsStep

\* a new application records what it does to the state before it
NewRecords(r, before) ==
  \A f \in File :
    \/ r.change[f] = 0 /\ r.state[f] = before[f]
    \/ /\ r.change[f] = Len(apps) + 1
       /\ r.made[f].base = before[f] /\ r.made[f].result = r.state[f]
    \/ /\ r.change[f] \in DOMAIN apps
       /\ Change(r.change[f], f).base = before[f] /\ Change(r.change[f], f).result = r.state[f]

\* A chain that gains such an application records its states.
LEMMA ChainGrows ==
  ASSUME TypeOK, Grows, NEW r, AppsAppended(r), NEW n \in StateNode, Recorded(n),
         NewRecords(r, StateRoot(n)), NEW m, m = [n EXCEPT !.chain = Append(@, Len(apps) + 1)]
  PROVE  m \in StateNode' /\ Recorded(m)'
<1>1. PICK k : k = Len(apps) + 1
  OBVIOUS
<1>2. n.event \in DOMAIN events /\ n.chain \in Seq(DOMAIN apps) /\ n = [event |-> n.event, chain |-> n.chain]
  BY DEF StateNode
<1>3. k \in Nat \ {0} /\ k \in DOMAIN apps' /\ k \notin DOMAIN apps /\ DOMAIN apps \subseteq DOMAIN apps' /\ apps'[k] = r
  BY <1>1 DEF AppsAppended
<1>4. PICK q : q = Append(n.chain, k)
  OBVIOUS
<1>5. m = [event |-> n.event, chain |-> q]
  BY <1>1, <1>2, <1>4
<1>6. q \in Seq(DOMAIN apps')
  BY <1>2, <1>3, <1>4, AppendRange
<1>7. m \in StateNode'
  BY <1>2, <1>5, <1>6 DEF StateNode, Grows
<1>8. PICK l \in Nat : l = Len(n.chain)
  BY <1>2
<1>9. /\ DOMAIN q = 1 .. l + 1 /\ DOMAIN n.chain = 1 .. l /\ q[l + 1] = k
      /\ \A i \in 1 .. l : q[i] = n.chain[i]
  BY <1>2, <1>3, <1>4, <1>8
<1>10. Recorded(n)'
  BY RecordedStays
<1>11. ASSUME NEW i \in 1 .. l PROVE RecordsStep(m.chain[i], Before(m, i))'
  <2>1. m.chain[i] = n.chain[i]
    BY <1>5, <1>9, <1>11
  <2>2. Before(m, i)' = Before(n, i)'
    <3>1. i # 1 => i - 1 \in 1 .. l
      BY <1>8, <1>11
    <3> QED
      BY <1>5, <1>9, <3>1 DEF Before
  <2>3. RecordsStep(n.chain[i], Before(n, i))'
    BY <1>9, <1>10, <1>11 DEF Recorded
  <2> QED
    BY <2>1, <2>2, <2>3 DEF RecordsStep
<1>12. Before(m, l + 1)' = StateRoot(n)
  <2>1. CASE l = 0
    <3>1. n.chain = <<>>
      <4>1. \A z \in Seq(DOMAIN apps) : Len(z) = 0 => z = <<>>
        OBVIOUS
      <4> QED
        BY <1>2, <1>8, <2>1, <4>1
    <3>2. Before(m, l + 1)' = events'[n.event].state
      BY <1>5, <2>1 DEF Before
    <3> QED
      BY <1>2, <3>1, <3>2 DEF StateRoot, Grows
  <2>2. CASE l # 0
    <3>1. n.chain # <<>> /\ l \in 1 .. l /\ l + 1 # 1 /\ (l + 1) - 1 = l
      BY <1>2, <1>8, <2>2
    <3>2. Before(m, l + 1)' = apps'[q[l]].state
      <4>1. m.chain = q
        BY <1>5
      <4>2. Before(m, l + 1)' = apps'[m.chain[(l + 1) - 1]].state
        BY <3>1 DEF Before
      <4> QED
        BY <3>1, <4>1, <4>2, Zenon
    <3>3. q[l] = n.chain[l] /\ n.chain[l] \in DOMAIN apps
      BY <1>2, <1>9, <3>1
    <3> QED
      BY <1>8, <3>1, <3>2, <3>3 DEF StateRoot, Grows, Last
  <2> QED
    BY <2>1, <2>2
<1>13. RecordsStep(m.chain[l + 1], Before(m, l + 1))'
  <2> SUFFICES ASSUME NEW f \in File, NEW c, c = r.change[f]
               PROVE  IF c = 0 THEN r.state[f] = StateRoot(n)[f]
                      ELSE Change(c, f)'.base = StateRoot(n)[f] /\ Change(c, f)'.result = r.state[f]
    <3>1. m.chain[l + 1] = k
      BY <1>5, <1>9
    <3> QED
      BY <1>3, <1>12, <3>1 DEF RecordsStep, Change
  <2>1. 0 \notin DOMAIN apps
    BY DEF TypeOK
  <2>2. CASE c = 0
    BY <1>1, <1>3, <2>1, <2>2 DEF NewRecords
  <2>3. CASE c = k
    BY <1>1, <1>3, <2>3 DEF NewRecords, Change
  <2>4. CASE c \in DOMAIN apps
    BY <1>1, <1>3, <2>1, <2>4 DEF NewRecords, Change, Grows
  <2> QED
    BY <1>1, <2>2, <2>3, <2>4 DEF NewRecords
<1>14. Recorded(m)'
  BY <1>5, <1>8, <1>9, <1>11, <1>13 DEF Recorded
<1> QED
  BY <1>7, <1>14

\* What is said of a node is said of a context that stands at it,
LEMMA RecordedThere ==
  ASSUME NEW n, NEW d, ctx'[d] = n, Recorded(n)'
  PROVE  Recorded(ctx[d])'
  BY DEF Recorded, RecordsStep, Before, Change

\* ... and of an event that was made of it.
LEMMA RecordedOf ==
  ASSUME NEW n, NEW e, Result(e)' = n, Recorded(n)'
  PROVE  Recorded(Result(e))'
  BY DEF Recorded, RecordsStep, Before, Change

\* An event that is no genesis was made of a node, whose state it has.
LEMMA EventRecorded ==
  ASSUME IInv /\ TypeOK /\ StatesRecorded, Grows, NEW e \in DOMAIN events \ {1}
  PROVE  events'[e].first # 0 /\ Recorded(Result(e))' /\ events'[e].state = StateRoot(Result(e))'
<1>1. events'[e] = events[e] /\ events[e] \in EventState
  BY DEF Grows, TypeOK
<1>2. PICK n : n = Result(e)
  OBVIOUS
<1>3. Recorded(n) /\ events[e].first # 0 /\ events[e].state = StateRoot(n)
  BY <1>2 DEF StatesRecorded
<1>4. n \in StateNode
  <2>1. events[e].first # 0
    BY DEF StatesRecorded
  <2> QED
    BY <1>1, <1>2, <2>1 DEF Result, StateNode, EventState
<1>5. Recorded(n)' /\ StateRoot(n)' = StateRoot(n)
  BY <1>3, <1>4, RecordedStays, NodeStays
<1>6. Result(e)' = n
  BY <1>1, <1>2 DEF Result
<1>7. Recorded(Result(e))' /\ StateRoot(Result(e))' = StateRoot(n)'
  BY <1>5, <1>6, RecordedOf DEF StateRoot
<1> QED
  BY <1>1, <1>3, <1>5, <1>7

AppsTyped == apps \in Seq(Range(apps)) /\ Len(apps) <= MaxApp /\ \A a \in DOMAIN apps : ApplicationTyped(apps[a])
TInv == IInv /\ TypeOK /\ StatesRecorded

\* The applications are typed when the new one is.
LEMMA AppsStayTyped ==
  ASSUME TypeOK, Grows, NEW r, apps' = Append(apps, r), AppsAppended(r), Len(apps) < MaxApp,
         ApplicationTyped(r)'
  PROVE  AppsTyped'
<1>1. PICK S : S = Range(apps) \cup {r}
  OBVIOUS
<1>2. apps \in Seq(S) /\ r \in S
  BY <1>1 DEF TypeOK
<1>3. apps' \in Seq(S) /\ Range(apps') = Range(apps) \cup {r}
  BY <1>2, AppendRange
<1>4. apps' \in Seq(Range(apps'))
  BY <1>1, <1>3
<1>5. Len(apps') <= MaxApp
  <2>1. Len(apps') = Len(apps) + 1 /\ Len(apps) \in Nat
    BY <1>2
  <2> QED
    BY <2>1, BoundAssumption
<1>6. ASSUME NEW a \in DOMAIN apps' PROVE ApplicationTyped(apps[a])'
  <2>1. CASE a \in DOMAIN apps
    BY <2>1, ApplicationsStayTyped
  <2>2. CASE a = Len(apps) + 1
    <3>1. apps'[a] = r
      BY <2>2 DEF AppsAppended
    <3>2. ApplicationTyped(r)'
      OBVIOUS
    <3> QED
      BY <3>1, <3>2 DEF ApplicationTyped, DecisionTyped, StateNode, ChangeState, Entry
  <2> QED
    BY <1>6, <2>1, <2>2 DEF AppsAppended
<1> QED
  BY <1>4, <1>5, <1>6 DEF AppsTyped

\* So are the events there were.
LEMMA EventsStayTyped ==
  ASSUME TypeOK, Grows, NEW e \in DOMAIN events
  PROVE  events'[e] \in EventState'
<1>1. events'[e] = events[e] /\ DOMAIN apps \subseteq DOMAIN apps' /\ DOMAIN events \subseteq DOMAIN events'
  BY DEF Grows
<1>2. events[e] \in EventState
  BY DEF TypeOK
<1>3. PICK x \in EventState : x = events[e]
  BY <1>2
<1>4. x.apps \in Seq(DOMAIN apps')
  <2>1. x.apps \in Seq(DOMAIN apps)
    BY DEF EventState
  <2> QED
    BY <1>1, <2>1
<1>5. x \in EventState'
  BY <1>1, <1>4 DEF EventState
<1> QED
  BY <1>1, <1>3, <1>5

\* One more application on a chain.
LEMMA ChainTyped ==
  ASSUME TInv, NEW c \in Context, Live(c), Len(apps) < MaxApp, NEW r, apps' = Append(apps, r),
         \* in the graph after the step
         UNCHANGED events /\ AppsAppended(r) /\ Grows => ApplicationTyped(r)',
         NewRecords(r, StateRoot(ctx[c])),
         ctx' = [ctx EXCEPT ![c].chain = Append(@, Len(apps) + 1)],
         UNCHANGED <<events, main, effects>>, edits' \in 0 .. MaxEdit, drops' \in 0 .. MaxDrop
  PROVE  TypeOK' /\ StatesRecorded'
<1>1. AppsAppended(r)
  BY AppendedFact DEF TInv, IInv, GraphInv, GraphOK
<1>2. Grows /\ DOMAIN events' = DOMAIN events
  BY <1>1 DEF Grows, AppsAppended
<1>3. AppsTyped'
  BY <1>1, <1>2, AppsStayTyped DEF TInv
<1>4. PICK n \in StateNode : n = ctx[c]
  BY DEF TInv, TypeOK, Live
<1>5. PICK m : m = [n EXCEPT !.chain = Append(@, Len(apps) + 1)]
  OBVIOUS
<1>6. ctx' = [ctx EXCEPT ![c] = m]
  BY <1>4, <1>5 DEF TInv, TypeOK
<1>7. m \in StateNode' /\ Recorded(m)'
  BY <1>1, <1>2, <1>4, <1>5, ChainGrows DEF TInv, StatesRecorded
<1>8. ctx' \in [Context -> StateNode' \cup {NoContext}]
  BY <1>2, <1>6, <1>7, NodeStays DEF TInv, TypeOK
<1>9. events' \in Seq(EventState') /\ Len(events') \in 1 .. MaxEvent
  <2>1. PICK S : S = EventState'
    OBVIOUS
  <2>2. \A e \in DOMAIN events : events[e] \in S
    BY <1>2, <2>1, EventsStayTyped DEF TInv
  <2>3. \E T : events \in Seq(T)
    BY DEF TInv, TypeOK
  <2>4. events \in Seq(S)
    BY <2>2, <2>3
  <2> QED
    BY <2>1, <2>4 DEF TInv, TypeOK
<1>10. TypeOK'
  <2>1. main' \in DOMAIN events'
        /\ effects' \subseteq [context : Context, previous : DOMAIN events', published : DOMAIN events']
    BY <1>2 DEF TInv, TypeOK
  <2> QED
    BY <1>3, <1>8, <1>9, <2>1 DEF TypeOK, AppsTyped
<1>11. ASSUME NEW d \in Context, Live(d)' PROVE Recorded(ctx[d])'
  <2>1. CASE d = c
    <3>1. ctx'[d] = m
      BY <1>6, <2>1 DEF TInv, TypeOK
    <3> QED
      BY <1>7, <3>1, RecordedThere
  <2>2. CASE d # c
    <3>1. PICK x \in StateNode : x = ctx[d] /\ ctx'[d] = x
      BY <1>6, <1>11, <2>2 DEF TInv, TypeOK, Live
    <3>2. Recorded(x)
      BY <1>11, <3>1 DEF TInv, StatesRecorded, Live
    <3>3. Recorded(x)'
      BY <1>2, <3>2, RecordedStays DEF TInv
    <3> QED
      BY <3>1, <3>3, RecordedThere
  <2> QED
    BY <2>1, <2>2
<1>12. ASSUME NEW e \in DOMAIN events' \ {1}
       PROVE  events'[e].first # 0 /\ Recorded(Result(e))' /\ events'[e].state = StateRoot(Result(e))'
  BY <1>2, <1>12, EventRecorded DEF TInv
<1> QED
  BY <1>10, <1>11, <1>12 DEF StatesRecorded

\* An edit keeps types and records what it does.
LEMMA EditTyped ==
  ASSUME TInv, NEW c \in Context, NEW f \in File, NEW v \in Value, Edit(c, f, v)
  PROVE  TypeOK' /\ StatesRecorded'
<1>1. PICK root : root = StateRoot(ctx[c])
  OBVIOUS
<1>2. PICK r : r = [change |-> [Nothing EXCEPT ![f] = Len(apps) + 1],
                    made |-> [g \in {f} |-> [base |-> root[f], result |-> v, merges |-> {}]],
                    decision |-> NoDecision, state |-> [root EXCEPT ![f] = v]]
  OBVIOUS
<1>3. apps' = Append(apps, r)
  BY <1>1, <1>2 DEF Edit, Applied
<1>4. root \in [File -> Value]
  BY <1>1, RootTyped DEF TInv, TypeOK, Edit, Live, State
<1>5. /\ r.change = [Nothing EXCEPT ![f] = Len(apps) + 1] /\ r.state = [root EXCEPT ![f] = v]
      /\ DOMAIN r.made = {f} /\ r.made = [g \in {f} |-> [base |-> root[f], result |-> v, merges |-> {}]]
      /\ r.decision.source = 0
  BY <1>2 DEF NoDecision
<1>6. ASSUME UNCHANGED events, AppsAppended(r) PROVE ApplicationTyped(r)'
  <2>1. r.change \in [File -> DOMAIN apps' \cup {0}]
    BY <1>5, <1>6 DEF AppsAppended, Nothing
  <2>2. r.state \in State
    BY <1>4, <1>5 DEF State
  <2>3. r.made \in [{f} -> ChangeState']
    BY <1>4, <1>5 DEF ChangeState
  <2> QED
    BY <1>5, <2>1, <2>2, <2>3 DEF ApplicationTyped, State, ChangeState
<1>7. NewRecords(r, root)
  <2> SUFFICES ASSUME NEW g \in File
               PROVE \/ r.change[g] = 0 /\ r.state[g] = root[g]
                     \/ /\ r.change[g] = Len(apps) + 1
                        /\ r.made[g].base = root[g] /\ r.made[g].result = r.state[g]
    BY DEF NewRecords
  <2>1. CASE g = f
    BY <1>4, <1>5, <2>1 DEF Nothing
  <2>2. CASE g # f
    BY <1>4, <1>5, <2>2 DEF Nothing
  <2> QED
    BY <2>1, <2>2
<1>8. /\ Live(c) /\ Len(apps) < MaxApp /\ edits' \in 0 .. MaxEdit /\ drops' \in 0 .. MaxDrop
      /\ ctx' = [ctx EXCEPT ![c].chain = Append(@, Len(apps) + 1)] /\ UNCHANGED <<events, main, effects>>
  BY BoundAssumption DEF Edit, RoomForApplication, TInv, TypeOK
<1> QED
  BY <1>1, <1>3, <1>6, <1>7, <1>8, ChainTyped

\* A row has the two states, and names changes there are.
LEMMA RowTyped ==
  ASSUME TInv, NEW n \in StateNode, NEW s \in DOMAIN events, NEW f \in File
  PROVE  /\ Comparison(n, s)[f].ours = StateRoot(n)[f] /\ StateRoot(n)[f] \in Value
         /\ Comparison(n, s)[f].theirs = events[s].state[f] /\ events[s].state[f] \in Value
         /\ Comparison(n, s)[f].accounted \subseteq DOMAIN apps
         /\ Comparison(n, s)[f].contributors \subseteq DOMAIN apps
         /\ Comparison(n, s)[f].terminal \in DOMAIN apps \cup {0}
<1>1. PICK row : row = Comparison(n, s)[f]
  OBVIOUS
<1>2. row = Row(n, s, Base(n, s), f)
  BY <1>1 DEF Comparison
<1>3. row.ours = StateRoot(n)[f] /\ row.theirs = events[s].state[f]
  BY <1>2 DEF Row
<1>4. /\ row.accounted \subseteq DOMAIN apps /\ row.contributors \subseteq DOMAIN apps
      /\ row.terminal # 0 => row.terminal \in DOMAIN apps
  BY <1>1, ComparedApps DEF TInv, IInv, GraphInv
<1>5. StateRoot(n) \in [File -> Value]
  BY RootTyped DEF TInv, State
<1>6. events[s].state \in [File -> Value]
  <2>1. events[s] \in EventState
    BY DEF TInv, TypeOK
  <2> QED
    BY <2>1 DEF EventState, State
<1> QED
  BY <1>1, <1>3, <1>4, <1>5, <1>6

\* A merge keeps types and records what it does, with a change of its own or its source's.
LEMMA MergeTyped ==
  ASSUME TInv, NEW c \in Context, NEW s \in DOMAIN events, Merge(c, s)
  PROVE  TypeOK' /\ StatesRecorded'
<1>1. PICK n \in StateNode : n = ctx[c]
  BY DEF Merge, Live, TInv, TypeOK
<1>2. PICK cmp : cmp = Comparison(n, s)
  OBVIOUS
<1>3. PICK S, taken, made :
           /\ S \subseteq File /\ taken \subseteq S /\ made \subseteq taken
           /\ \A f \in taken \ made : Reused(cmp, f)
           /\ apps' = Append(apps, MergeRecord(n, s, cmp, S, taken, made))
  BY <1>1, <1>2, MergeIs
<1>4. PICK r : r = MergeRecord(n, s, cmp, S, taken, made)
  OBVIOUS
<1>5. PICK root \in [File -> Value] : root = StateRoot(n)
  BY RootTyped DEF TInv, State
<1>6. \A f \in File :
         /\ cmp[f].ours = root[f] /\ cmp[f].theirs \in Value
         /\ cmp[f].accounted \subseteq DOMAIN apps /\ cmp[f].contributors \subseteq DOMAIN apps
         /\ cmp[f].terminal \in DOMAIN apps \cup {0}
  <2> SUFFICES ASSUME NEW f \in File, NEW row, row = cmp[f]
               PROVE /\ row.ours = root[f] /\ row.theirs \in Value
                     /\ row.accounted \subseteq DOMAIN apps /\ row.contributors \subseteq DOMAIN apps
                     /\ row.terminal \in DOMAIN apps \cup {0}
    OBVIOUS
  <2> QED
    BY <1>2, <1>5, RowTyped
<1>7. PICK change : change = [f \in File |-> IF f \in made THEN Len(apps) + 1
                                ELSE IF f \in taken THEN cmp[f].terminal ELSE 0]
  OBVIOUS
<1>8. /\ r.change = change
      /\ r.made = [f \in made |-> [base |-> cmp[f].ours, result |-> cmp[f].theirs,
                                   merges |-> cmp[f].contributors]]
      /\ r.decision = [source |-> s, target |-> n,
            entries |-> [f \in S |-> [change |-> change[f], accounted |-> cmp[f].accounted]]]
      /\ r.state = [f \in File |-> IF f \in taken THEN cmp[f].theirs ELSE cmp[f].ours]
  BY <1>4, <1>7 DEF MergeRecord
<1>9. ASSUME UNCHANGED events, AppsAppended(r), Grows PROVE ApplicationTyped(r)'
  <2>1. Len(apps) + 1 \in DOMAIN apps' /\ DOMAIN apps \subseteq DOMAIN apps'
    BY <1>9 DEF AppsAppended
  <2>2. change \in [File -> DOMAIN apps' \cup {0}]
    BY <1>6, <1>7, <2>1
  <2>3. r.state \in State
    BY <1>5, <1>6, <1>8 DEF State
  <2>4. DOMAIN r.made = made /\ made \subseteq File /\ r.made \in [made -> ChangeState']
    BY <1>3, <1>5, <1>6, <1>8, <2>1 DEF ChangeState
  <2>5. DecisionTyped(r.decision)'
    <3>1. r.decision.source = s /\ r.decision.target = n /\ DOMAIN r.decision.entries = S
      BY <1>8
    <3>2. r.decision.entries \in [S -> Entry']
      BY <1>3, <1>6, <1>8, <2>1, <2>2 DEF Entry
    <3>3. n \in StateNode'
      BY <1>9, NodeStays
    <3> QED
      BY <1>3, <1>9, <3>1, <3>2, <3>3 DEF DecisionTyped, StateNode, Entry
  <2> QED
    BY <1>8, <2>2, <2>3, <2>4, <2>5
       DEF ApplicationTyped, State, ChangeState, DecisionTyped, StateNode, Entry
<1>10. NewRecords(r, root)
  <2> SUFFICES ASSUME NEW f \in File
               PROVE \/ r.change[f] = 0 /\ r.state[f] = root[f]
                     \/ /\ r.change[f] = Len(apps) + 1
                        /\ r.made[f].base = root[f] /\ r.made[f].result = r.state[f]
                     \/ /\ r.change[f] \in DOMAIN apps
                        /\ Change(r.change[f], f).base = root[f] /\ Change(r.change[f], f).result = r.state[f]
    BY DEF NewRecords
  <2>1. CASE f \in made
    <3>1. r.change[f] = Len(apps) + 1
      BY <1>7, <1>8, <2>1
    <3>2. r.made[f].base = root[f] /\ r.made[f].result = cmp[f].theirs
      BY <1>6, <1>8, <2>1
    <3>3. r.state[f] = cmp[f].theirs
      BY <1>3, <1>8, <2>1
    <3> QED
      BY <3>1, <3>2, <3>3
  <2>2. CASE f \in taken \ made
    <3>1. /\ cmp[f].terminal # 0 /\ Change(cmp[f].terminal, f).base = cmp[f].ours
          /\ Change(cmp[f].terminal, f).result = cmp[f].theirs
      BY <1>3, <2>2 DEF Reused
    <3>2. r.change[f] = cmp[f].terminal /\ r.state[f] = cmp[f].theirs
      BY <1>7, <1>8, <2>2
    <3> QED
      BY <1>6, <3>1, <3>2
  <2>3. CASE f \notin taken
    BY <1>3, <1>6, <1>7, <1>8, <2>3
  <2> QED
    BY <2>1, <2>2, <2>3
<1>11. /\ Live(c) /\ Len(apps) < MaxApp /\ edits' \in 0 .. MaxEdit /\ drops' \in 0 .. MaxDrop
       /\ ctx' = [ctx EXCEPT ![c].chain = Append(@, Len(apps) + 1)] /\ UNCHANGED <<events, main, effects>>
  BY DEF Merge, RoomForApplication, TInv, TypeOK
<1> QED
  BY <1>1, <1>3, <1>4, <1>5, <1>9, <1>10, <1>11, ChainTyped

\* A commit of a node that is typed and recorded.
LEMMA CommitTyped ==
  ASSUME TInv, Grows, AppsTyped', NEW c \in Context, Live(c), Len(events) < MaxEvent,
         NEW n \in StateNode', NEW sources \in SUBSET DOMAIN events, Committed(c, n, sources),
         n.event \in DOMAIN events, n.chain # <<>>, Recorded(n)',
         FirstParentLineage(n) \subseteq DOMAIN apps'
  PROVE  TypeOK' /\ StatesRecorded'
<1>1. PICK e : e = [first |-> n.event, sources |-> sources, apps |-> n.chain,
        state |-> apps'[Last(n.chain)].state,
        closure |-> {Len(events) + 1} \cup
                    UNION {events[p].closure : p \in sources \cup {n.event}},
        line |-> FirstParentLineage(n),
        generation |-> 1 + Max({events[p].generation : p \in sources \cup {n.event}})]
  OBVIOUS
<1>2. events' = Append(events, e)
  BY <1>1 DEF Committed
<1>3. PICK k : k = Len(events) + 1
  OBVIOUS
<1>4. Len(events) \in Nat /\ DOMAIN events = 1 .. Len(events) /\ Len(events) >= 1
  BY DEF TInv, TypeOK
<1>5. /\ events'[k] = e /\ DOMAIN events' = DOMAIN events \cup {k} /\ k \notin DOMAIN events
      /\ Len(events') = k /\ k \in 1 .. MaxEvent
  <2>1. events \in Seq(EventState \cup {e}) /\ e \in EventState \cup {e}
    BY DEF TInv, TypeOK
  <2> QED
    BY <1>2, <1>3, <1>4, <2>1, BoundAssumption
<1>6. n.chain \in Seq(DOMAIN apps') /\ n = [event |-> n.event, chain |-> n.chain] /\ Last(n.chain) \in DOMAIN apps'
  <2>1. n.chain \in Seq(DOMAIN apps') /\ n = [event |-> n.event, chain |-> n.chain]
    BY DEF StateNode
  <2> QED
    BY <2>1 DEF Last
<1>7. e \in EventState'
  <2>1. e.first \in DOMAIN events' \cup {0} /\ e.sources \in SUBSET DOMAIN events'
    BY <1>1, <1>5
  <2>2. e.apps \in Seq(DOMAIN apps') /\ e.line \in SUBSET DOMAIN apps'
    BY <1>1, <1>6
  <2>3. e.state \in State
    BY <1>1, <1>6 DEF AppsTyped, ApplicationTyped
  <2>4. e.closure \in SUBSET DOMAIN events'
    <3>1. \A p \in sources \cup {n.event} : events[p].closure \subseteq DOMAIN events
      BY DEF TInv, IInv, GraphInv, GraphOK, EventsOK, EventOK
    <3> QED
      BY <1>1, <1>3, <1>5, <3>1
  <2>5. e.generation \in Nat
    <3>1. 1 + Max({events[p].generation : p \in sources \cup {n.event}}) \in 0 .. Len(events)
      BY NewGeneration DEF TInv, IInv, GraphInv
    <3> QED
      BY <1>1, <1>4, <3>1
  <2>6. e = [first |-> e.first, sources |-> e.sources, apps |-> e.apps, state |-> e.state,
             closure |-> e.closure, line |-> e.line, generation |-> e.generation]
    BY <1>1
  <2> QED
    BY <2>1, <2>2, <2>3, <2>4, <2>5, <2>6 DEF EventState
<1>8. events' \in Seq(EventState')
  <2>1. PICK S : S = EventState'
    OBVIOUS
  <2>2. \A d \in DOMAIN events : events[d] \in S
    BY <2>1, EventsStayTyped DEF TInv, Grows
  <2>3. \E T : events \in Seq(T)
    BY DEF TInv, TypeOK
  <2>4. events \in Seq(S) /\ e \in S
    BY <1>7, <2>1, <2>2, <2>3
  <2>5. Append(events, e) \in Seq(S)
    BY <2>4
  <2> QED
    BY <1>2, <2>1, <2>5
<1>9. ctx' = [ctx EXCEPT ![c] = Clean(k)] /\ UNCHANGED <<main, effects, edits, drops>>
  BY <1>3 DEF Committed
<1>10. Clean(k) \in StateNode'
  <2>1. Clean(k) = [event |-> k, chain |-> <<>>] /\ <<>> \in Seq(DOMAIN apps')
    BY DEF Clean
  <2> QED
    BY <1>5, <2>1 DEF StateNode
<1>11. ctx' \in [Context -> StateNode' \cup {NoContext}]
  BY <1>9, <1>10, NodeStays DEF TInv, TypeOK
<1>12. TypeOK'
  <2>1. main' \in DOMAIN events'
        /\ effects' \subseteq [context : Context, previous : DOMAIN events', published : DOMAIN events']
    BY <1>5, <1>9 DEF TInv, TypeOK
  <2>2. edits' \in 0 .. MaxEdit /\ drops' \in 0 .. MaxDrop
    BY <1>9 DEF TInv, TypeOK
  <2> QED
    BY <1>5, <1>8, <1>11, <2>1, <2>2 DEF TypeOK, AppsTyped
<1>13. ASSUME NEW d \in Context, Live(d)' PROVE Recorded(ctx[d])'
  <2>1. CASE d = c
    <3>1. ctx'[d] = Clean(k) /\ Clean(k).chain = <<>>
      BY <1>9, <2>1 DEF TInv, TypeOK, Clean
    <3> QED
      BY <3>1 DEF Recorded
  <2>2. CASE d # c
    <3>1. PICK x \in StateNode : x = ctx[d] /\ ctx'[d] = x
      BY <1>9, <1>13, <2>2 DEF TInv, TypeOK, Live
    <3>2. Recorded(x)
      BY <1>13, <3>1 DEF TInv, StatesRecorded, Live
    <3>3. Recorded(x)'
      BY <3>2, RecordedStays DEF TInv
    <3> QED
      BY <3>1, <3>3, RecordedThere
  <2> QED
    BY <2>1, <2>2
<1>14. ASSUME NEW d \in DOMAIN events' \ {1}
       PROVE  events'[d].first # 0 /\ Recorded(Result(d))' /\ events'[d].state = StateRoot(Result(d))'
  <2>1. CASE d \in DOMAIN events
    BY <1>14, <2>1, EventRecorded DEF TInv
  <2>2. CASE d = k
    <3>1. Result(d)' = n
      BY <1>1, <1>5, <1>6, <2>2 DEF Result
    <3>2. Recorded(Result(d))' /\ StateRoot(Result(d))' = StateRoot(n)'
      BY <3>1, RecordedOf DEF StateRoot
    <3>3. events'[d].state = StateRoot(n)' /\ events'[d].first # 0
      BY <1>1, <1>4, <1>5, <2>2 DEF StateRoot
    <3> QED
      BY <3>2, <3>3
  <2> QED
    BY <1>5, <1>14, <2>1, <2>2
<1> QED
  BY <1>12, <1>13, <1>14 DEF StatesRecorded

\* An event is added at the end.
LEMMA EventAppended ==
  ASSUME TInv, NEW c \in Context, NEW n, NEW sources, Committed(c, n, sources),
         \A i \in DOMAIN apps : i \in DOMAIN apps' /\ apps'[i] = apps[i]
  PROVE  Grows
<1>1. PICK e : events' = Append(events, e)
  BY DEF Committed
<1>2. events \in Seq(EventState \cup {e}) /\ e \in EventState \cup {e}
  BY DEF TInv, TypeOK
<1> QED
  BY <1>1, <1>2 DEF Grows

\* A commit.
LEMMA PlainTyped ==
  ASSUME TInv, NEW c \in Context, Commit(c)
  PROVE  TypeOK' /\ StatesRecorded'
<1>1. PICK n \in StateNode : n = ctx[c]
  BY DEF Commit, Live, TInv, TypeOK
<1>2. n.event \in DOMAIN events /\ n.chain \in Seq(DOMAIN apps) /\ n.chain # <<>>
  BY <1>1 DEF StateNode, Commit
<1>3. PICK sources \in SUBSET DOMAIN events : sources = Sources(n.chain)
  BY <1>2, SourcesFact DEF TInv, IInv, GraphInv
<1>4. Committed(c, n, sources) /\ apps' = apps /\ Live(c) /\ Len(events) < MaxEvent
  BY <1>1, <1>3 DEF Commit, RoomForEvent
<1>5. Grows
  BY <1>4, EventAppended
<1>6. AppsTyped'
  <2>1. \A a \in DOMAIN apps : ApplicationTyped(apps[a])'
    BY <1>5, ApplicationsStayTyped DEF TInv
  <2> QED
    BY <1>4, <2>1 DEF AppsTyped, TInv, TypeOK
<1>7. n \in StateNode' /\ Recorded(n)'
  BY <1>1, <1>4, <1>5, NodeStays, RecordedStays DEF TInv, StatesRecorded
<1>8. FirstParentLineage(n) \subseteq DOMAIN apps'
  BY <1>2, <1>4, NodeLine DEF TInv, IInv, GraphInv, GraphOK, EventsOK
<1> QED
  BY <1>2, <1>4, <1>5, <1>6, <1>7, <1>8, CommitTyped

\* A commit that concludes a source records an application that changes nothing.
LEMMA ConcludingTyped ==
  ASSUME TInv, NEW c \in Context, NEW s \in DOMAIN events, CommitConcluding(c, s)
  PROVE  TypeOK' /\ StatesRecorded'
<1>1. PICK m \in StateNode : m = ctx[c]
  BY DEF CommitConcluding, Live, TInv, TypeOK
<1>2. m.event \in DOMAIN events /\ m.chain \in Seq(DOMAIN apps) /\ m = [event |-> m.event, chain |-> m.chain]
  BY DEF StateNode
<1> DEFINE cmp == Comparison(m, s)
           entries == [f \in Pending(cmp) |-> [change |-> 0, accounted |-> cmp[f].accounted]]
<1>3. PICK r : r = [change |-> Nothing, made |-> <<>>,
       decision |-> [source |-> s, target |-> m, entries |-> entries], state |-> StateRoot(m)]
  OBVIOUS
<1>4. apps' = Append(apps, r)
  BY <1>1, <1>3 DEF CommitConcluding, Applied
<1>5. Pending(cmp) \subseteq File /\ \A f \in Pending(cmp) : cmp[f].accounted \subseteq DOMAIN apps
  BY PendingFact, RowTyped
<1>6. AppsAppended(r)
  BY <1>4, AppendedFact DEF TInv, IInv, GraphInv, GraphOK
<1>7. PICK n : n = [m EXCEPT !.chain = Append(@, Len(apps) + 1)]
  OBVIOUS
<1>8. PICK sources : sources = Sources(m.chain) \cup {s}
  OBVIOUS
<1>9. Committed(c, n, sources) /\ Live(c) /\ Len(apps) < MaxApp /\ Len(events) < MaxEvent
  BY <1>1, <1>7, <1>8 DEF CommitConcluding, RoomForApplication, RoomForEvent
<1>10. sources \in SUBSET DOMAIN events
  BY <1>2, <1>8, SourcesFact DEF TInv, IInv, GraphInv
<1>11. Grows
  BY <1>6, <1>9, EventAppended DEF AppsAppended
<1>12. StateRoot(m) \in State
  BY RootTyped DEF TInv
<1>13. /\ r.change = Nothing /\ r.made = <<>> /\ r.state = StateRoot(m)
       /\ r.decision = [source |-> s, target |-> m, entries |-> entries]
  BY <1>3
<1>14. entries \in [Pending(cmp) -> Entry'] /\ DOMAIN entries = Pending(cmp)
  <2>1. DOMAIN apps \subseteq DOMAIN apps'
    BY <1>6 DEF AppsAppended
  <2> HIDE DEF cmp
  <2> QED
    BY <1>5, <2>1 DEF Entry
<1> HIDE DEF cmp, entries
<1>15. ApplicationTyped(r)'
  <2>1. r.change \in [File -> DOMAIN apps' \cup {0}] /\ r.state \in State
    BY <1>12, <1>13 DEF Nothing
  <2>2. DOMAIN r.made = {} /\ r.made \in [{} -> ChangeState']
    BY <1>13
  <2>3. DecisionTyped(r.decision)'
    BY <1>5, <1>11, <1>13, <1>14, NodeStays DEF DecisionTyped, Grows, StateNode, Entry
  <2> QED
    BY <2>1, <2>2, <2>3 DEF ApplicationTyped, State, ChangeState, DecisionTyped, StateNode, Entry
<1>16. AppsTyped'
  BY <1>4, <1>6, <1>9, <1>11, <1>15, AppsStayTyped DEF TInv
<1>17. NewRecords(r, StateRoot(m))
  BY <1>13 DEF NewRecords, Nothing
<1>18. n \in StateNode' /\ Recorded(n)'
  <2>1. Recorded(m)
    BY <1>1, <1>9 DEF TInv, StatesRecorded
  <2> QED
    BY <1>6, <1>7, <1>11, <1>17, <2>1, ChainGrows DEF TInv
<1>19. n.event = m.event /\ n.chain = Append(m.chain, Len(apps) + 1) /\ n.chain # <<>>
  BY <1>2, <1>7
<1>20. FirstParentLineage(n) \subseteq DOMAIN apps'
  <2>1. events[n.event].line \subseteq DOMAIN apps /\ DOMAIN apps \subseteq DOMAIN apps'
    BY <1>2, <1>6, <1>19 DEF TInv, IInv, GraphInv, GraphOK, EventsOK, EventOK, AppsAppended
  <2>2. n.chain \in Seq(DOMAIN apps')
    BY <1>18 DEF StateNode
  <2>3. Range(n.chain) \subseteq DOMAIN apps'
    BY <2>2 DEF Range
  <2> QED
    BY <2>1, <2>3 DEF FirstParentLineage
<1> QED
  BY <1>2, <1>9, <1>10, <1>11, <1>16, <1>18, <1>19, <1>20, CommitTyped

\* Actions that leave the graph alone.
LEMMA QuietTyped ==
  ASSUME TInv, UNCHANGED graph,
         \A d \in Context : Live(d)' => \/ \E c \in Context : Live(c) /\ ctx'[d] = ctx[c]
                                        \/ ctx'[d].chain = <<>>,
         ctx' \in [Context -> StateNode \cup {NoContext}], main' \in DOMAIN events,
         effects' \subseteq [context : Context, previous : DOMAIN events, published : DOMAIN events],
         edits' \in 0 .. MaxEdit, drops' \in 0 .. MaxDrop
  PROVE  TypeOK' /\ StatesRecorded'
<1>1. apps' = apps /\ events' = events /\ Grows
  BY DEF graph, Grows
<1>2. \A a \in DOMAIN apps : ApplicationTyped(apps[a])'
  BY <1>1, ApplicationsStayTyped DEF TInv
<1>3. EventState' = EventState /\ StateNode' = StateNode
  BY <1>1 DEF EventState, StateNode
<1>4. TypeOK'
  BY <1>1, <1>2, <1>3 DEF TypeOK, TInv
<1>5. ASSUME NEW d \in Context, Live(d)' PROVE Recorded(ctx[d])'
  <2>1. CASE ctx'[d].chain = <<>>
    <3>1. PICK x : x = ctx'[d]
      OBVIOUS
    <3>2. Recorded(x)'
      BY <2>1, <3>1 DEF Recorded
    <3> QED
      BY <3>1, <3>2, RecordedThere
  <2>2. ASSUME NEW c \in Context, Live(c), ctx'[d] = ctx[c] PROVE Recorded(ctx[d])'
    <3>1. PICK x \in StateNode : x = ctx[c]
      BY <2>2 DEF TInv, TypeOK, Live
    <3>2. Recorded(x)'
      BY <1>1, <2>2, <3>1, RecordedStays DEF TInv, StatesRecorded
    <3> QED
      BY <2>2, <3>1, <3>2, RecordedThere
  <2> QED
    BY <1>5, <2>1, <2>2
<1>6. \A e \in DOMAIN events \ {1} :
        events'[e].first # 0 /\ Recorded(Result(e))' /\ events'[e].state = StateRoot(Result(e))'
  BY <1>1, EventRecorded DEF TInv
<1> QED
  BY <1>1, <1>4, <1>5, <1>6 DEF StatesRecorded

\* Every step keeps types, and records what it does.
LEMMA TypedStep == TInv /\ [Next]_vars => TypeOK' /\ StatesRecorded'
<1> SUFFICES ASSUME TInv, [Next]_vars PROVE TypeOK' /\ StatesRecorded'
  OBVIOUS
<1>0. /\ ctx \in [Context -> StateNode \cup {NoContext}] /\ main \in DOMAIN events
      /\ effects \subseteq [context : Context, previous : DOMAIN events, published : DOMAIN events]
      /\ edits \in 0 .. MaxEdit /\ drops \in 0 .. MaxDrop
      /\ NoContext \notin StateNode
  <2>1. StateNode \subseteq [event : Nat, chain : Seq(Nat)]
    <3>1. DOMAIN apps \subseteq Nat /\ DOMAIN events \subseteq Nat
      BY DEF TInv, TypeOK
    <3> QED
      BY <3>1 DEF StateNode
  <2> QED
    BY <2>1, NoContextAssumption DEF TInv, TypeOK
<1>1. ASSUME NEW c \in Context, EnsureContext(c) PROVE TypeOK' /\ StatesRecorded'
  <2>1. Clean(main) \in StateNode /\ Clean(main).chain = <<>>
    BY <1>0 DEF Clean, StateNode
  <2>2. UNCHANGED <<graph, main, effects, edits, drops>> /\ ctx' = [ctx EXCEPT ![c] = Clean(main)]
    BY <1>1 DEF EnsureContext
  <2>3. \A d \in Context : Live(d)' => \/ Live(d) /\ ctx'[d] = ctx[d]
                                       \/ ctx'[d].chain = <<>>
    BY <1>0, <2>1, <2>2 DEF Live
  <2>4. ctx' \in [Context -> StateNode \cup {NoContext}]
    BY <1>0, <2>1, <2>2
  <2> QED
    BY <1>0, <2>2, <2>3, <2>4, QuietTyped
<1>2. ASSUME NEW c \in Context, NEW d \in Context, ForkContext(c, d) PROVE TypeOK' /\ StatesRecorded'
  <2>1. UNCHANGED <<graph, main, effects, edits, drops>> /\ ctx' = [ctx EXCEPT ![d] = ctx[c]] /\ Live(c)
    BY <1>2 DEF ForkContext
  <2>2. \A x \in Context : Live(x)' => \E y \in Context : Live(y) /\ ctx'[x] = ctx[y]
    BY <1>0, <2>1 DEF Live
  <2>3. ctx' \in [Context -> StateNode \cup {NoContext}]
    BY <1>0, <2>1
  <2> QED
    BY <1>0, <2>1, <2>2, <2>3, QuietTyped
<1>3. ASSUME NEW c \in Context, DropContext(c) PROVE TypeOK' /\ StatesRecorded'
  <2>1. UNCHANGED <<graph, main, edits>> /\ ctx' = [ctx EXCEPT ![c] = NoContext]
        /\ effects' \subseteq effects /\ drops' = drops + 1 /\ drops < MaxDrop
    BY <1>3 DEF DropContext
  <2>2. \A x \in Context : Live(x)' => Live(x) /\ ctx'[x] = ctx[x]
    BY <1>0, <2>1 DEF Live
  <2>3. ctx' \in [Context -> StateNode \cup {NoContext}] /\ drops' \in 0 .. MaxDrop
    BY <1>0, <2>1, BoundAssumption
  <2> QED
    BY <1>0, <2>1, <2>2, <2>3, QuietTyped
<1>4. ASSUME NEW c \in Context, Discard(c) PROVE TypeOK' /\ StatesRecorded'
  <2>1. UNCHANGED <<graph, main, effects, edits>> /\ ctx' = [ctx EXCEPT ![c].chain = <<>>]
        /\ drops' = drops + 1 /\ drops < MaxDrop /\ Live(c)
    BY <1>4 DEF Discard
  <2>2. PICK n \in StateNode : n = ctx[c]
    BY <1>0, <2>1 DEF Live
  <2>3. PICK m : m = [n EXCEPT !.chain = <<>>]
    OBVIOUS
  <2>4. m \in StateNode /\ m.chain = <<>>
    <3>1. n.event \in DOMAIN events /\ n = [event |-> n.event, chain |-> n.chain]
      BY DEF StateNode
    <3>2. m = [event |-> n.event, chain |-> <<>>]
      BY <2>3, <3>1
    <3> QED
      BY <3>1, <3>2 DEF StateNode
  <2>5. ctx' = [ctx EXCEPT ![c] = m]
    BY <1>0, <2>1, <2>2, <2>3
  <2>6. \A x \in Context : Live(x)' => (Live(x) /\ ctx'[x] = ctx[x]) \/ ctx'[x].chain = <<>>
    BY <1>0, <2>4, <2>5 DEF Live
  <2>7. ctx' \in [Context -> StateNode \cup {NoContext}] /\ drops' \in 0 .. MaxDrop
    BY <1>0, <2>1, <2>4, <2>5, BoundAssumption
  <2> QED
    BY <1>0, <2>1, <2>6, <2>7, QuietTyped
<1>5. ASSUME NEW c \in Context, Push(c) PROVE TypeOK' /\ StatesRecorded'
  <2>1. UNCHANGED <<graph, ctx, main, edits, drops>> /\ Live(c)
        /\ effects' = effects \cup {[context |-> c, previous |-> main, published |-> ctx[c].event]}
    BY <1>5 DEF Push
  <2>2. ctx[c].event \in DOMAIN events
    BY <1>0, <2>1 DEF Live, StateNode
  <2>3. effects' \subseteq [context : Context, previous : DOMAIN events, published : DOMAIN events]
    BY <1>0, <2>1, <2>2
  <2>4. \A x \in Context : Live(x)' => Live(x) /\ ctx'[x] = ctx[x]
    BY <2>1 DEF Live
  <2> QED
    BY <1>0, <2>1, <2>3, <2>4, QuietTyped
<1>6. ASSUME NEW x \in effects, Acknowledge(x) PROVE TypeOK' /\ StatesRecorded'
  <2>1. UNCHANGED <<graph, ctx, edits, drops>> /\ main' = x.published /\ effects' \subseteq effects
    BY <1>6 DEF Acknowledge
  <2>2. \A d \in Context : Live(d)' => Live(d) /\ ctx'[d] = ctx[d]
    BY <2>1 DEF Live
  <2>3. main' \in DOMAIN events
    BY <1>0, <2>1
  <2> QED
    BY <1>0, <2>1, <2>2, <2>3, QuietTyped
<1>7. CASE UNCHANGED vars
  <2>1. UNCHANGED <<graph, ctx, main, effects, edits, drops>>
    BY <1>7 DEF vars, graph
  <2>2. \A d \in Context : Live(d)' => Live(d) /\ ctx'[d] = ctx[d]
    BY <2>1 DEF Live
  <2> QED
    BY <1>0, <2>1, <2>2, QuietTyped
<1> QED
  BY <1>1, <1>2, <1>3, <1>4, <1>5, <1>6, <1>7, EditTyped, MergeTyped, PlainTyped, ConcludingTyped DEF Next

-----------------------------------------------------------------------------
(* The invariant and the theorems *)

\* The genesis event is in order.
LEMMA InitIInv == Init => IInv
<1> SUFFICES ASSUME Init PROVE IInv
  OBVIOUS
<1>1. events \in Seq({Genesis}) /\ apps \in Seq({}) /\ DOMAIN events = {1} /\ DOMAIN apps = {} /\ events[1] = Genesis
  BY DEF Init
<1>2. EventOK(1) /\ KeepsTargets(events[1].line)
  BY <1>1 DEF EventOK, Genesis, KeepsTargets
<1>3. IntegrationOK(1) /\ events[1].sources = {}
  BY <1>1 DEF IntegrationOK, Genesis
<1>4. GraphInv
  BY <1>1, <1>2, <1>3 DEF GraphInv, GraphOK, Numbered, EventsOK, AppsOK, IntegrationsOK, AllStand
<1>5. ContextsStand /\ EffectsForward /\ main \in DOMAIN events
  BY <1>1 DEF Init, ContextsStand, EffectsForward
<1> QED
  BY <1>4, <1>5 DEF IInv

\* Every step keeps the invariant.
LEMMA NextIInv == IInv /\ [Next]_vars => IInv'
<1> SUFFICES ASSUME IInv, [Next]_vars PROVE IInv'
  OBVIOUS
<1>0. ASSUME UNCHANGED graph
      PROVE  GraphInv' /\ GoodNode \subseteq GoodNode' /\ DOMAIN events' = DOMAIN events /\ events' = events
  BY <1>0, GraphSame DEF IInv, graph
<1>1. ASSUME NEW c \in Context, EnsureContext(c) PROVE IInv'
  <2>1. Clean(main) \in GoodNode
    <3>1. Clean(main) \in StateNode /\ FirstParentLineage(Clean(main)) = events[main].line
      BY DEF IInv, Clean, StateNode, FirstParentLineage, Range
    <3>2. KeepsTargets(events[main].line)
      BY DEF IInv, GraphInv, IntegrationsOK
    <3> QED
      BY <3>1, <3>2 DEF GoodNode
  <2> QED
    BY <1>0, <1>1, <2>1 DEF EnsureContext, IInv, ContextsStand, EffectsForward
<1>2. ASSUME NEW c \in Context, NEW d \in Context, ForkContext(c, d) PROVE IInv'
  BY <1>0, <1>2 DEF ForkContext, IInv, ContextsStand, EffectsForward
<1>3. ASSUME NEW c \in Context, DropContext(c) PROVE IInv'
  BY <1>0, <1>3 DEF DropContext, IInv, ContextsStand, EffectsForward
<1>4. ASSUME NEW c \in Context, NEW f \in File, NEW v \in Value, Edit(c, f, v) PROVE IInv'
  BY <1>4, EditStep
<1>5. ASSUME NEW c \in Context, NEW s \in DOMAIN events, Merge(c, s) PROVE IInv'
  BY <1>5, MergeStep
<1>6. ASSUME NEW c \in Context, Commit(c) PROVE IInv'
  BY <1>6, CommitPlain
<1>7. ASSUME NEW c \in Context, NEW s \in DOMAIN events, CommitConcluding(c, s) PROVE IInv'
  BY <1>7, ConcludingStep
<1>8. ASSUME NEW c \in Context, Discard(c) PROVE IInv'
  <2>0. PICK n \in GoodNode : n = ctx[c]
    BY <1>8 DEF Discard, Live, IInv, ContextsStand
  <2>1. PICK m : m = [n EXCEPT !.chain = <<>>]
    OBVIOUS
  <2>2. n \in StateNode /\ n.event \in DOMAIN events
    BY <2>0 DEF GoodNode, StateNode
  <2>3. m = [event |-> n.event, chain |-> <<>>]
    BY <2>1, <2>2 DEF StateNode
  <2>4. m \in StateNode /\ FirstParentLineage(m) = events[n.event].line
    BY <2>2, <2>3 DEF StateNode, FirstParentLineage, Range
  <2>5. m \in GoodNode
    BY <2>2, <2>4 DEF GoodNode, IInv, GraphInv, IntegrationsOK
  <2>6. ctx' = [ctx EXCEPT ![c] = m]
    BY <1>8, <2>0, <2>1 DEF Discard, IInv, ContextsStand
  <2> QED
    BY <1>0, <1>8, <2>5, <2>6 DEF Discard, IInv, ContextsStand, EffectsForward
<1>9. ASSUME NEW c \in Context, Push(c) PROVE IInv'
  <2>1. ctx[c].event \in DOMAIN events
    BY <1>9 DEF Push, Live, IInv, ContextsStand, GoodNode, StateNode
  <2> QED
    BY <1>0, <1>9, <2>1 DEF Push, FastForward, IInv, ContextsStand, EffectsForward
<1>10. ASSUME NEW x \in effects, Acknowledge(x) PROVE IInv'
  BY <1>0, <1>10 DEF Acknowledge, IInv, ContextsStand, EffectsForward
<1>11. CASE UNCHANGED vars
  BY <1>0, <1>11 DEF vars, graph, IInv, ContextsStand, EffectsForward
<1> QED
  BY <1>1, <1>2, <1>3, <1>4, <1>5, <1>6, <1>7, <1>8, <1>9, <1>10, <1>11 DEF Next

\* The genesis event is typed.
LEMMA TypedInit == Init => TypeOK /\ StatesRecorded
<1> SUFFICES ASSUME Init PROVE TypeOK /\ StatesRecorded
  OBVIOUS
<1>1. /\ apps = <<>> /\ events = <<Genesis>> /\ ctx = [c \in Context |-> NoContext] /\ main = 1
      /\ effects = {} /\ edits = 0 /\ drops = 0
  BY DEF Init
<1>2. DOMAIN apps = {} /\ DOMAIN events = {1} /\ Len(apps) = 0 /\ Len(events) = 1 /\ events[1] = Genesis
  BY <1>1
<1>3. Genesis \in EventState
  BY <1>2, ValueAssumption DEF Genesis, EventState, State
<1>4. apps \in Seq(Range(apps)) /\ events \in Seq(EventState)
  BY <1>1, <1>3
<1>5. TypeOK
  BY <1>1, <1>2, <1>4, BoundAssumption DEF TypeOK
<1>6. StatesRecorded
  BY <1>1, <1>2 DEF StatesRecorded, Live
<1> QED
  BY <1>5, <1>6

\* The invariant with types and records always holds.
LEMMA TypedAlways == Spec => []TInv
<1>1. Init => TInv
  BY InitIInv, TypedInit DEF TInv
<1>2. TInv /\ [Next]_vars => TInv'
  BY NextIInv, TypedStep DEF TInv
<1> QED
  BY <1>1, <1>2, PTL DEF Spec

\* Every variable keeps its type, and names only what there is, for any contexts, files
\* and values.
THEOREM TypeCorrect == Spec => []TypeOK
<1>1. TInv => TypeOK
  BY DEF TInv
<1> QED
  BY <1>1, TypedAlways, PTL

\* Recorded operations explain every state of a chain, application by application, be it
\* a context's or a commit's, whatever merges reuse, decide or conclude
\* (persistWorkingMutation, applyApplication, merge, commit).
THEOREM Recording == Spec => []StatesRecorded
<1>1. TInv => StatesRecorded
  BY DEF TInv
<1> QED
  BY <1>1, TypedAlways, PTL

\* What a commit accepted as integrated stays decided however the graph grows, and is
\* refused by a later push only after a merge brought one of its changes in again
\* (commit, concludeSource, assertIntegrationHistoryValid).
THEOREM Stand == Spec => []IntegrationStands
<1>1. Spec => []IInv
  BY InitIInv, NextIInv, PTL DEF Spec
<1>2. IInv => IntegrationStands
  BY StandsFact DEF IInv, GraphInv
<1> QED
  BY <1>1, <1>2, PTL

\* A file the source's own line changed has a change to merge.
LEMMA OwnChange ==
  ASSUME GraphOK, NEW n, NEW s \in DOMAIN events, NEW b, NEW f,
         \E a \in events[s].line \ Shared(n, s, b) : apps[a].change[f] # 0
  PROVE  Incoming(n, s, b, f) # {}
<1> DEFINE own == events[s].line \ Shared(n, s, b)
           T == {a \in own : apps[a].change[f] # 0}
<1>1. T \in SUBSET Nat /\ T # {}
  <2>1. events[s].line \subseteq DOMAIN apps /\ DOMAIN apps \subseteq Nat
    BY DomainFact DEF GraphOK, EventsOK, EventOK
  <2> QED
    BY <2>1
<1>2. PICK a \in T : \A x \in T : a <= x
  <2> HIDE DEF T
  <2> QED
    BY <1>1, LeastFact
<1>3. \A x \in own : x < a => apps[x].change[f] # apps[a].change[f]
  <2> SUFFICES ASSUME NEW x \in own, x < a, apps[x].change[f] = apps[a].change[f] PROVE FALSE
    OBVIOUS
  <2>1. x \in T /\ a \in Nat /\ x \in Nat
    BY <1>1, <1>2
  <2> QED
    BY <1>2, <2>1
<1> QED
  BY <1>2, <1>3 DEF Incoming, Touching

\* What stands keeps the source.
LEMMA KeepsFact ==
  ASSUME IInv PROVE IntegrationKeepsSource
<1> SUFFICES ASSUME NEW e \in DOMAIN events, NEW s \in events[e].sources,
                    NEW f \in OwnDifferences(Result(e), s)
             PROVE  events[e].state[f] = events[s].state[f] \/ DecidedAt(events[e].line, s, f) # {}
  BY DEF IntegrationKeepsSource
<1>1. PICK n : n = Result(e)
  OBVIOUS
<1>2. PICK b : b = Base(n, s)
  OBVIOUS
<1>3. f \in File /\ s \in DOMAIN events
  BY DomainFact DEF OwnDifferences, IInv, GraphInv, GraphOK, EventsOK, EventOK
<1>4. Status(n, s, b, f) \in Settled
  BY <1>1, <1>2, <1>3 DEF IInv, GraphInv, AllStand, Stands
<1>5. events[e].line = FirstParentLineage(n) /\ events[e].state = StateRoot(n)
  BY <1>1 DEF IInv, GraphInv, IntegrationsOK, IntegrationOK
<1>6. Incoming(n, s, b, f) # {}
  BY <1>1, <1>2, <1>3, OwnChange DEF OwnDifferences, IInv, GraphInv
<1>7. \E d \in MaximalMergeBases(n, s) : events[d].state[f] # events[s].state[f]
  BY <1>1 DEF OwnDifferences
<1>8. CASE ~Compared(n, s, b, f)
  BY <1>5, <1>6, <1>7, <1>8 DEF Compared
<1>9. CASE Compared(n, s, b, f)
  BY <1>4, <1>5, <1>9 DEF Status, Settled
<1> QED
  BY <1>8, <1>9

\* Every recorded integration has what its source made of a file, or a decision about
\* it, for any number of contexts, files and events (commit, concludeSource).
THEOREM Kept == Spec => []IntegrationKeepsSource
<1>1. Spec => []IInv
  BY InitIInv, NextIInv, PTL DEF Spec
<1> QED
  BY <1>1, KeepsFact, PTL

\* Only a receipt moves main, and it moves it from where the push compared.
LEMMA StepForward ==
  ASSUME IInv, [Next]_vars PROVE main' # main => main \in events[main'].closure
<1>0. ASSUME IInv', main' # main PROVE \E x \in effects : Acknowledge(x)
  BY <1>0 DEF Next, vars, EnsureContext, ForkContext, DropContext, Edit, Merge, Commit,
     CommitConcluding, Committed, Discard, Push
<1> SUFFICES ASSUME main' # main PROVE main \in events[main'].closure
  OBVIOUS
<1>1. PICK x \in effects : Acknowledge(x)
  BY <1>0, NextIInv
<1> QED
  BY <1>1 DEF Acknowledge, StillMain, IInv, EffectsForward

\* Protected main only moves to descendants of itself, whatever is pushed side by
\* side and in whichever order the receipts come (push, applyPublicationReceipt).
THEOREM MainForward == Spec => MainFastForwards
<1>1. Spec => []IInv
  BY InitIInv, NextIInv, PTL DEF Spec
<1>2. IInv /\ [Next]_vars => [main' # main => main \in events[main'].closure]_vars
  BY StepForward
<1> QED
  BY <1>1, <1>2, PTL DEF Spec, MainFastForwards
=============================================================================
