---------------------------- MODULE ForkSagaProofs ----------------------------
(***************************************************************************)
(* What a fork leaves behind is whole or destroyed, for any number of      *)
(* operations, agents, calls, evictions and retirements.                   *)
(***************************************************************************)
EXTENDS ForkSaga, TLAPS

Forward == {"export", "clone", "postclone", "import", "seed", "announce"}
Underway == {"journaled", "cloned", "postcloned", "seeded"}
Want(o) == IF o \in Seeded THEN 1 ELSE 0
Selected(o) == IF roster[o] = Unselected THEN {} ELSE roster[o]
\* the child has all that is imported into it
Stocked(o) == child[o].initialized /\ roster[o] # Unselected /\ child[o].imported = roster[o]

\* what the phase of a row vouches for, whoever drives it
RowInv(o) ==
  /\ phase[o] # "announced"
  /\ child[o].imported \subseteq Selected(o)
  /\ o \notin Seeded => child[o].seeds = 0
  /\ phase[o] \in {"postcloned", "seeded"} => Stocked(o)
  /\ phase[o] = "seeded" => child[o].seeds = Want(o)
  /\ phase[o] = "done" => Whole(o) /\ announced[o] = 1
  /\ phase[o] = "rolledback" /\ recorded[o] => context[o] = "destroyed"

\* what a driver knows of its operation at each place
Knows(v) ==
  LET o == v.op IN
  /\ o \in Op /\ phase[o] \in Underway \cup {"rollback-pending"}
  /\ v.from \in Underway \cup {"rollback-pending"}
  /\ v.did \subseteq child[o].imported
  /\ v.from \in {"postcloned", "seeded"} => Stocked(o)
  /\ v.from = "seeded" => child[o].seeds = Want(o)
  /\ v.at \in Forward => v.from # "rollback-pending" /\ roster[o] # Unselected
  /\ (v.at = "clone" /\ v.answered) \/ v.at \in {"postclone", "import", "seed", "announce"}
       => context[o] = "alive"
  /\ (v.at = "postclone" /\ v.answered) \/ v.at = "import" => child[o].initialized
  /\ v.at \in {"seed", "announce"} => Stocked(o)
  /\ (v.at = "seed" /\ v.answered) \/ v.at = "announce" => child[o].seeds = Want(o)
  /\ v.at = "announce" /\ v.answered => announced[o] = 1
  /\ v.at = "destroy" /\ v.answered => context[o] = "destroyed"
DriverInv(d) == driver[d] = NoDriver \/ (driver[d].at # "none" /\ Knows(driver[d]))
OneDriver == \A d, e \in Driver : driver[d].op = driver[e].op => d = e \/ driver[d] = NoDriver

\* calls of one operation take turns
CallInv(k) ==
  /\ caller[k].at # "none" => caller[k].op \in Op
  /\ caller[k].at = "resolving" => phase[caller[k].op] = "none"
  /\ caller[k].at = "forked" => phase[caller[k].op] = "done"
OneAdmitted == \A k, l \in Caller :
  /\ caller[k].op = caller[l].op
  /\ caller[k].at \in {"resolving", "joined"} /\ caller[l].at \in {"resolving", "joined"}
  => k = l

DriversInv == OneDriver /\ \A d \in Driver : DriverInv(d)
CallsInv == OneAdmitted /\ \A k \in Caller : CallInv(k)
IInv == TypeOK /\ DriversInv /\ CallsInv /\ \A o \in Op : RowInv(o)

-----------------------------------------------------------------------------
(* The order of the phases *)

LEMMA Phases ==
  /\ Range(FORK_PHASES) = {"journaled", "cloned", "postcloned", "seeded", "announced", "done"}
  /\ Index("journaled") = 1 /\ Index("cloned") = 2 /\ Index("postcloned") = 3
  /\ Index("seeded") = 4 /\ Index("announced") = 5 /\ Index("done") = 6
<1>1. DOMAIN FORK_PHASES = 1..6
  BY DEF FORK_PHASES
<1>2. /\ FORK_PHASES[1] = "journaled" /\ FORK_PHASES[2] = "cloned"
      /\ FORK_PHASES[3] = "postcloned" /\ FORK_PHASES[4] = "seeded"
      /\ FORK_PHASES[5] = "announced" /\ FORK_PHASES[6] = "done"
  BY DEF FORK_PHASES
<1>3. \A i \in 1..6 : i = 1 \/ i = 2 \/ i = 3 \/ i = 4 \/ i = 5 \/ i = 6
  OBVIOUS
<1>4. Index("journaled") = 1
  BY <1>1, <1>2, <1>3 DEF Index
<1>5. Index("cloned") = 2
  BY <1>1, <1>2, <1>3 DEF Index
<1>6. Index("postcloned") = 3
  BY <1>1, <1>2, <1>3 DEF Index
<1>7. Index("seeded") = 4
  BY <1>1, <1>2, <1>3 DEF Index
<1>8. Index("announced") = 5
  BY <1>1, <1>2, <1>3 DEF Index
<1>9. Index("done") = 6
  BY <1>1, <1>2, <1>3 DEF Index
<1>10. Range(FORK_PHASES) = {"journaled", "cloned", "postcloned", "seeded", "announced", "done"}
  BY <1>1, <1>2, <1>3 DEF Range
<1> QED
  BY <1>4, <1>5, <1>6, <1>7, <1>8, <1>9, <1>10

\* What a driver has reached when it starts.
LEMMA Reaches ==
  ASSUME NEW p \in Underway \cup {"rollback-pending"}
  PROVE  /\ ForkPhaseReached(p, "postcloned") <=> p \in {"postcloned", "seeded"}
         /\ ForkPhaseReached(p, "seeded") <=> p = "seeded"
         /\ ~ForkPhaseReached(p, "announced")
         /\ p \in Phase
BY Phases DEF ForkPhaseReached, Underway, Phase

LEMMA PhaseSet ==
  Phase = {"none", "rollback-pending", "rolledback", "journaled", "cloned",
           "postcloned", "seeded", "announced", "done"}
BY Phases DEF Phase

-----------------------------------------------------------------------------
(* A driver disturbs no operation but its own *)

Same(o) ==
  /\ phase'[o] = phase[o] /\ recorded'[o] = recorded[o] /\ roster'[o] = roster[o]
  /\ context'[o] = context[o] /\ child'[o] = child[o] /\ announced'[o] = announced[o]

LEMMA Local ==
  ASSUME IInv, NEW d \in Driver, driver[d] # NoDriver, NEW o, driver[d].op = o,
         NEW v, driver' = [driver EXCEPT ![d] = v],
         v = NoDriver \/ (v.op = o /\ v.at # "none" /\ Knows(v)'),
         \A p \in Op : p # o => Same(p), RowInv(o)'
  PROVE  DriversInv' /\ \A p \in Op : RowInv(p)'
<1>1. o \in Op
  BY DEF IInv, DriversInv, DriverInv, Knows
<1>2. \A p \in Op : RowInv(p)'
  <2> SUFFICES ASSUME NEW p \in Op, p # o PROVE RowInv(p)'
    OBVIOUS
  <2> QED
    BY DEF Same, RowInv, Selected, Stocked, Whole, IInv
<1>3. ASSUME NEW e \in Driver, e # d PROVE DriverInv(e)' /\ driver'[e] = driver[e]
  <2>1. driver'[e] = driver[e] /\ DriverInv(e)
    BY <1>3 DEF IInv, TypeOK, DriversInv
  <2>2. CASE driver[e] = NoDriver
    BY <2>1, <2>2 DEF DriverInv
  <2>3. CASE driver[e] # NoDriver
    <3>1. driver[e].op \in Op /\ driver[e].op # o
      BY <1>3, <2>1, <2>3 DEF IInv, DriversInv, OneDriver, DriverInv, Knows
    <3>2. Same(driver[e].op)
      BY <3>1
    <3> QED
      BY <2>1, <2>3, <3>2 DEF Same, DriverInv, Knows, Stocked
  <2> QED
    BY <2>2, <2>3
<1>4. DriverInv(d)' /\ driver'[d] = v
  BY DEF IInv, TypeOK, DriverInv
<1>5. OneDriver'
  <2> SUFFICES ASSUME NEW e \in Driver, NEW f \in Driver, driver'[e].op = driver'[f].op, e # f,
                      driver'[e] # NoDriver
               PROVE  FALSE
    BY DEF OneDriver
  <2>0. \A g \in Driver : driver'[g].op = NoOp => driver'[g] = NoDriver
    BY <1>3, <1>4, <1>1, OpAssumption DEF IInv, DriversInv, DriverInv, Knows
  <2>1. driver'[f] # NoDriver
    BY <2>0, <1>1 DEF NoDriver
  <2>2. driver[e].op = driver[f].op /\ driver[e] # NoDriver /\ driver[f] # NoDriver
    BY <1>3, <1>4, <2>1
  <2> QED
    BY <2>2 DEF IInv, DriversInv, OneDriver
<1> QED
  BY <1>2, <1>3, <1>4, <1>5 DEF DriversInv

\* Neither does it disturb the calls of another one.
LEMMA CallsKept ==
  ASSUME IInv, NEW d \in Driver, driver[d] # NoDriver,
         \A p \in Op : p # driver[d].op => phase'[p] = phase[p], UNCHANGED caller
  PROVE  CallsInv'
<1>1. phase[driver[d].op] \in Underway \cup {"rollback-pending"}
  BY DEF IInv, DriversInv, DriverInv, Knows
<1> QED
  BY <1>1 DEF IInv, CallsInv, OneAdmitted, CallInv, Underway

\* The calls that joined a driver end with it, forked only when it is done.
LEMMA CallsEnded ==
  ASSUME IInv, NEW d \in Driver, driver[d] # NoDriver, NEW at \in {"failed", "forked"},
         Ends(d, at), \A p \in Op : p # driver[d].op => phase'[p] = phase[p],
         at = "forked" => phase'[driver[d].op] = "done"
  PROVE  CallsInv'
<1>1. phase[driver[d].op] \in Underway \cup {"rollback-pending"}
  BY DEF IInv, DriversInv, DriverInv, Knows
<1>2. \A k \in Caller : \/ caller'[k] = caller[k]
                        \/ /\ caller[k].at = "joined" /\ caller[k].op = driver[d].op
                           /\ caller'[k].op = caller[k].op /\ caller'[k].at = at
  BY DEF Ends, IInv, TypeOK
<1>3. OneAdmitted'
  BY <1>2 DEF IInv, CallsInv, OneAdmitted
<1>4. \A k \in Caller : CallInv(k)'
  BY <1>1, <1>2 DEF IInv, CallsInv, CallInv, Underway
<1> QED
  BY <1>3, <1>4 DEF CallsInv

LEMMA EndsTypes ==
  ASSUME TypeOK, NEW d \in Driver, NEW at \in {"failed", "forked"}, Ends(d, at)
  PROVE  /\ driver' = [driver EXCEPT ![d] = NoDriver]
         /\ caller' \in [Caller -> CallState] /\ driver' \in [Driver -> DriverState]
<1>1. NoDriver \in DriverState
  BY DEF NoDriver, DriverState, Phase
<1> QED
  BY <1>1 DEF Ends, TypeOK, CallState

\* What a driver is when it goes on, or has its answer.
Gone(v, at, answered) == [v EXCEPT !.at = at, !.answered = answered]
Follows(v, u, at, answered) ==
  /\ v \in DriverState /\ v.op = u.op /\ v.at = at /\ v.from = u.from /\ v.did = u.did
  /\ v.answered = answered
LEMMA GoesTo ==
  ASSUME TypeOK, NEW d \in Driver, NEW at \in {"start", "rollback"} \cup Await, Goes(d, at)
  PROVE  \E v : driver' = [driver EXCEPT ![d] = v] /\ Follows(v, driver[d], at, FALSE)
<1>1. driver[d] \in DriverState
  BY DEF TypeOK
<1>2. Follows(Gone(driver[d], at, FALSE), driver[d], at, FALSE)
  BY <1>1 DEF Follows, Gone, DriverState
<1>3. driver' = [driver EXCEPT ![d] = Gone(driver[d], at, FALSE)]
  BY DEF Goes, Gone, TypeOK
<1> QED
  BY <1>2, <1>3

LEMMA AnswerTo ==
  ASSUME TypeOK, NEW d \in Driver, Answer(d)
  PROVE  \E v : driver' = [driver EXCEPT ![d] = v] /\ Follows(v, driver[d], driver[d].at, TRUE)
<1> DEFINE v == [driver[d] EXCEPT !.answered = TRUE]
<1>1. driver[d] \in DriverState
  BY DEF TypeOK
<1>2. Follows(v, driver[d], driver[d].at, TRUE)
  BY <1>1 DEF Follows, DriverState
<1>3. driver' = [driver EXCEPT ![d] = v]
  BY DEF Answer, TypeOK
<1> QED
  BY <1>2, <1>3

\* A driver that is somewhere knows its operation.
LEMMA AtKnows ==
  ASSUME IInv, NEW d \in Driver, driver[d].at # "none"
  PROVE  driver[d] # NoDriver /\ Knows(driver[d]) /\ driver[d].op \in Op
BY DEF IInv, DriversInv, DriverInv, NoDriver, Knows

\* A step of a driver that goes on: its operation and what it knows, no more.
LEMMA GoesOn ==
  ASSUME IInv, NEW d \in Driver, driver[d].at # "none",
         NEW o, driver[d].op = o, NEW v, driver' = [driver EXCEPT ![d] = v],
         v.op = o, v.at # "none", Knows(v)', RowInv(o)', TypeOK',
         \A p \in Op : p # o => Same(p), UNCHANGED caller
  PROVE  IInv'
<1>1. driver[d] # NoDriver
  BY AtKnows
<1>2. DriversInv' /\ \A p \in Op : RowInv(p)'
  BY <1>1, Local
<1>3. CallsInv'
  BY <1>1, CallsKept DEF Same
<1> QED
  BY <1>2, <1>3 DEF IInv

LEMMA Finishes ==
  ASSUME IInv, NEW d \in Driver, driver[d].at # "none",
         NEW o, driver[d].op = o, NEW at \in {"failed", "forked"}, Ends(d, at),
         RowInv(o)', TypeOK', \A p \in Op : p # o => Same(p),
         at = "forked" => phase'[o] = "done"
  PROVE  IInv'
<1>1. driver[d] # NoDriver
  BY AtKnows
<1>2. DriversInv' /\ \A p \in Op : RowInv(p)'
  BY <1>1, Local, EndsTypes DEF IInv
<1>3. CallsInv'
  BY <1>1, CallsEnded DEF Same
<1> QED
  BY <1>2, <1>3 DEF IInv

-----------------------------------------------------------------------------
(* The steps of a driver *)

LEMMA ServeContextStep ==
  ASSUME IInv, NEW d \in Driver, ServeContext(d) PROVE IInv'
<1>1. PICK o : o = driver[d].op
  OBVIOUS
<1>2. driver[d].at # "none" /\ Knows(driver[d]) /\ o \in Op
  BY <1>1, AtKnows DEF ServeContext
<1>3. PICK v : driver' = [driver EXCEPT ![d] = v] /\ Follows(v, driver[d], driver[d].at, TRUE)
  BY AnswerTo DEF ServeContext, IInv
<1>4. \/ driver[d].at = "clone" /\ context[o] # "destroyed" /\ context' = [context EXCEPT ![o] = "alive"]
      \/ driver[d].at = "destroy" /\ context' = [context EXCEPT ![o] = "destroyed"]
  BY <1>1 DEF ServeContext
<1>5. context'[o] = IF driver[d].at = "clone" THEN "alive" ELSE "destroyed"
  BY <1>2, <1>4 DEF IInv, TypeOK
<1>6. UNCHANGED <<phase, recorded, roster, exported, child, announced, caller>>
  BY DEF ServeContext, row
<1>7. TypeOK'
  BY <1>2, <1>3, <1>4 DEF ServeContext, IInv, TypeOK, Follows, row, bounds
<1>8. Knows(v)'
  BY <1>1, <1>2, <1>3, <1>4, <1>5, <1>6 DEF Knows, Follows, Stocked, Forward, Want
<1>9. RowInv(o)'
  BY <1>1, <1>2, <1>4, <1>5, <1>6 DEF RowInv, Knows, Stocked, Whole, Selected, IInv, Underway, Want
<1>10. \A p \in Op : p # o => Same(p)
  BY <1>4, <1>6 DEF Same, IInv, TypeOK
<1> QED
  BY <1>1, <1>2, <1>3, <1>6, <1>7, <1>8, <1>9, <1>10, GoesOn DEF Follows

LEMMA ServeParentStep ==
  ASSUME IInv, NEW d \in Driver, ServeParent(d) PROVE IInv'
<1>1. PICK o : o = driver[d].op
  OBVIOUS
<1>2. driver[d].at = "announce" /\ Knows(driver[d]) /\ o \in Op
  BY <1>1, AtKnows DEF ServeParent
<1>3. PICK v : driver' = [driver EXCEPT ![d] = v] /\ Follows(v, driver[d], driver[d].at, TRUE)
  BY AnswerTo DEF ServeParent, IInv
<1>4. announced' = [announced EXCEPT ![o] = 1]
  BY <1>1 DEF ServeParent, Announces
<1>5. announced'[o] = 1
  BY <1>2, <1>4 DEF IInv, TypeOK
<1>6. UNCHANGED <<phase, recorded, roster, exported, context, child, caller>>
  BY DEF ServeParent, row
<1>7. TypeOK'
  <2>1. announced' \in [Op -> 0..1] /\ driver' \in [Driver -> DriverState]
    BY <1>2, <1>3, <1>4 DEF IInv, TypeOK, Follows
  <2> QED
    BY <2>1, <1>6 DEF ServeParent, IInv, TypeOK, row, bounds
<1>8. Knows(v)'
  BY <1>1, <1>2, <1>3, <1>4, <1>5, <1>6 DEF Knows, Follows, Stocked, Forward, Want
<1>9. RowInv(o)'
  BY <1>1, <1>2, <1>5, <1>6 DEF RowInv, Knows, Stocked, Whole, Selected, IInv, Want
<1>10. \A p \in Op : p # o => Same(p)
  BY <1>4, <1>6 DEF Same, IInv, TypeOK
<1> QED
  BY <1>1, <1>2, <1>3, <1>6, <1>7, <1>8, <1>9, <1>10, GoesOn DEF Follows

LEMMA ServeChildStep ==
  ASSUME IInv, NEW d \in Driver, ServeChild(d) PROVE IInv'
<1>1. PICK o : o = driver[d].op
  OBVIOUS
<1>2. driver[d].at # "none" /\ Knows(driver[d]) /\ o \in Op
  BY <1>1, AtKnows DEF ServeChild
<1>3. UNCHANGED <<phase, recorded, roster, exported, context, announced, caller, members,
                  aborted, crashes, changes, retires>> /\ context[o] = "alive"
  BY <1>1 DEF ServeChild, row, bounds
<1>4. child[o] \in [initialized : BOOLEAN, imported : SUBSET Agent, seeds : 0..1]
  BY <1>2 DEF IInv, TypeOK
<1>5. ASSUME driver[d].at = "postclone", child' = [child EXCEPT ![o].initialized = TRUE], Answer(d)
      PROVE  IInv'
  <2>1. PICK v : driver' = [driver EXCEPT ![d] = v] /\ Follows(v, driver[d], driver[d].at, TRUE)
    BY <1>5, AnswerTo DEF IInv
  <2>2. /\ child'[o].initialized = TRUE /\ child'[o].imported = child[o].imported
        /\ child'[o].seeds = child[o].seeds
        /\ child'[o] \in [initialized : BOOLEAN, imported : SUBSET Agent, seeds : 0..1]
        /\ \A p \in Op : p # o => child'[p] = child[p]
    BY <1>2, <1>4, <1>5 DEF IInv, TypeOK
  <2>3. TypeOK'
    BY <1>2, <1>3, <1>5, <2>1, <2>2 DEF IInv, TypeOK, Follows
  <2>4. Knows(v)'
    BY <1>1, <1>2, <1>3, <1>5, <2>1, <2>2 DEF Knows, Follows, Stocked, Forward, Want
  <2>5. RowInv(o)'
    BY <1>2, <1>3, <2>2 DEF RowInv, Stocked, Whole, Selected, IInv, Want
  <2>6. \A p \in Op : p # o => Same(p)
    BY <1>3, <2>2 DEF Same
  <2> QED
    BY <1>1, <1>2, <1>3, <2>1, <2>3, <2>4, <2>5, <2>6, GoesOn DEF Follows
<1>6. ASSUME driver[d].at = "import", NEW a \in roster[o] \ driver[d].did,
             child' = [child EXCEPT ![o].imported = @ \cup {a}],
             driver' = [driver EXCEPT ![d].did = @ \cup {a}, ![d].answered = TRUE]
      PROVE  IInv'
  <2>0. roster[o] \in SUBSET Agent /\ roster[o] # Unselected
    BY <1>1, <1>2, <1>6 DEF IInv, TypeOK, Knows, Forward
  <2>1. PICK v : v = [driver[d] EXCEPT !.did = @ \cup {a}, !.answered = TRUE]
    OBVIOUS
  <2>2. driver[d] \in DriverState
    BY DEF IInv, TypeOK
  <2>3. /\ driver' = [driver EXCEPT ![d] = v] /\ v.op = o /\ v.at = "import"
        /\ v.from = driver[d].from /\ v.did = driver[d].did \cup {a} /\ v.answered = TRUE
        /\ v \in DriverState
    BY <1>1, <1>6, <2>0, <2>1, <2>2 DEF DriverState, IInv, TypeOK
  <2>4. /\ child'[o].initialized = child[o].initialized
        /\ child'[o].imported = child[o].imported \cup {a} /\ child'[o].seeds = child[o].seeds
        /\ child'[o] \in [initialized : BOOLEAN, imported : SUBSET Agent, seeds : 0..1]
        /\ \A p \in Op : p # o => child'[p] = child[p]
    BY <1>2, <1>4, <1>6, <2>0 DEF IInv, TypeOK
  <2>5. TypeOK'
    <3>1. child' \in [Op -> [initialized : BOOLEAN, imported : SUBSET Agent, seeds : 0..1]]
      BY <1>6, <2>4 DEF IInv, TypeOK
    <3>2. driver' \in [Driver -> DriverState]
      BY <2>3 DEF IInv, TypeOK
    <3> QED
      BY <1>3, <3>1, <3>2 DEF IInv, TypeOK
  <2>6. Stocked(o) => child[o].imported \cup {a} = child[o].imported
    BY <1>6 DEF Stocked
  <2>7. Knows(v)'
    <3>1. Stocked(o) => Stocked(o)'
      BY <1>3, <2>4, <2>6 DEF Stocked
    <3>2. v.did \subseteq child'[o].imported
      BY <1>1, <1>2, <2>3, <2>4 DEF Knows
    <3> QED
      BY <1>1, <1>2, <1>3, <1>6, <2>3, <2>4, <3>1, <3>2 DEF Knows, Forward, Want
  <2>8. child'[o].imported \subseteq roster[o]
    BY <1>2, <2>0, <2>4 DEF IInv, RowInv, Selected
  <2>9. phase[o] # "done"
    BY <1>1, <1>2 DEF Knows, Underway
  <2>10. RowInv(o)'
    BY <1>2, <1>3, <2>0, <2>4, <2>6, <2>8, <2>9 DEF RowInv, Stocked, Selected, IInv, Want
  <2>11. \A p \in Op : p # o => Same(p)
    BY <1>3, <2>4 DEF Same
  <2> QED
    BY <1>1, <1>2, <1>3, <2>3, <2>5, <2>7, <2>10, <2>11, GoesOn
<1>7. ASSUME driver[d].at = "seed", o \in Seeded, child' = [child EXCEPT ![o].seeds = 1], Answer(d)
      PROVE  IInv'
  <2>1. PICK v : driver' = [driver EXCEPT ![d] = v] /\ Follows(v, driver[d], driver[d].at, TRUE)
    BY <1>7, AnswerTo DEF IInv
  <2>2. /\ child'[o].initialized = child[o].initialized /\ child'[o].imported = child[o].imported
        /\ child'[o].seeds = 1
        /\ child'[o] \in [initialized : BOOLEAN, imported : SUBSET Agent, seeds : 0..1]
        /\ \A p \in Op : p # o => child'[p] = child[p]
    <3>1. child'[o] = [child[o] EXCEPT !.seeds = 1] /\ 1 \in 0..1
      BY <1>2, <1>7 DEF IInv, TypeOK
    <3>2. \A p \in Op : p # o => child'[p] = child[p]
      BY <1>7 DEF IInv, TypeOK
    <3> QED
      BY <1>4, <3>1, <3>2
  <2>3. TypeOK'
    <3>1. child' \in [Op -> [initialized : BOOLEAN, imported : SUBSET Agent, seeds : 0..1]]
      BY <1>7, <2>2 DEF IInv, TypeOK
    <3>2. driver' \in [Driver -> DriverState]
      BY <2>1 DEF IInv, TypeOK, Follows
    <3> QED
      BY <1>3, <3>1, <3>2 DEF IInv, TypeOK
  <2>4. Knows(v)'
    BY <1>1, <1>2, <1>3, <1>7, <2>1, <2>2 DEF Knows, Follows, Stocked, Forward, Want
  <2>5. RowInv(o)'
    BY <1>2, <1>3, <1>7, <2>2 DEF RowInv, Stocked, Whole, Selected, IInv, Want
  <2>6. \A p \in Op : p # o => Same(p)
    BY <1>3, <2>2 DEF Same
  <2> QED
    BY <1>1, <1>2, <1>3, <2>1, <2>3, <2>4, <2>5, <2>6, GoesOn DEF Follows
<1> QED
  BY <1>1, <1>5, <1>6, <1>7 DEF ServeChild, Awaits, Seeds

\* A driver that turns back knows enough to roll back.
LEMMA TurnsBack ==
  ASSUME IInv, NEW d \in Driver, driver[d].at # "none", Goes(d, "rollback"),
         UNCHANGED <<row, members, world, aborted, bounds>>
  PROVE  IInv'
<1>1. PICK o : o = driver[d].op
  OBVIOUS
<1>2. Knows(driver[d]) /\ o \in Op
  BY <1>1, AtKnows
<1>3. PICK v : driver' = [driver EXCEPT ![d] = v] /\ Follows(v, driver[d], "rollback", FALSE)
  BY GoesTo DEF IInv
<1>4. Knows(v)'
  BY <1>1, <1>2, <1>3 DEF Knows, Follows, Stocked, Forward, Want, row, world
<1>5. TypeOK'
  BY <1>3 DEF IInv, TypeOK, Follows, Goes, row, world, bounds
<1>6. RowInv(o)'
  BY <1>2 DEF RowInv, IInv, Stocked, Whole, Selected, Want, row, world
<1>7. \A p \in Op : p # o => Same(p)
  BY DEF Same, row, world
<1> QED
  BY <1>1, <1>2, <1>3, <1>4, <1>5, <1>6, <1>7, GoesOn DEF Follows, Goes

LEMMA CallFailsStep ==
  ASSUME IInv, NEW d \in Driver, CallFails(d) PROVE IInv'
<1>1. driver[d].at # "none"
  BY DEF CallFails, Awaits, IInv, DriversInv, DriverInv, NoDriver
<1> QED
  BY <1>1, TurnsBack DEF CallFails

LEMMA ResumeRollbackStep ==
  ASSUME IInv, NEW d \in Driver, ResumeRollback(d) PROVE IInv'
BY TurnsBack DEF ResumeRollback

\* The roster is selected before anything is imported for it.
LEMMA SelectStep ==
  ASSUME IInv, NEW d \in Driver, Select(d) PROVE IInv'
<1>1. PICK o : o = driver[d].op
  OBVIOUS
<1>2. driver[d].at = "start" /\ driver[d].from # "rollback-pending" /\ Knows(driver[d]) /\ o \in Op
  BY <1>1, AtKnows DEF Select
<1>3. PICK v : driver' = [driver EXCEPT ![d] = v] /\ Follows(v, driver[d], "export", FALSE)
  BY GoesTo DEF Select, IInv, Await
<1>4. roster' = [roster EXCEPT ![o] = IF @ = Unselected THEN members ELSE @]
  BY <1>1 DEF Select
<1>5. /\ roster[o] # Unselected => roster'[o] = roster[o]
      /\ roster'[o] # Unselected /\ roster' \in [Op -> (SUBSET Agent) \cup {Unselected}]
      /\ \A p \in Op : p # o => roster'[p] = roster[p]
  BY <1>2, <1>4, UnselectedAssumption DEF IInv, TypeOK
<1>6. UNCHANGED <<phase, recorded, exported, context, child, announced, caller>>
  BY DEF Select, Goes, world
<1>7. TypeOK'
  BY <1>3, <1>5, <1>6 DEF Select, IInv, TypeOK, Follows, bounds
<1>8. Knows(v)'
  BY <1>1, <1>2, <1>3, <1>5, <1>6 DEF Knows, Follows, Stocked, Forward, Want
<1>9. phase[o] # "done"
  BY <1>1, <1>2 DEF Knows, Underway
<1>10. RowInv(o)'
  BY <1>2, <1>5, <1>6, <1>9 DEF RowInv, Stocked, Selected, IInv, Want
<1>11. \A p \in Op : p # o => Same(p)
  BY <1>5, <1>6 DEF Same
<1> QED
  BY <1>1, <1>2, <1>3, <1>6, <1>7, <1>8, <1>10, <1>11, GoesOn DEF Follows

LEMMA ExportStep ==
  ASSUME IInv, NEW d \in Driver, Export(d) PROVE IInv'
<1>1. PICK o : o = driver[d].op
  OBVIOUS
<1>2. driver[d].at = "export" /\ Knows(driver[d]) /\ o \in Op
  BY <1>1, AtKnows DEF Export
<1>3. PICK at \in {"export", "clone", "rollback"} : Goes(d, at)
  BY DEF Export, GoesUnlessAborted
<1>4. PICK v : driver' = [driver EXCEPT ![d] = v] /\ Follows(v, driver[d], at, FALSE)
  BY <1>3, GoesTo DEF IInv, Await
<1>5. exported' \in [Op -> SUBSET Agent]
  <2>1. roster[o] \in SUBSET Agent
    BY <1>1, <1>2 DEF IInv, TypeOK, Knows, Forward
  <2>2. exported \in [Op -> SUBSET Agent] /\ exported[o] \in SUBSET Agent
    BY <1>2 DEF IInv, TypeOK
  <2>3. exported' = exported \/ \E a \in roster[o] :
          exported' = [exported EXCEPT ![o] = IF aborted THEN @ ELSE @ \cup {a}]
    BY <1>1 DEF Export
  <2> QED
    BY <2>1, <2>2, <2>3
<1>6. UNCHANGED <<phase, recorded, roster, context, child, announced, caller>>
  BY <1>3 DEF Export, Goes, world
<1>7. TypeOK'
  BY <1>4, <1>5, <1>6 DEF Export, IInv, TypeOK, Follows, bounds
<1>8. Knows(v)'
  BY <1>1, <1>2, <1>4, <1>6 DEF Knows, Follows, Stocked, Forward, Want
<1>9. RowInv(o)'
  BY <1>2, <1>6 DEF RowInv, Stocked, Whole, Selected, IInv, Want
<1>10. \A p \in Op : p # o => Same(p)
  BY <1>6 DEF Same
<1> QED
  BY <1>1, <1>2, <1>4, <1>6, <1>7, <1>8, <1>9, <1>10, GoesOn DEF Follows

LEMMA ClonedStep ==
  ASSUME IInv, NEW d \in Driver, Cloned(d) PROVE IInv'
<1>1. PICK o : o = driver[d].op
  OBVIOUS
<1>2. driver[d].at = "clone" /\ driver[d].answered /\ Knows(driver[d]) /\ o \in Op
  BY <1>1, AtKnows DEF Cloned
<1>3. PICK at \in {"postclone", "rollback"} : Goes(d, at)
  BY DEF Cloned, GoesUnlessAborted
<1>4. PICK v : driver' = [driver EXCEPT ![d] = v] /\ Follows(v, driver[d], at, FALSE)
  BY <1>3, GoesTo DEF IInv, Await
<1>5. /\ \/ phase' = phase /\ recorded' = recorded
         \/ phase' = [phase EXCEPT ![o] = "cloned"] /\ recorded' = [recorded EXCEPT ![o] = TRUE]
      /\ UNCHANGED <<roster, exported, members, context, child, announced, caller, aborted,
                     crashes, changes, retires>>
  BY <1>1, <1>3 DEF Cloned, Goes, SetForkOpPhase, world, bounds
<1>6. /\ phase'[o] = phase[o] \/ phase'[o] = "cloned"
      /\ phase'[o] = phase[o] => recorded'[o] = recorded[o] \/ phase[o] = "cloned"
      /\ \A p \in Op : p # o => phase'[p] = phase[p] /\ recorded'[p] = recorded[p]
      /\ phase' \in [Op -> Phase] /\ recorded' \in [Op -> BOOLEAN]
  BY <1>2, <1>5, PhaseSet DEF IInv, TypeOK
<1>7. TypeOK'
  BY <1>4, <1>5, <1>6 DEF IInv, TypeOK, Follows
<1>8. Knows(v)'
  BY <1>1, <1>2, <1>4, <1>5, <1>6 DEF Knows, Follows, Stocked, Forward, Want, Underway
<1>9. phase[o] # "rolledback"
  BY <1>1, <1>2 DEF Knows, Underway
<1>10. RowInv(o)'
  BY <1>2, <1>5, <1>6, <1>9 DEF RowInv, Stocked, Whole, Selected, IInv, Want
<1>11. \A p \in Op : p # o => Same(p)
  BY <1>5, <1>6 DEF Same
<1> QED
  BY <1>1, <1>2, <1>4, <1>5, <1>7, <1>8, <1>10, <1>11, GoesOn DEF Follows

LEMMA PostClonedStep ==
  ASSUME IInv, NEW d \in Driver, PostCloned(d) PROVE IInv'
<1>1. PICK o : o = driver[d].op
  OBVIOUS
<1>2. driver[d].at = "postclone" /\ Knows(driver[d]) /\ o \in Op
  BY <1>1, AtKnows DEF PostCloned
<1>3. driver[d].from \in Underway \cup {"rollback-pending"}
  BY <1>2 DEF Knows
<1>4. PICK at \in {"import", "seed", "rollback"} :
        /\ Goes(d, at)
        /\ at = "import" => driver[d].answered
        /\ at = "seed" => driver[d].from \in {"postcloned", "seeded"}
  BY <1>2, <1>3, Reaches DEF PostCloned, GoesUnlessAborted, Awaits, Reached
<1>5. PICK v : driver' = [driver EXCEPT ![d] = v] /\ Follows(v, driver[d], at, FALSE)
  BY <1>4, GoesTo DEF IInv, Await
<1>6. UNCHANGED <<row, members, world, caller, aborted, bounds>>
  BY <1>4 DEF PostCloned, Goes
<1>7. TypeOK'
  BY <1>5, <1>6 DEF IInv, TypeOK, Follows, row, world, bounds
<1>8. Knows(v)'
  BY <1>1, <1>2, <1>4, <1>5, <1>6 DEF Knows, Follows, Stocked, Forward, Want, row, world
<1>9. RowInv(o)'
  BY <1>2, <1>6 DEF RowInv, IInv, Stocked, Whole, Selected, Want, row, world
<1>10. \A p \in Op : p # o => Same(p)
  BY <1>6 DEF Same, row, world
<1> QED
  BY <1>1, <1>2, <1>5, <1>6, <1>7, <1>8, <1>9, <1>10, GoesOn DEF Follows

\* The phase of a driven row moves within the phases a driver may be in.
LEMMA PhaseMoves ==
  ASSUME IInv, NEW o \in Op, NEW p \in Phase, SetForkOpPhase(o, p)
  PROVE  /\ phase'[o] = p /\ phase' \in [Op -> Phase]
         /\ \A q \in Op : q # o => phase'[q] = phase[q]
BY DEF SetForkOpPhase, IInv, TypeOK

LEMMA ImportedStep ==
  ASSUME IInv, NEW d \in Driver, Imported(d) PROVE IInv'
<1>1. PICK o : o = driver[d].op
  OBVIOUS
<1>2. driver[d].at = "import" /\ Knows(driver[d]) /\ o \in Op
  BY <1>1, AtKnows DEF Imported
<1>3. UNCHANGED <<recorded, roster, exported, members, world, caller, aborted, bounds>>
  BY DEF Imported, Goes, GoesUnlessAborted
<1>4. PICK at \in {"import", "seed", "rollback"} :
        /\ Goes(d, at)
        /\ \/ phase' = phase /\ at # "seed"
           \/ SetForkOpPhase(o, "postcloned") /\ roster[o] \subseteq driver[d].did
  BY <1>1, <1>2 DEF Imported, GoesUnlessAborted, Awaits
<1>5. PICK v : driver' = [driver EXCEPT ![d] = v] /\ Follows(v, driver[d], at, FALSE)
  BY <1>4, GoesTo DEF IInv, Await
<1>6. /\ \/ phase'[o] = phase[o] /\ at # "seed"
         \/ phase'[o] = "postcloned" /\ roster[o] \subseteq driver[d].did
      /\ phase' \in [Op -> Phase] /\ \A p \in Op : p # o => phase'[p] = phase[p]
  BY <1>2, <1>4, PhaseMoves, PhaseSet DEF IInv, TypeOK
<1>7. roster[o] \subseteq driver[d].did => Stocked(o)
  <2>1. child[o].initialized /\ roster[o] # Unselected /\ driver[d].did \subseteq child[o].imported
    BY <1>1, <1>2 DEF Knows, Forward
  <2>2. child[o].imported \subseteq roster[o]
    BY <1>2, <2>1 DEF IInv, RowInv, Selected
  <2> QED
    BY <2>1, <2>2 DEF Stocked
<1>8. TypeOK'
  BY <1>3, <1>5, <1>6 DEF IInv, TypeOK, Follows, world, bounds
<1>9. Knows(v)'
  BY <1>1, <1>2, <1>3, <1>5, <1>6, <1>7 DEF Knows, Follows, Stocked, Forward, Want, Underway, world
<1>10. RowInv(o)'
  BY <1>2, <1>3, <1>6, <1>7 DEF RowInv, IInv, Stocked, Whole, Selected, Want, world
<1>11. \A p \in Op : p # o => Same(p)
  BY <1>3, <1>6 DEF Same, world
<1> QED
  BY <1>1, <1>2, <1>3, <1>5, <1>8, <1>9, <1>10, <1>11, GoesOn DEF Follows

LEMMA SeedAppendedStep ==
  ASSUME IInv, NEW d \in Driver, SeedAppended(d) PROVE IInv'
<1>1. PICK o : o = driver[d].op
  OBVIOUS
<1>2. driver[d].at = "seed" /\ Knows(driver[d]) /\ o \in Op
  BY <1>1, AtKnows DEF SeedAppended
<1>3. driver[d].from \in Underway \cup {"rollback-pending"}
  BY <1>2 DEF Knows
<1>4. UNCHANGED <<recorded, roster, exported, members, world, caller, aborted, bounds>>
  BY DEF SeedAppended, Goes, GoesUnlessAborted
<1>5. PICK at \in {"announce", "rollback"} :
        /\ Goes(d, at)
        /\ \/ phase' = phase /\ (at = "announce" => driver[d].from = "seeded")
           \/ SetForkOpPhase(o, "seeded") /\ at = "announce"
  BY <1>1, <1>3, Reaches DEF SeedAppended, GoesUnlessAborted, Reached
<1>6. PICK v : driver' = [driver EXCEPT ![d] = v] /\ Follows(v, driver[d], at, FALSE)
  BY <1>5, GoesTo DEF IInv, Await
<1>7. /\ \/ phase'[o] = phase[o] \/ (phase'[o] = "seeded" /\ at = "announce")
      /\ phase' \in [Op -> Phase] /\ \A p \in Op : p # o => phase'[p] = phase[p]
  BY <1>2, <1>5, PhaseMoves, PhaseSet DEF IInv, TypeOK
<1>8. child[o].seeds = Want(o)
  <2>1. o \notin Seeded \/ driver[d].from = "seeded" \/ driver[d].answered
    BY <1>1, <1>2, <1>3, Reaches DEF SeedAppended, Awaits, Reached
  <2> QED
    BY <1>1, <1>2, <2>1 DEF IInv, RowInv, Knows, Want
<1>9. TypeOK'
  BY <1>4, <1>6, <1>7 DEF IInv, TypeOK, Follows, world, bounds
<1>10. Knows(v)'
  BY <1>1, <1>2, <1>4, <1>6, <1>7, <1>8 DEF Knows, Follows, Stocked, Forward, Want, Underway, world
<1>11. Stocked(o)
  BY <1>1, <1>2 DEF Knows
<1>12. RowInv(o)'
  BY <1>2, <1>4, <1>7, <1>8, <1>11 DEF RowInv, IInv, Stocked, Whole, Selected, Want, world
<1>13. \A p \in Op : p # o => Same(p)
  BY <1>4, <1>7 DEF Same, world
<1> QED
  BY <1>1, <1>2, <1>4, <1>6, <1>9, <1>10, <1>12, <1>13, GoesOn DEF Follows

\* A driver that announces has brought its fork together.
LEMMA AnnouncerIsWhole ==
  ASSUME IInv, NEW d \in Driver, driver[d].at = "announce"
  PROVE  Whole(driver[d].op)
BY AtKnows DEF Knows, Whole, Stocked, Want

LEMMA AnnouncedStep ==
  ASSUME IInv, NEW d \in Driver, Announced(d) PROVE IInv'
<1>1. PICK o : o = driver[d].op
  OBVIOUS
<1>2. driver[d].at = "announce" /\ Knows(driver[d]) /\ o \in Op
  BY <1>1, AtKnows DEF Announced
<1>3. driver[d].from \in Underway \cup {"rollback-pending"}
  BY <1>2 DEF Knows
<1>4. /\ UNCHANGED <<recorded, roster, exported, members, world, aborted, bounds>>
      /\ SetForkOpPhase(o, "done") /\ Ends(d, "forked")
  BY <1>1 DEF Announced
<1>5. announced[o] = 1
  <2>1. driver[d].answered
    BY <1>2, <1>3, Reaches DEF Announced, Awaits, Reached
  <2> QED
    BY <1>1, <1>2, <2>1 DEF Knows
<1>6. phase'[o] = "done" /\ phase' \in [Op -> Phase] /\ \A p \in Op : p # o => phase'[p] = phase[p]
  BY <1>2, <1>4, PhaseMoves, PhaseSet
<1>7. TypeOK'
  BY <1>4, <1>6, EndsTypes DEF IInv, TypeOK, world, bounds
<1>8. Whole(o)
  BY <1>1, <1>2, AnnouncerIsWhole
<1>9. RowInv(o)'
  BY <1>2, <1>4, <1>5, <1>6, <1>8 DEF RowInv, IInv, Stocked, Whole, Selected, Want, world
<1>10. \A p \in Op : p # o => Same(p)
  BY <1>4, <1>6 DEF Same, world
<1> QED
  BY <1>1, <1>2, <1>4, <1>6, <1>7, <1>9, <1>10, Finishes

\* A driver ends with its row in a phase that vouches for nothing it has not.
LEMMA FailsStep ==
  ASSUME IInv, NEW d \in Driver, driver[d].at # "none", Ends(d, "failed"),
         NEW p \in {"rolledback", "rollback-pending"}, SetForkOpPhase(driver[d].op, p),
         p = "rolledback" /\ recorded[driver[d].op] => context[driver[d].op] = "destroyed",
         UNCHANGED <<recorded, roster, exported, members, world, aborted, bounds>>
  PROVE  IInv'
<1>1. PICK o : o = driver[d].op
  OBVIOUS
<1>2. o \in Op
  BY <1>1, AtKnows
<1>3. phase'[o] = p /\ phase' \in [Op -> Phase] /\ \A q \in Op : q # o => phase'[q] = phase[q]
  BY <1>1, <1>2, PhaseMoves, PhaseSet
<1>4. TypeOK'
  BY <1>3, EndsTypes DEF IInv, TypeOK, world, bounds
<1>5. RowInv(o)'
  BY <1>1, <1>2, <1>3 DEF RowInv, IInv, Stocked, Whole, Selected, Want, world
<1>6. \A q \in Op : q # o => Same(q)
  BY <1>3 DEF Same, world
<1> QED
  BY <1>1, <1>4, <1>5, <1>6, Finishes

LEMMA RollbackForkOpStep ==
  ASSUME IInv, NEW d \in Driver, RollbackForkOp(d) PROVE IInv'
<1>1. PICK o : o = driver[d].op
  OBVIOUS
<1>2. driver[d].at = "rollback" /\ Knows(driver[d]) /\ o \in Op
  BY <1>1, AtKnows DEF RollbackForkOp
<1>3. CASE ~recorded[o]
  BY <1>1, <1>2, <1>3, FailsStep DEF RollbackForkOp
<1>4. CASE recorded[o]
  <2>1. Goes(d, "destroy") /\ UNCHANGED <<row, members, world, caller, aborted, bounds>>
    BY <1>1, <1>4 DEF RollbackForkOp, row, Goes
  <2>2. PICK v : driver' = [driver EXCEPT ![d] = v] /\ Follows(v, driver[d], "destroy", FALSE)
    BY <2>1, GoesTo DEF IInv, Await
  <2>3. TypeOK'
    BY <2>1, <2>2 DEF IInv, TypeOK, Follows, row, world, bounds
  <2>4. Knows(v)'
    BY <1>1, <1>2, <2>1, <2>2 DEF Knows, Follows, Stocked, Forward, Want, row, world
  <2>5. RowInv(o)'
    BY <1>2, <2>1 DEF RowInv, IInv, Stocked, Whole, Selected, Want, row, world
  <2>6. \A p \in Op : p # o => Same(p)
    BY <2>1 DEF Same, row, world
  <2> QED
    BY <1>1, <1>2, <2>1, <2>2, <2>3, <2>4, <2>5, <2>6, GoesOn DEF Follows
<1> QED
  BY <1>3, <1>4

LEMMA RolledBackStep ==
  ASSUME IInv, NEW d \in Driver, RolledBack(d) \/ RollbackFails(d) PROVE IInv'
<1>1. driver[d].at = "destroy" /\ Knows(driver[d])
  BY AtKnows DEF RolledBack, RollbackFails
<1>2. CASE RolledBack(d)
  <2>1. context[driver[d].op] = "destroyed"
    BY <1>1, <1>2 DEF RolledBack, Knows
  <2> QED
    BY <1>1, <1>2, <2>1, FailsStep DEF RolledBack
<1>3. CASE RollbackFails(d)
  BY <1>1, <1>3, FailsStep DEF RollbackFails
<1> QED
  BY <1>2, <1>3

LEMMA SelectFailsStep ==
  ASSUME IInv, NEW d \in Driver, SelectFails(d) PROVE IInv'
<1>1. PICK o : o = driver[d].op
  OBVIOUS
<1>2. driver[d].at = "start" /\ o \in Op
  BY <1>1, AtKnows DEF SelectFails
<1>3. UNCHANGED <<row, members, world, aborted, bounds>> /\ Ends(d, "failed")
  BY DEF SelectFails
<1>4. TypeOK'
  BY <1>3, EndsTypes DEF IInv, TypeOK, row, world, bounds
<1>5. RowInv(o)'
  BY <1>2, <1>3 DEF RowInv, IInv, Stocked, Whole, Selected, Want, row, world
<1>6. \A p \in Op : p # o => Same(p)
  BY <1>3 DEF Same, row, world
<1> QED
  BY <1>1, <1>2, <1>3, <1>4, <1>5, <1>6, Finishes

-----------------------------------------------------------------------------
(* Calls, reconciliation and the activation *)

\* runForkOp takes a free slot only for an operation that nobody drives.
LEMMA RunForkOpStep ==
  ASSUME IInv, NEW o \in Op, RunForkOp(o),
         \/ phase' = phase /\ phase[o] \in Underway \cup {"rollback-pending"}
         \/ phase[o] = "none" /\ SetForkOpPhase(o, "journaled"),
         UNCHANGED <<recorded, roster, exported, world>>
  PROVE  /\ driver' \in [Driver -> DriverState] /\ phase' \in [Op -> Phase]
         /\ DriversInv' /\ \A p \in Op : RowInv(p)'
<1>1. /\ phase'[o] \in Underway \cup {"rollback-pending"}
      /\ phase'[o] = phase[o] \/ (phase[o] = "none" /\ phase'[o] = "journaled")
      /\ phase' \in [Op -> Phase] /\ \A p \in Op : p # o => phase'[p] = phase[p]
  BY PhaseMoves, PhaseSet DEF IInv, TypeOK, Underway
<1>2. \A p \in Op : p # o => Same(p)
  BY <1>1 DEF Same, world
<1>3. RowInv(o)'
  BY <1>1 DEF RowInv, IInv, Stocked, Whole, Selected, Want, world, Underway
<1>4. \A p \in Op : RowInv(p)'
  BY <1>2, <1>3 DEF Same, RowInv, Selected, Stocked, Whole, IInv
<1>5. \A d \in Driver : driver[d] # NoDriver => driver[d].op \in Op /\ Knows(driver[d])
  BY DEF IInv, DriversInv, DriverInv, Knows
<1>6. \A d \in Driver : driver[d].op = o => phase'[o] = phase[o]
  <2> SUFFICES ASSUME NEW d \in Driver, driver[d].op = o PROVE phase[o] # "none"
    BY <1>1
  <2>1. Knows(driver[d])
    BY <1>5, OpAssumption DEF NoDriver
  <2> QED
    BY <2>1 DEF Knows, Underway
<1>7. ASSUME NEW d \in Driver, driver'[d] = driver[d] PROVE DriverInv(d)'
  <2>1. CASE driver[d] = NoDriver
    BY <1>7, <2>1 DEF DriverInv
  <2>2. CASE driver[d] # NoDriver
    <3>1. driver[d].at # "none" /\ Knows(driver[d]) /\ Same(driver[d].op)
      BY <1>2, <1>5, <1>6, <2>2 DEF Same, world, IInv, DriversInv, DriverInv
    <3> QED
      BY <1>7, <3>1 DEF Same, DriverInv, Knows, Stocked
  <2> QED
    BY <2>1, <2>2
<1>8. CASE UNCHANGED driver
  BY <1>1, <1>4, <1>7, <1>8 DEF IInv, TypeOK, DriversInv, OneDriver
<1>9. CASE ~Driven(o) /\ (\E d \in Driver : driver[d] = NoDriver) /\
           driver' = [driver EXCEPT ![Slot] = Started(o, phase'[o])]
  <2>1. Slot \in Driver /\ driver[Slot] = NoDriver
    BY <1>9 DEF Slot
  <2>2. PICK d : d = Slot
    OBVIOUS
  <2>3. PICK v : v = Started(o, phase'[o])
    OBVIOUS
  <2>4. /\ v.op = o /\ v.at = "start" /\ v.from = phase'[o] /\ v.did = {} /\ v.answered = FALSE
        /\ v \in DriverState
    BY <1>1, <2>3 DEF Started, NoDriver, DriverState
  <2>5. driver' = [driver EXCEPT ![d] = v] /\ d \in Driver /\ driver[d] = NoDriver
    BY <1>9, <2>1, <2>2, <2>3
  <2>6. driver' \in [Driver -> DriverState] /\ driver'[d] = v
        /\ \A e \in Driver : e # d => driver'[e] = driver[e]
    BY <2>4, <2>5 DEF IInv, TypeOK
  <2>7. Knows(v)'
    BY <1>1, <1>3, <2>4 DEF Knows, RowInv, Forward, Stocked
  <2>8. DriverInv(d)'
    BY <2>4, <2>6, <2>7 DEF DriverInv
  <2>9. OneDriver'
    BY <1>9, <2>4, <2>6 DEF IInv, DriversInv, OneDriver, Driven, Drives
  <2> QED
    BY <1>1, <1>4, <1>7, <2>6, <2>8, <2>9 DEF DriversInv
<1> QED
  BY <1>8, <1>9 DEF RunForkOp

\* What concerns neither drivers nor rows leaves their invariants alone.
LEMMA Undisturbed ==
  ASSUME IInv, UNCHANGED <<row, world, driver>>
  PROVE  DriversInv' /\ \A o \in Op : RowInv(o)'
<1>1. \A o \in Op : RowInv(o)'
  BY DEF IInv, RowInv, Stocked, Whole, Selected, row, world
<1>2. \A d \in Driver : DriverInv(d)'
  BY DEF IInv, DriversInv, DriverInv, Knows, Stocked, row, world
<1> QED
  BY <1>1, <1>2 DEF IInv, DriversInv, OneDriver

LEMMA CallerGoesStep ==
  ASSUME IInv, NEW k \in Caller,
         NEW at \in {"queued", "resolving", "joined", "forked", "failed"},
         caller[k].at # "none", CallerGoes(k, at)
  PROVE  /\ caller' \in [Caller -> CallState]
         /\ caller'[k].at = at /\ caller'[k].op = caller[k].op /\ caller[k].op \in Op
         /\ \A l \in Caller : l # k => caller'[l] = caller[l]
BY DEF CallerGoes, IInv, TypeOK, CallState, CallsInv, CallInv

LEMMA ForkOnceStep ==
  ASSUME IInv, NEW k \in Caller, ForkOnce(k) PROVE IInv'
<1>1. PICK o : o = caller[k].op
  OBVIOUS
<1>2. caller[k].at = "queued" /\ ~Admitted(o) /\ o \in Op
  BY <1>1 DEF ForkOnce, IInv, CallsInv, CallInv
<1>3. UNCHANGED <<row, members, world, aborted, bounds>>
  BY DEF ForkOnce
<1>4. PICK at \in {"failed", "forked", "resolving", "joined"} :
        /\ CallerGoes(k, at)
        /\ at = "forked" => phase[o] = "done"
        /\ at = "resolving" => phase[o] = "none"
        /\ at # "joined" => UNCHANGED driver
        /\ at = "joined" => RunForkOp(o) /\ phase[o] \notin {"none"} \cup Terminal
  <2>1. CASE aborted \/ phase[o] = "rolledback"
    BY <1>1, <2>1 DEF ForkOnce
  <2>2. CASE ~aborted /\ phase[o] = "done"
    BY <1>1, <2>2 DEF ForkOnce
  <2>3. CASE ~aborted /\ phase[o] = "none"
    BY <1>1, <2>3 DEF ForkOnce
  <2>4. CASE ~aborted /\ phase[o] \notin {"none"} \cup Terminal
    <3>1. phase[o] \notin {"none", "done", "rolledback"}
      BY <2>4 DEF Terminal
    <3>2. CallerGoes(k, "joined") /\ RunForkOp(o)
      BY <1>1, <2>4, <3>1 DEF ForkOnce
    <3> QED
      BY <2>4, <3>2
  <2> QED
    BY <2>1, <2>2, <2>3, <2>4 DEF Terminal
<1>5. /\ caller' \in [Caller -> CallState]
      /\ caller'[k].at = at /\ caller'[k].op = o
      /\ \A l \in Caller : l # k => caller'[l] = caller[l]
  BY <1>1, <1>2, <1>4, CallerGoesStep
<1>6. CallsInv'
  <2>1. OneAdmitted'
    BY <1>2, <1>5 DEF IInv, CallsInv, OneAdmitted, Admitted
  <2>2. \A l \in Caller : CallInv(l)'
    BY <1>2, <1>3, <1>4, <1>5 DEF IInv, CallsInv, CallInv, row
  <2> QED
    BY <2>1, <2>2 DEF CallsInv
<1>7. driver' \in [Driver -> DriverState] /\ DriversInv' /\ \A p \in Op : RowInv(p)'
  <2>1. CASE UNCHANGED driver
    BY <1>3, <2>1, Undisturbed DEF IInv, TypeOK
  <2>2. CASE RunForkOp(o) /\ phase[o] \notin {"none"} \cup Terminal
    <3>1. phase[o] \in Underway \cup {"rollback-pending"}
      BY <1>2, <2>2, PhaseSet DEF IInv, TypeOK, RowInv, Underway, Terminal
    <3> QED
      BY <1>2, <1>3, <2>2, <3>1, RunForkOpStep DEF row
  <2> QED
    BY <1>4, <2>1, <2>2
<1>8. TypeOK'
  BY <1>3, <1>5, <1>7 DEF IInv, TypeOK, row, world, bounds
<1> QED
  BY <1>6, <1>7, <1>8 DEF IInv

LEMMA JournalStep ==
  ASSUME IInv, NEW k \in Caller, Journal(k) PROVE IInv'
<1>1. PICK o : o = caller[k].op
  OBVIOUS
<1>2. caller[k].at = "resolving" /\ phase[o] = "none" /\ o \in Op
  BY <1>1 DEF Journal, IInv, CallsInv, CallInv
<1>3. UNCHANGED <<recorded, roster, exported, members, world, aborted, bounds>>
  BY DEF Journal
<1>4. PICK at \in {"failed", "joined"} :
        /\ CallerGoes(k, at)
        /\ \/ UNCHANGED <<phase, driver>>
           \/ SetForkOpPhase(o, "journaled") /\ RunForkOp(o) /\ at = "joined"
  BY <1>1 DEF Journal, SetForkOpPhase
<1>5. /\ caller' \in [Caller -> CallState]
      /\ caller'[k].at = at /\ caller'[k].op = o
      /\ \A l \in Caller : l # k => caller'[l] = caller[l]
  BY <1>1, <1>2, <1>4, CallerGoesStep
<1>6. /\ driver' \in [Driver -> DriverState] /\ phase' \in [Op -> Phase]
      /\ DriversInv' /\ \A p \in Op : RowInv(p)'
  <2>1. CASE UNCHANGED <<phase, driver>>
    BY <1>3, <2>1, Undisturbed DEF IInv, TypeOK, row
  <2>2. CASE SetForkOpPhase(o, "journaled") /\ RunForkOp(o)
    BY <1>2, <1>3, <2>2, RunForkOpStep
  <2> QED
    BY <1>4, <2>1, <2>2
<1>7. phase'[o] \in {"none", "journaled"} /\ \A p \in Op : p # o => phase'[p] = phase[p]
  BY <1>2, <1>4, PhaseMoves, PhaseSet
<1>8. OneAdmitted'
  BY <1>1, <1>2, <1>5 DEF IInv, CallsInv, OneAdmitted
<1>9. \A l \in Caller : CallInv(l)'
  BY <1>1, <1>2, <1>4, <1>5, <1>7 DEF IInv, CallsInv, OneAdmitted, CallInv
<1>10. TypeOK'
  BY <1>3, <1>5, <1>6 DEF IInv, TypeOK, world, bounds
<1> QED
  BY <1>6, <1>8, <1>9, <1>10 DEF IInv, CallsInv

LEMMA ForkStep ==
  ASSUME IInv, NEW k \in Caller, NEW o \in Op, Fork(k, o) PROVE IInv'
<1>1. /\ caller' \in [Caller -> CallState]
      /\ caller'[k].at \in {"failed", "queued"} /\ caller'[k].op = o
      /\ \A l \in Caller : l # k => caller'[l] = caller[l]
  BY DEF Fork, IInv, TypeOK, CallState
<1>2. CallsInv'
  BY <1>1 DEF Fork, IInv, CallsInv, OneAdmitted, CallInv, row
<1>3. DriversInv' /\ \A p \in Op : RowInv(p)'
  BY Undisturbed DEF Fork
<1>4. TypeOK'
  BY <1>1 DEF Fork, IInv, TypeOK, row, world, bounds
<1> QED
  BY <1>2, <1>3, <1>4 DEF IInv

LEMMA ReconcileForkOpStep ==
  ASSUME IInv, NEW o \in Op, ReconcileForkOp(o) PROVE IInv'
<1>1. phase[o] \in Underway \cup {"rollback-pending"}
  BY PhaseSet DEF ReconcileForkOp, IInv, TypeOK, RowInv, Underway, Terminal
<1>2. UNCHANGED <<row, members, world, caller, aborted, bounds>>
  BY DEF ReconcileForkOp
<1>3. driver' \in [Driver -> DriverState] /\ DriversInv' /\ \A p \in Op : RowInv(p)'
  BY <1>1, <1>2, RunForkOpStep DEF ReconcileForkOp, row
<1>4. CallsInv'
  BY <1>2 DEF IInv, CallsInv, OneAdmitted, CallInv, row
<1>5. TypeOK'
  BY <1>2, <1>3 DEF IInv, TypeOK, row, world, bounds
<1> QED
  BY <1>3, <1>4, <1>5 DEF IInv

LEMMA EvictStep ==
  ASSUME IInv, Evict PROVE IInv'
<1>1. \A k \in Caller : caller'[k] = caller[k] \/ (caller'[k].at = "failed" /\ caller'[k].op = caller[k].op
                                                 /\ caller[k].at # "none")
  BY DEF Evict, IInv, TypeOK, CallState
<1>2. CallsInv'
  BY <1>1 DEF Evict, IInv, CallsInv, OneAdmitted, CallInv, row
<1>3. DriversInv'
  BY DEF Evict, DriversInv, OneDriver, DriverInv
<1>4. \A o \in Op : RowInv(o)'
  BY DEF Evict, IInv, RowInv, Stocked, Whole, Selected, row, world
<1>5. NoDriver \in DriverState
  BY DEF NoDriver, DriverState, Phase
<1>6. caller' \in [Caller -> CallState] /\ driver' \in [Driver -> DriverState]
  BY <1>5 DEF Evict, IInv, TypeOK, CallState
<1>7. aborted' \in BOOLEAN
  BY DEF Evict
<1>8. crashes' \in 0..MaxCrash
  BY BoundAssumption DEF Evict, IInv, TypeOK
<1>9. UNCHANGED <<row, members, world, changes, retires>>
  BY DEF Evict
<1>10. TypeOK'
  BY <1>6, <1>7, <1>8, <1>9 DEF IInv, TypeOK, row, world
<1> QED
  BY <1>2, <1>3, <1>4, <1>10 DEF IInv

\* The retirement and the membership touch no row, call or driver.
LEMMA AroundStep ==
  ASSUME IInv, BeginRetire \/ CancelRetire \/ ChangeMembers PROVE IInv'
<1>1. UNCHANGED <<row, world, caller, driver>>
  BY DEF BeginRetire, CancelRetire, ChangeMembers
<1>2. DriversInv' /\ \A o \in Op : RowInv(o)'
  BY <1>1, Undisturbed
<1>3. CallsInv'
  BY <1>1 DEF IInv, CallsInv, OneAdmitted, CallInv, row
<1>4. members' \subseteq Agent /\ aborted' \in BOOLEAN
  BY DEF BeginRetire, CancelRetire, ChangeMembers, IInv, TypeOK
<1>5. crashes' \in 0..MaxCrash /\ changes' \in 0..MaxChange /\ retires' \in 0..MaxRetire
  BY BoundAssumption DEF BeginRetire, CancelRetire, ChangeMembers, IInv, TypeOK, bounds
<1>6. TypeOK'
  BY <1>1, <1>4, <1>5 DEF IInv, TypeOK, row, world
<1> QED
  BY <1>2, <1>3, <1>6 DEF IInv

-----------------------------------------------------------------------------
LEMMA InitIInv == Init => IInv
<1> SUFFICES ASSUME Init PROVE IInv
  OBVIOUS
<1>1. TypeOK
  <2>1. NoCall \in CallState /\ NoDriver \in DriverState /\ "none" \in Phase
    BY DEF NoCall, NoDriver, CallState, DriverState, Phase
  <2>2. crashes \in 0..MaxCrash /\ changes \in 0..MaxChange /\ retires \in 0..MaxRetire
    BY BoundAssumption DEF Init
  <2>3. child \in [Op -> [initialized : BOOLEAN, imported : SUBSET Agent, seeds : 0..1]]
    BY DEF Init
  <2>4. announced \in [Op -> 0..1] /\ context \in [Op -> {"none", "alive", "destroyed"}]
    BY DEF Init
  <2> QED
    BY <2>1, <2>2, <2>3, <2>4 DEF Init, TypeOK
<1>2. DriversInv /\ CallsInv
  BY DEF Init, DriversInv, OneDriver, DriverInv, CallsInv, OneAdmitted, CallInv, NoCall
<1>3. \A o \in Op : RowInv(o)
  BY DEF Init, RowInv, Selected
<1> QED
  BY <1>1, <1>2, <1>3 DEF IInv

LEMMA NextIInv == IInv /\ [Next]_vars => IInv'
<1> SUFFICES ASSUME IInv, [Next]_vars PROVE IInv'
  OBVIOUS
<1>1. ASSUME NEW d \in Driver, Serve(d) PROVE IInv'
  BY <1>1, ServeContextStep, ServeChildStep, ServeParentStep DEF Serve
<1>2. ASSUME NEW d \in Driver, Step(d) PROVE IInv'
  BY <1>2, SelectStep, ResumeRollbackStep, ExportStep, ClonedStep, PostClonedStep, ImportedStep,
     SeedAppendedStep, AnnouncedStep, RollbackForkOpStep, RolledBackStep DEF Step
<1>3. ASSUME NEW d \in Driver, Fail(d) PROVE IInv'
  BY <1>3, SelectFailsStep, CallFailsStep, RolledBackStep DEF Fail
<1>4. ASSUME NEW k \in Caller, ForkOnce(k) \/ Journal(k) \/ \E o \in Op : Fork(k, o) PROVE IInv'
  BY <1>4, ForkOnceStep, JournalStep, ForkStep
<1>5. ASSUME NEW o \in Op, ReconcileForkOp(o) PROVE IInv'
  BY <1>5, ReconcileForkOpStep
<1>6. CASE Evict \/ BeginRetire \/ CancelRetire \/ ChangeMembers
  BY <1>6, EvictStep, AroundStep
<1>7. CASE UNCHANGED vars
  <2>1. UNCHANGED <<row, world, driver, caller, members, aborted, bounds>>
    BY <1>7 DEF vars
  <2>2. DriversInv' /\ \A o \in Op : RowInv(o)'
    BY <2>1, Undisturbed
  <2>3. CallsInv' /\ TypeOK'
    BY <2>1 DEF IInv, CallsInv, OneAdmitted, CallInv, TypeOK, row, world, bounds
  <2> QED
    BY <2>2, <2>3 DEF IInv
<1> QED
  BY <1>1, <1>2, <1>3, <1>4, <1>5, <1>6, <1>7 DEF Next

\* Every variable keeps its type, for any operations, agents, calls and drivers.
THEOREM TypeCorrect == Spec => []TypeOK
<1>1. IInv => TypeOK
  BY DEF IInv
<1> QED
  BY <1>1, InitIInv, NextIInv, PTL DEF Spec

\* A fork that is reported done is whole (runForkOpOnce), whatever failed, was
\* interrupted and resumed, or was asked for twice on the way.
THEOREM DoneIsWhole == Spec => []DoneMeansWhole
<1>1. IInv => DoneMeansWhole
  BY DEF IInv, RowInv, DoneMeansWhole, CallsInv, CallInv
<1> QED
  BY <1>1, InitIInv, NextIInv, PTL DEF Spec

\* A rolled back operation leaves no context that its row knows of (rollbackForkOp).
THEOREM RecordedDestroyed == Spec => []RecordedIsDestroyed
<1>1. IInv => RecordedIsDestroyed
  BY DEF IInv, RowInv, RecordedIsDestroyed
<1> QED
  BY <1>1, InitIInv, NextIInv, PTL DEF Spec

\* Only the driver that brought a fork together announces it, once (appendForkEvent).
LEMMA AnnounceStep ==
  ASSUME IInv, [Next]_vars, NEW o \in Op, announced'[o] # announced[o]
  PROVE  Whole(o) /\ announced'[o] = 1
<1>1. PICK d \in Driver : ServeParent(d)
  BY DEF Next, vars, world, Serve, Step, Fail, ServeContext, ServeChild, Select, ResumeRollback,
     Export, Cloned, PostCloned, Imported, SeedAppended, Announced, RollbackForkOp, RolledBack,
     SelectFails, CallFails, RollbackFails, ForkOnce, Journal, Fork, ReconcileForkOp, Evict,
     BeginRetire, CancelRetire, ChangeMembers
<1>2. announced' = [announced EXCEPT ![driver[d].op] = 1]
  BY <1>1 DEF ServeParent, Announces
<1>3. driver[d].op = o /\ announced'[o] = 1
  BY <1>2 DEF IInv, TypeOK
<1> QED
  BY <1>1, <1>3, AnnouncerIsWhole DEF ServeParent

\* A fork is announced in the parent only when it is whole, and once.
THEOREM AnnouncedIsWhole == Spec => AnnouncedWhole
<1>1. IInv /\ [Next]_vars =>
        [\A o \in Op : announced'[o] # announced[o] => Whole(o) /\ announced'[o] = 1]_vars
  BY AnnounceStep
<1> QED
  BY <1>1, InitIInv, NextIInv, PTL DEF Spec, AnnouncedWhole
=============================================================================
