--------------------------- MODULE MissionRunsProofs ---------------------------
(***************************************************************************)
(* Proofs about MissionRuns: one run at a time, sessions that end with     *)
(* their runs, releases that vouch for what they say, and stops that hold. *)
(*                                                                         *)
(* The invariant adds to the properties what is known between two calls:   *)
(* what an answer that was heard says about the host (Sessions), who may   *)
(* still start or admit something while a release is under way (Sealed),   *)
(* and that whatever names a run names a durable one (Known).              *)
(***************************************************************************)
EXTENDS MissionRuns, TLAPS

HasRow(r) == row[r].phase # "none"

\* An answer that was heard is true, what is stored behind it is an outcome, and
\* only drivers and those who interrupt ask for anything but the end of a session.
Sessions ==
  /\ \A r \in Run : driver[r].at = "close" =>
       driver[r].out \in Outcomes /\ (driver[r].did => session[r] = "finished")
  /\ \A c \in Cmd : cmd[c].at \in {"closing", "swept"} /\ cmd[c].did
                      => session[cmd[c].run] = "finished"
  /\ \A r \in Run : report[r] # "no" =>
       agent[r] \in Reported /\ (report[r] = "closed" => session[r] = "finished")
  /\ \A q \in net : q.by \notin {"driver", "all"} => q.to = "finish"

\* Commands under way name a run where they need one, and whatever is known of a
\* run, its row is there; what the agent may forget is over.
Named == {"authority", "own", "name", "drive", "join", "again", "await", "closing", "swept"}
Rooted == {"drive", "join", "again", "await", "closing", "swept"}
Known ==
  /\ \A c \in Cmd : /\ cmd[c].at \in Named => cmd[c].run \in Run
                    /\ cmd[c].at \in Rooted => HasRow(cmd[c].run)
  /\ \A r \in Run : /\ HasRow(r) \/ row[r] = NoRow
                    /\ Driven(r) \/ report[r] # "no" \/ agent[r] # "none" => HasRow(r)
  /\ \A q \in net : HasRow(q.run)
  /\ \A r \in box \cup acked : row[r].phase = "terminal"
  /\ wake = "due" => clock > 0

\* A release under way has the ledger sealed, nobody resumes it, and after its
\* first wait no admission, after its last no driver is left.
Stages == {"settle", "halt", "drivers", "sweep", "swept"}
Quiesced == \A o \in Cmd : cmd[o].at \notin {"own", "name"}
Sealed ==
  /\ \A c \in Cmd : cmd[c].at \in Stages =>
       /\ cmd[c].op \in {"suspend", "retirement"}
       /\ sealed /\ ~owed /\ released = "no"
       /\ cmd[c].at # "settle" => Quiesced
       /\ cmd[c].at \in {"sweep", "swept"} => \A r \in Run : ~Driven(r)
  /\ \A c, o \in Cmd : cmd[c].at \in Stages /\ cmd[o].at \in Stages => c = o
  /\ released # "no" => sealed /\ ~owed

\* On the only way to a dispatch that does not look at the marker again, the
\* driver has been told to stop.
Stopped == \A r \in marked : driver[r].at \in {"describe", "redo"} => driver[r].stop

IInv ==
  /\ TypeOK /\ OneLive /\ RecordedSessionEnds /\ ReleaseVouches /\ AckAfterTerminal
  /\ Sessions /\ Known /\ Sealed /\ Stopped

-----------------------------------------------------------------------------
(* What a step may do to each part of the state. *)

\* A row is left alone, moved while it is live, or written for the first time; it
\* becomes terminal without a session or behind the end of its session.
RowsMove ==
  /\ row' \in [Run -> RowState]
  /\ \A s \in Run :
       \/ row'[s] = row[s]
       \/ /\ Live(s) /\ row'[s].phase \in Phases \cup {"terminal"}
          /\ row'[s].phase = "terminal" /\ row'[s].session => session[s] = "finished"
       \/ /\ row[s] = NoRow /\ ~row'[s].session
          /\ row'[s].phase \in {"admitted", "terminal"}
          /\ row'[s].phase = "admitted" =>
               ~sealed /\ LiveRuns = {} /\ \A t \in Run : t # s => row'[t] = row[t]

\* A driver waits on, ends, or goes on to a call that nobody has answered yet; one
\* starts for a durable run of an activation that is not being released.
DriversMove ==
  /\ driver' \in [Run -> DriverState]
  /\ \A s \in Run :
       \/ /\ driver'[s].at = driver[s].at /\ driver'[s].out = driver[s].out
          /\ driver'[s].did = driver[s].did
       \/ driver'[s].at = "off"
       \/ /\ Driven(s) \/ (HasRow(s) /\ (~sealed \/ owed))
          /\ driver'[s].at = "close" =>
               driver'[s].out \in Outcomes /\ (driver'[s].did => session'[s] = "finished")

\* A command waits on or goes on with a run that is there.
CmdsMove ==
  /\ cmd' \in [Cmd -> CmdState]
  /\ \A c \in Cmd :
       \/ cmd'[c].at \notin Named
       \/ /\ cmd'[c].at = cmd[c].at /\ cmd'[c].run = cmd[c].run
          /\ cmd[c].at \in {"closing", "swept"} /\ cmd'[c].did
               => cmd[c].did \/ session'[cmd[c].run] = "finished"
       \/ /\ cmd'[c].run \in Run
          /\ cmd'[c].at \in Rooted => row'[cmd'[c].run].phase # "none"
          /\ cmd'[c].at \in {"closing", "swept"} => ~cmd'[c].did

\* No release begins or goes on, and a sealed activation admits nothing.
CmdsCalm ==
  \A c \in Cmd :
    \/ cmd'[c].at = cmd[c].at /\ cmd'[c].op = cmd[c].op
    \/ cmd'[c].at \notin Stages \cup {"own", "name"}
    \/ cmd'[c].at \in {"own", "name"} /\ ~sealed

\* Requests are sent for durable runs, and no dispatch of one that is to stop.
NetMoves ==
  \A q \in net' : q \in net \/
    /\ q \in RequestState /\ HasRow(q.run)
    /\ q.by \notin {"driver", "all"} => q.to = "finish"
    /\ q.to = "dispatch" => q.run \notin marked

MissionMoves ==
  /\ mission' \in MissionState /\ wake' \in {"none", "set", "due"} /\ clock' \in 0..MaxTick
  /\ wake' = "due" => clock' > 0

MarksMove ==
  marked' \subseteq Run /\ halted' \in [Run -> {"none", "sent", "done"}]

BoxMoves == box' \subseteq Run /\ \A r \in box' : r \in box \/ row'[r].phase = "terminal"

\* A finished session stays finished; agents know only durable runs, and forget
\* only runs that are over.
WorldMoves ==
  /\ session' \in [Run -> {"none", "open", "finished"}]
  /\ agent' \in [Run -> {"none", "running"} \cup Reported]
  /\ report' \in [Run -> {"no", "owed", "closing", "closed", "told", "parked"}]
  /\ acked' \subseteq Run /\ \A r \in acked' : r \in acked \/ row[r].phase = "terminal"
  /\ \A r \in Run :
       /\ session[r] = "finished" => session'[r] = "finished"
       /\ agent'[r] # "none" => HasRow(r)
       /\ report'[r] # "no" =>
            /\ HasRow(r) /\ agent'[r] \in Reported
            /\ report'[r] = "closed" => session'[r] = "finished"

BoundsMove == asks' \in 0..MaxAsk /\ failed' \in BOOLEAN

AllMove ==
  /\ RowsMove /\ DriversMove /\ CmdsMove /\ NetMoves /\ MissionMoves /\ MarksMove
  /\ BoxMoves /\ WorldMoves /\ BoundsMove

\* What is left alone moves as it may.
LEMMA Unmoved ==
  ASSUME IInv
  PROVE  /\ UNCHANGED row => RowsMove
         /\ UNCHANGED driver => DriversMove
         /\ UNCHANGED cmd => CmdsMove /\ CmdsCalm
         /\ UNCHANGED net => NetMoves
         /\ UNCHANGED <<mission, wake, clock>> => MissionMoves
         /\ UNCHANGED <<marked, halted>> => MarksMove
         /\ UNCHANGED box => BoxMoves
         /\ UNCHANGED <<session, agent, acked, report>> => WorldMoves
         /\ UNCHANGED spent => BoundsMove
         /\ UNCHANGED <<driver, marked>> => Stopped'
<1>1. UNCHANGED row => RowsMove  BY DEF IInv, TypeOK, RowsMove
<1>2. UNCHANGED driver => DriversMove  BY DEF IInv, TypeOK, DriversMove
<1>3. UNCHANGED cmd => CmdsMove /\ CmdsCalm  BY DEF IInv, TypeOK, CmdsMove, CmdsCalm
<1>4. UNCHANGED net => NetMoves  BY DEF NetMoves
<1>5. UNCHANGED <<mission, wake, clock>> => MissionMoves
  BY DEF IInv, TypeOK, Known, MissionMoves
<1>6. UNCHANGED <<marked, halted>> => MarksMove  BY DEF IInv, TypeOK, MarksMove
<1>7. UNCHANGED box => BoxMoves  BY DEF IInv, TypeOK, BoxMoves
<1>8. UNCHANGED <<session, agent, acked, report>> => WorldMoves
  BY DEF IInv, TypeOK, WorldMoves, Known, Sessions
<1>9. UNCHANGED spent => BoundsMove  BY DEF IInv, TypeOK, BoundsMove, spent
<1>10. UNCHANGED <<driver, marked>> => Stopped'  BY DEF IInv, Stopped
<1> QED BY <1>1, <1>2, <1>3, <1>4, <1>5, <1>6, <1>7, <1>8, <1>9, <1>10

\* Rows that move as they may stay rows, terminal ones stay terminal, and no run
\* comes alive unless it is admitted.
LEMMA RowsKeep ==
  ASSUME IInv, RowsMove
  PROVE  /\ \A s \in Run : HasRow(s) => HasRow(s)'
         /\ \A s \in Run : row[s].phase = "terminal" => row'[s].phase = "terminal"
         /\ sealed => \A s \in Run : Live(s)' => Live(s)
<1>1. ASSUME NEW s \in Run PROVE HasRow(s) => HasRow(s)'
  BY <1>1 DEF HasRow, RowsMove, NoRow, Phases
<1>2. ASSUME NEW s \in Run, row[s].phase = "terminal" PROVE row'[s].phase = "terminal"
  BY <1>2 DEF RowsMove, NoRow, Live, Phases
<1>3. ASSUME sealed, NEW s \in Run, Live(s)' PROVE Live(s)
  BY <1>3 DEF RowsMove, NoRow, Live, Phases
<1> QED BY <1>1, <1>2, <1>3

LEMMA OneStays ==
  ASSUME IInv, RowsMove
  PROVE  OneLive'
<1> SUFFICES ASSUME NEW r \in Run, NEW s \in Run, Live(r)', Live(s)' PROVE r = s
  BY DEF OneLive, LiveRuns
<1>1. CASE Live(r) /\ Live(s)  BY <1>1 DEF IInv, OneLive, LiveRuns
<1>2. CASE ~Live(r)
  <2>1. LiveRuns = {} /\ \A t \in Run : t # r => row'[t] = row[t]
    BY <1>2 DEF RowsMove, Live, Phases, NoRow
  <2> QED BY <2>1 DEF LiveRuns, Live
<1>3. CASE ~Live(s)
  <2>1. LiveRuns = {} /\ \A t \in Run : t # s => row'[t] = row[t]
    BY <1>3 DEF RowsMove, Live, Phases, NoRow
  <2> QED BY <2>1 DEF LiveRuns, Live
<1> QED BY <1>1, <1>2, <1>3

LEMMA SessionsEnd ==
  ASSUME IInv, RowsMove, WorldMoves
  PROVE  RecordedSessionEnds'
<1> SUFFICES ASSUME NEW r \in Run, row'[r].phase = "terminal", row'[r].session
             PROVE  session'[r] = "finished"
  BY DEF RecordedSessionEnds
<1>1. session[r] = "finished"
  BY DEF IInv, RecordedSessionEnds, RowsMove, Phases, Live
<1> QED BY <1>1 DEF WorldMoves

\* Steps that move as they may keep everything but what a release vouches for.
LEMMA MovesKeep ==
  ASSUME IInv, AllMove, Stopped',
         sealed' \in BOOLEAN, owed' \in BOOLEAN, released' \in {"no", "suspend", "retirement"}
  PROVE  /\ TypeOK' /\ OneLive' /\ RecordedSessionEnds' /\ AckAfterTerminal'
         /\ Sessions' /\ Known' /\ Stopped'
<1> USE DEF AllMove
<1>1. TypeOK'
  <2>1. net' \subseteq RequestState  BY DEF IInv, TypeOK, NetMoves
  <2> QED BY <2>1 DEF TypeOK, RowsMove, DriversMove, CmdsMove, MissionMoves, MarksMove,
            BoxMoves, WorldMoves, BoundsMove
<1>2. AckAfterTerminal' /\ \A r \in box' : row'[r].phase = "terminal"
  <2>1. \A r \in acked' : row'[r].phase = "terminal"
    BY RowsKeep DEF WorldMoves, IInv, AckAfterTerminal, TypeOK
  <2>2. \A r \in box' : row'[r].phase = "terminal"
    BY RowsKeep DEF BoxMoves, IInv, Known, TypeOK
  <2> QED BY <2>1, <2>2 DEF AckAfterTerminal
<1>3. Sessions'
  <2>1. ASSUME NEW r \in Run, driver'[r].at = "close"
        PROVE  driver'[r].out \in Outcomes /\ (driver'[r].did => session'[r] = "finished")
    BY <2>1 DEF DriversMove, IInv, Sessions, WorldMoves
  <2>2. ASSUME NEW c \in Cmd, cmd'[c].at \in {"closing", "swept"}, cmd'[c].did
        PROVE  session'[cmd'[c].run] = "finished"
    <3>1. cmd'[c].at = cmd[c].at /\ cmd'[c].run = cmd[c].run
      BY <2>2 DEF CmdsMove, Named
    <3>2. cmd[c].run \in Run  BY <2>2, <3>1 DEF IInv, Known, Named
    <3>3. cmd[c].did \/ session'[cmd[c].run] = "finished"
      BY <2>2, <3>1 DEF CmdsMove, Named
    <3> QED BY <2>2, <3>1, <3>2, <3>3 DEF IInv, Sessions, WorldMoves
  <2>3. ASSUME NEW r \in Run, report'[r] # "no"
        PROVE  agent'[r] \in Reported /\ (report'[r] = "closed" => session'[r] = "finished")
    BY <2>3 DEF WorldMoves
  <2>4. \A q \in net' : q.by \notin {"driver", "all"} => q.to = "finish"
    BY DEF NetMoves, IInv, Sessions
  <2> QED BY <2>1, <2>2, <2>3, <2>4 DEF Sessions
<1>4. Known'
  <2>1. ASSUME NEW c \in Cmd
        PROVE  /\ cmd'[c].at \in Named => cmd'[c].run \in Run
               /\ cmd'[c].at \in Rooted => row'[cmd'[c].run].phase # "none"
    <3>1. CASE cmd'[c].at = cmd[c].at /\ cmd'[c].run = cmd[c].run
      BY <3>1, RowsKeep DEF IInv, Known, HasRow, Named, Rooted
    <3>2. CASE ~(cmd'[c].at = cmd[c].at /\ cmd'[c].run = cmd[c].run)
      BY <3>2 DEF CmdsMove, Named, Rooted
    <3> QED BY <3>1, <3>2
  <2>2. ASSUME NEW r \in Run, Driven(r)' \/ report'[r] # "no" \/ agent'[r] # "none"
        PROVE  HasRow(r)'
    <3>1. Driven(r)' => HasRow(r)
      BY DEF DriversMove, IInv, Known, Driven
    <3> QED BY <2>2, <3>1, RowsKeep DEF WorldMoves
  <2>3. ASSUME NEW q \in net' PROVE row'[q.run].phase # "none"
    <3>1. HasRow(q.run) /\ q.run \in Run
      BY DEF NetMoves, IInv, Known, TypeOK, RequestState
    <3> QED BY <3>1, RowsKeep DEF HasRow
  <2>4. wake' = "due" => clock' > 0  BY DEF MissionMoves
  <2>5. \A r \in Run : HasRow(r)' \/ row'[r] = NoRow
    BY DEF RowsMove, IInv, Known, HasRow, Phases
  <2> QED BY <1>2, <2>1, <2>2, <2>3, <2>4, <2>5 DEF Known, HasRow, AckAfterTerminal
<1> QED BY <1>1, <1>2, <1>3, <1>4, OneStays, SessionsEnd

\* A release that nobody touches, and what was vouched for, stand.
LEMMA ReleaseStands ==
  ASSUME IInv, RowsMove, DriversMove, CmdsCalm, UNCHANGED <<sealed, owed, released>>
  PROVE  Sealed' /\ ReleaseVouches'
<1>1. ASSUME NEW c \in Cmd, cmd'[c].at \in Stages
      PROVE  cmd'[c].at = cmd[c].at /\ cmd'[c].op = cmd[c].op
  BY <1>1 DEF CmdsCalm, Stages
<1>2. ASSUME sealed, Quiesced PROVE Quiesced'
  BY <1>2 DEF CmdsCalm, Quiesced
<1>3. ASSUME sealed, ~owed, NEW r \in Run, ~Driven(r) PROVE ~Driven(r)'
  BY <1>3 DEF DriversMove, Driven
<1>4. Sealed'
  <2>1. ASSUME NEW c \in Cmd, cmd'[c].at \in Stages
        PROVE  /\ cmd'[c].op \in {"suspend", "retirement"}
               /\ sealed' /\ ~owed' /\ released' = "no"
               /\ cmd'[c].at # "settle" => Quiesced'
               /\ cmd'[c].at \in {"sweep", "swept"} => \A r \in Run : ~Driven(r)'
    BY <1>1, <1>2, <1>3, <2>1 DEF IInv, Sealed
  <2>2. ASSUME NEW c \in Cmd, NEW o \in Cmd, cmd'[c].at \in Stages, cmd'[o].at \in Stages
        PROVE  c = o
    BY <1>1, <2>2 DEF IInv, Sealed
  <2>3. released' # "no" => sealed' /\ ~owed'  BY DEF IInv, Sealed
  <2> QED BY <2>1, <2>2, <2>3 DEF Sealed
<1>5. ASSUME released' # "no"
      PROVE  /\ \A r \in Run : ~Driven(r)'
             /\ Quiesced'
             /\ released' = "retirement" => LiveRuns' = {}
  <2>1. sealed /\ ~owed  BY <1>5 DEF IInv, Sealed
  <2>2. Quiesced /\ \A r \in Run : ~Driven(r)
    BY <1>5 DEF IInv, ReleaseVouches, Quiesced
  <2>3. released' = "retirement" => LiveRuns' = {}
    BY <1>5, <2>1, RowsKeep DEF IInv, ReleaseVouches, LiveRuns
  <2> QED BY <1>2, <1>3, <2>1, <2>2, <2>3
<1> QED BY <1>4, <1>5 DEF ReleaseVouches, Quiesced

LEMMA Steady ==
  ASSUME IInv, AllMove, CmdsCalm, Stopped', UNCHANGED <<sealed, owed, released>>
  PROVE  IInv' /\ NetMoves
<1>1. Sealed' /\ ReleaseVouches'  BY ReleaseStands DEF AllMove
<1>2. sealed' \in BOOLEAN /\ owed' \in BOOLEAN /\ released' \in {"no", "suspend", "retirement"}
  BY DEF IInv, TypeOK
<1> QED BY <1>1, <1>2, MovesKeep DEF IInv, AllMove

-----------------------------------------------------------------------------
(* The parts of a step that many actions share *)

\* The driver goes on to a call nobody has answered, with or without a request.
LEMMA DriverGoes ==
  ASSUME IInv, NEW r \in Run, Driven(r),
         NEW at \in {"off", "start", "context", "executor", "admit", "readmit", "redo",
                      "dispatch", "describe", "interrupt", "caught"},
         Goes(r, at)
  PROVE  DriversMove
<1>1. /\ driver[r] \in DriverState
      /\ driver' = [driver EXCEPT ![r] = [driver[r] EXCEPT !.at = at, !.did = FALSE]]
  BY DEF IInv, TypeOK, Goes
<1>2. [driver[r] EXCEPT !.at = at, !.did = FALSE] \in DriverState
  BY <1>1 DEF DriverState
<1>3. driver' \in [Run -> DriverState] /\ \A s \in Run \ {r} : driver'[s] = driver[s]
  BY <1>1, <1>2 DEF IInv, TypeOK
<1>4. driver'[r].at # "close"  BY <1>1 DEF IInv, TypeOK, DriverState
<1> QED BY <1>3, <1>4 DEF DriversMove

\* The driver ends.
LEMMA DriverEnds ==
  ASSUME IInv, NEW r \in Run, Off(r)
  PROVE  DriversMove /\ driver'[r].at = "off" /\ \A s \in Run \ {r} : driver'[s] = driver[s]
BY DEF IInv, TypeOK, Off, DriversMove, DriverState, NoDriver, Driven

\* A driver asks only for runs that are there, and for a dispatch only without a
\* marker.
LEMMA DriverAsks ==
  ASSUME IInv, NEW r \in Run, HasRow(r),
         NEW to \in {"admit", "finish", "dispatch", "interrupt"},
         NEW by \in {"driver", "all"}, to = "dispatch" => r \notin marked,
         net' = net \cup {Request(to, r, by)}
  PROVE  NetMoves
BY DEF IInv, TypeOK, NetMoves, Request, RequestState

\* Whoever else asks, asks for the end of the session of a run that is there.
LEMMA OtherAsks ==
  ASSUME IInv, NEW r \in Run, HasRow(r), NEW by \in Cmd \cup {"report"},
         net' = net \cup {Request("finish", r, by)}
  PROVE  NetMoves
BY DEF IInv, TypeOK, NetMoves, Request, RequestState

\* A row of a run that is not over changes and stays live.
LEMMA RowGoes ==
  ASSUME IInv, NEW r \in Run, Live(r), NEW d \in RowState, d.phase \in Phases,
         row' = [row EXCEPT ![r] = d]
  PROVE  RowsMove
BY DEF IInv, TypeOK, RowsMove, Phases

\* The schedule and the state of the automation stay in their types.
LEMMA Completion ==
  ASSUME IInv, MarkCompleted, UNCHANGED clock
  PROVE  MissionMoves
BY DEF IInv, TypeOK, Known, MarkCompleted, MissionMoves, MissionState

\* A run that is there becomes terminal, with nothing to close or with its session
\* finished, and stays terminal if it was.
LEMMA Terminates ==
  ASSUME IInv, NEW r \in Run, NEW o \in Outcomes, HasRow(r),
         Live(r) /\ row[r].session => session[r] = "finished",
         row' = Terminal(r, o)
  PROVE  RowsMove /\ row'[r].phase = "terminal"
<1>1. CASE Live(r)
  <2>1. row'[r] = [row[r] EXCEPT !.phase = "terminal", !.outcome = o] /\ row[r] \in RowState
    BY <1>1 DEF Terminal, IInv, TypeOK
  <2>2. row'[r] \in RowState /\ row'[r].phase = "terminal" /\ row'[r].session = row[r].session
    BY <2>1 DEF RowState
  <2>3. row' \in [Run -> RowState] /\ \A s \in Run \ {r} : row'[s] = row[s]
    BY <1>1, <2>2 DEF Terminal, IInv, TypeOK
  <2> QED BY <1>1, <2>2, <2>3 DEF RowsMove
<1>2. CASE ~Live(r)
  <2>1. row' = row /\ row[r].phase = "terminal"
    BY <1>2 DEF Terminal, Live, HasRow, IInv, TypeOK, RowState
  <2> QED BY <2>1, Unmoved
<1> QED BY <1>1, <1>2

\* A driver that ended, or that has nothing to do with a marker, is told nothing.
Ending ==
  /\ RowsMove /\ MissionMoves /\ MarksMove /\ BoxMoves /\ marked' \subseteq marked
LEMMA Terminalized ==
  ASSUME IInv, NEW r \in Run, NEW o \in Outcomes, HasRow(r),
         Live(r) /\ row[r].session => session[r] = "finished",
         TerminalizeRun(r, o), UNCHANGED clock
  PROVE  Ending
<1>1. RowsMove /\ row'[r].phase = "terminal"  BY Terminates DEF TerminalizeRun
<1>2. MissionMoves
  <2>1. CASE row[r].rev = mission.rev /\ Complete(mission)
    BY <2>1, Completion DEF TerminalizeRun
  <2>2. CASE ~(row[r].rev = mission.rev /\ Complete(mission))
    BY <2>2, Unmoved DEF TerminalizeRun
  <2> QED BY <2>1, <2>2
<1>3. MarksMove /\ marked' \subseteq marked  BY DEF TerminalizeRun, IInv, TypeOK, MarksMove
<1>4. BoxMoves  BY <1>1 DEF TerminalizeRun, IInv, TypeOK, BoxMoves
<1> QED BY <1>1, <1>2, <1>3, <1>4 DEF Ending

-----------------------------------------------------------------------------
(* The steps of a driver *)

DriverMoves ==
  /\ RowsMove /\ DriversMove /\ NetMoves /\ MissionMoves /\ MarksMove /\ BoxMoves /\ Stopped'

\* What only moves the driver r, and not to where the marker is not looked at.
LEMMA StopsStay ==
  ASSUME IInv, NEW r \in Run, marked' \subseteq marked,
         \A s \in Run \ {r} : driver'[s] = driver[s],
         driver'[r].at \notin {"describe", "redo"} \/ r \notin marked \/ driver'[r].stop
  PROVE  Stopped'
BY DEF IInv, TypeOK, Stopped

\* The end of a run, through the end of its session if it has one.
LEMMA FinishesMoves ==
  ASSUME IInv, NEW r \in Run, NEW o \in Outcomes, Live(r), Driven(r),
         Finishes(r, o), UNCHANGED <<clock, session>>
  PROVE  DriverMoves
<1>1. CASE /\ row[r].session
           /\ driver' = [driver EXCEPT ![r].at = "close", ![r].out = o, ![r].did = FALSE]
           /\ net' = net \cup {Request("finish", r, "driver")}
           /\ UNCHANGED <<row, marked, halted, mission, wake, box>>
  <2>1. driver[r] \in DriverState  BY DEF IInv, TypeOK
  <2>2. [driver[r] EXCEPT !.at = "close", !.out = o, !.did = FALSE] \in DriverState
    BY <2>1 DEF DriverState
  <2>3. driver' = [driver EXCEPT ![r] = [driver[r] EXCEPT !.at = "close", !.out = o, !.did = FALSE]]
    BY <1>1
  <2>4. /\ driver' \in [Run -> DriverState] /\ \A s \in Run \ {r} : driver'[s] = driver[s]
        /\ driver'[r].at = "close" /\ driver'[r].out = o /\ ~driver'[r].did
    BY <2>1, <2>2, <2>3 DEF IInv, TypeOK, DriverState
  <2>5. DriversMove  BY <2>4 DEF DriversMove
  <2>6. NetMoves
    <3>1. HasRow(r)  BY DEF HasRow, Live, Phases
    <3> QED BY <1>1, <3>1, DriverAsks
  <2>7. Stopped'  BY <1>1, <2>4, StopsStay
  <2> QED BY <1>1, <2>5, <2>6, <2>7, Unmoved DEF DriverMoves
<1>2. CASE ~row[r].session /\ Off(r) /\ TerminalizeRun(r, o) /\ UNCHANGED net
  <2>1. HasRow(r)  BY DEF HasRow, Live, Phases
  <2>2. Ending  BY <1>2, <2>1, Terminalized
  <2>3. DriversMove /\ Stopped'  BY <1>2, <2>2, DriverEnds, StopsStay DEF Ending
  <2> QED BY <1>2, <2>2, <2>3, Unmoved DEF DriverMoves, Ending
<1> QED BY <1>1, <1>2 DEF Finishes

\* cancelRun: an interruption first if there is an executor.
LEMMA CancelMoves ==
  ASSUME IInv, NEW r \in Run, Live(r), Driven(r), CancelRun(r), UNCHANGED <<clock, session>>
  PROVE  DriverMoves
<1>1. CASE /\ driver' = [driver EXCEPT ![r].at = "interrupt", ![r].did = halted[r] = "done"]
           /\ halted' = [halted EXCEPT ![r] = IF @ = "none" THEN "sent" ELSE @]
           /\ net' = IF halted[r] = "none" THEN net \cup {Request("interrupt", r, "all")} ELSE net
           /\ UNCHANGED <<row, marked, mission, wake, box>>
  <2>1. driver[r] \in DriverState  BY DEF IInv, TypeOK
  <2>2. [driver[r] EXCEPT !.at = "interrupt", !.did = halted[r] = "done"] \in DriverState
    BY <2>1 DEF DriverState
  <2>3. driver' = [driver EXCEPT ![r] = [driver[r] EXCEPT !.at = "interrupt", !.did = halted[r] = "done"]]
    BY <1>1
  <2>4. /\ driver' \in [Run -> DriverState] /\ \A s \in Run \ {r} : driver'[s] = driver[s]
        /\ driver'[r].at = "interrupt"
    BY <2>1, <2>2, <2>3 DEF IInv, TypeOK, DriverState
  <2>5. DriversMove  BY <2>4 DEF DriversMove
  <2>6. NetMoves
    <3>1. HasRow(r)  BY DEF HasRow, Live, Phases
    <3> QED BY <1>1, <3>1, DriverAsks, Unmoved
  <2>7. Stopped'  BY <1>1, <2>4, StopsStay
  <2>8. MarksMove  BY <1>1 DEF IInv, TypeOK, MarksMove
  <2> QED BY <1>1, <2>5, <2>6, <2>7, <2>8, Unmoved DEF DriverMoves
<1>2. CASE Finishes(r, "cancelled")  BY <1>2, FinishesMoves DEF Outcomes
<1> QED BY <1>1, <1>2 DEF CancelRun

\* A driver whose run is over, and the marker that goes with it.
LEMMA UnlistedMoves ==
  ASSUME IInv, NEW r \in Run, Off(r), marked' \in {marked, marked \ {r}},
         UNCHANGED <<row, halted, net, mission, wake, box, clock>>
  PROVE  DriverMoves
<1>1. MarksMove /\ marked' \subseteq marked  BY DEF IInv, TypeOK, MarksMove
<1>2. DriversMove /\ Stopped'  BY <1>1, DriverEnds, StopsStay
<1> QED BY <1>1, <1>2, Unmoved DEF DriverMoves

\* A driver goes on, its row may move on with it while the run is live, and what
\* it asks for is no dispatch against a marker.
LEMMA GoesMoves ==
  ASSUME IInv, NEW r \in Run, Driven(r), NEW d \in RowState,
         row' = [row EXCEPT ![r] = d], d = row[r] \/ (Live(r) /\ d.phase \in Phases),
         NEW at \in {"off", "start", "context", "executor", "admit", "readmit", "redo",
                      "dispatch", "describe", "interrupt", "caught"},
         NEW to \in {"admit", "dispatch"}, to = "dispatch" => r \notin marked,
         at \in {"describe", "redo"} => r \notin marked \/ driver[r].stop,
         Goes(r, at), net' \in {net, net \cup {Request(to, r, "driver")}},
         UNCHANGED <<marked, halted, mission, wake, box, clock>>
  PROVE  DriverMoves
<1>1. DriversMove  BY DriverGoes
<1>2. RowsMove
  <2>1. CASE d = row[r]
    <3>1. row' = row  BY <2>1 DEF IInv, TypeOK
    <3> QED BY <3>1, Unmoved
  <2>2. CASE Live(r) /\ d.phase \in Phases  BY <2>2, RowGoes
  <2> QED BY <2>1, <2>2
<1>3. NetMoves
  <2>1. HasRow(r)  BY DEF IInv, Known
  <2> QED BY <2>1, DriverAsks, Unmoved
<1>4. Stopped'
  <2>1. driver[r] \in DriverState  BY DEF IInv, TypeOK
  <2>2. /\ driver'[r].at = at /\ driver'[r].stop = driver[r].stop
        /\ \A s \in Run \ {r} : driver'[s] = driver[s]
    BY <2>1 DEF Goes, IInv, TypeOK, DriverState
  <2> QED BY <2>2, StopsStay
<1> QED BY <1>1, <1>2, <1>3, <1>4, Unmoved DEF DriverMoves

\* driveRun takes the run up where its row stands.
LEMMA DriverStartMoves ==
  ASSUME IInv, NEW r \in Run, DriverStart(r), UNCHANGED <<clock, session>>
  PROVE  DriverMoves
<1>1. Driven(r) /\ row[r] \in RowState  BY DEF DriverStart, Driven, IInv, TypeOK
<1>2. CASE Off(r) /\ UNCHANGED <<row, marked, halted, net, mission, wake, box>>
  BY <1>2, UnlistedMoves
<1>3. CASE Live(r) /\ CancelRun(r)  BY <1>1, <1>3, CancelMoves
<1>4. CASE Live(r) /\ Finishes(r, "interrupted")  BY <1>1, <1>4, FinishesMoves DEF Outcomes
<1>5. CASE Live(r) /\ r \notin marked /\ Resumes(r) /\ UNCHANGED <<marked, halted, mission, wake, box>>
  <2>1. CASE Goes(r, "context") /\ row' = [row EXCEPT ![r].phase = "context-preparing"] /\ UNCHANGED net
    <3>1. /\ [row[r] EXCEPT !.phase = "context-preparing"] \in RowState
          /\ [row[r] EXCEPT !.phase = "context-preparing"].phase \in Phases
      BY <1>1 DEF RowState, Phases
    <3>2. row' = [row EXCEPT ![r] = [row[r] EXCEPT !.phase = "context-preparing"]]  BY <2>1
    <3> QED BY <1>1, <1>5, <2>1, <3>1, <3>2, GoesMoves
  <2>2. ASSUME NEW at \in {"executor", "admit", "readmit", "describe"}, Goes(r, at), row' = row,
               net' \in {net, net \cup {Request("admit", r, "driver")}}
        PROVE  DriverMoves
    <3>1. row' = [row EXCEPT ![r] = row[r]]  BY <2>2 DEF IInv, TypeOK
    <3> QED BY <1>1, <1>5, <2>2, <3>1, GoesMoves
  <2> QED BY <1>5, <2>1, <2>2 DEF Resumes, Asks
<1> QED BY <1>2, <1>3, <1>4, <1>5 DEF DriverStart

\* The context, the executor and the session of the run were answered.
LEMMA PreparedMoves ==
  ASSUME IInv, NEW r \in Run, Prepared(r) \/ Targeted(r) \/ Admitted(r), UNCHANGED <<clock, session>>
  PROVE  DriverMoves
<1>1. Driven(r) /\ row[r] \in RowState
  BY DEF Prepared, Targeted, Admitted, Driven, IInv, TypeOK
<1>2. UNCHANGED <<marked, halted, mission, wake, box>>  BY DEF Prepared, Targeted, Admitted
<1>3. CASE Off(r) /\ UNCHANGED <<row, net>>  BY <1>2, <1>3, UnlistedMoves
<1>4. CASE Live(r) /\ Prepared(r) /\ Goes(r, IF r \in marked THEN "caught" ELSE "executor")
  <2>1. /\ [row[r] EXCEPT !.phase = "executor-preparing"] \in RowState
        /\ [row[r] EXCEPT !.phase = "executor-preparing"].phase \in Phases
    BY <1>1 DEF RowState, Phases
  <2>2. row' = [row EXCEPT ![r] = [row[r] EXCEPT !.phase = "executor-preparing"]] /\ UNCHANGED net
    BY <1>4 DEF Prepared
  <2> QED BY <1>1, <1>2, <1>4, <2>1, <2>2, GoesMoves
<1>5. CASE Live(r) /\ Targeted(r)
  <2>1. /\ [row[r] EXCEPT !.phase = "execution-admitting", !.executor = TRUE] \in RowState
        /\ [row[r] EXCEPT !.phase = "execution-admitting", !.executor = TRUE].phase \in Phases
    BY <1>1 DEF RowState, Phases
  <2>2. row' = [row EXCEPT ![r] = [row[r] EXCEPT !.phase = "execution-admitting", !.executor = TRUE]]
    BY <1>5 DEF Targeted
  <2>3. \/ Goes(r, "caught") /\ UNCHANGED net
        \/ Goes(r, "admit") /\ net' = net \cup {Request("admit", r, "driver")}
    BY <1>5 DEF Targeted, Asks
  <2> QED BY <1>1, <1>2, <1>5, <2>1, <2>2, <2>3, GoesMoves
<1>6. CASE Live(r) /\ Admitted(r)
  <2>1. /\ [row[r] EXCEPT !.phase = "dispatching", !.session = TRUE] \in RowState
        /\ [row[r] EXCEPT !.phase = "dispatching", !.session = TRUE].phase \in Phases
    BY <1>1 DEF RowState, Phases
  <2>2. row' = [row EXCEPT ![r] = [row[r] EXCEPT !.phase = "dispatching", !.session = TRUE]]
    BY <1>6 DEF Admitted
  <2>3. \/ Goes(r, "caught") /\ UNCHANGED net
        \/ Goes(r, "readmit") /\ net' = net \cup {Request("admit", r, "driver")}
    BY <1>6 DEF Admitted, Asks
  <2> QED BY <1>1, <1>2, <1>6, <2>1, <2>2, <2>3, GoesMoves
<1> QED BY <1>3, <1>4, <1>5, <1>6 DEF Prepared, Targeted, Admitted

\* The gate before the dispatch: behind "redo" a marker has stopped the driver.
LEMMA ReadmittedMoves ==
  ASSUME IInv, NEW r \in Run, Readmitted(r), UNCHANGED <<clock, session>>
  PROVE  DriverMoves
<1>1. Driven(r) /\ row[r] \in RowState  BY DEF Readmitted, Driven, IInv, TypeOK
<1> DEFINE d == [row[r] EXCEPT !.session = @ \/ Live(r)]
<1>2. d \in RowState /\ d.phase = row[r].phase /\ (~Live(r) => d = row[r])
  <2>1. row[r].session \in BOOLEAN /\ Live(r) \in BOOLEAN  BY <1>1 DEF RowState, Live
  <2> QED BY <1>1, <2>1 DEF RowState
<1>3. row' = [row EXCEPT ![r] = d]  BY DEF Readmitted
<1>4. d = row[r] \/ (Live(r) /\ d.phase \in Phases)  BY <1>2 DEF Live
<1>5. Gate(r) => r \notin marked
  BY DEF Gate, Readmitted, IInv, Stopped
<1>6. \/ Goes(r, "caught") /\ UNCHANGED net
      \/ r \notin marked /\ Goes(r, "dispatch") /\ net' = net \cup {Request("dispatch", r, "driver")}
  BY <1>5 DEF Readmitted, Asks
<1> HIDE DEF d
<1>7. UNCHANGED <<marked, halted, mission, wake, box>>  BY DEF Readmitted
<1> QED BY <1>1, <1>2, <1>3, <1>4, <1>6, <1>7, GoesMoves

\* The agent took the dispatch.
LEMMA DispatchedMoves ==
  ASSUME IInv, NEW r \in Run, Dispatched(r), UNCHANGED <<clock, session>>
  PROVE  DriverMoves
<1>1. Driven(r) /\ row[r] \in RowState  BY DEF Dispatched, Driven, IInv, TypeOK
<1> DEFINE d == IF Live(r) THEN [row[r] EXCEPT !.phase = "executing"] ELSE row[r]
<1>2. d \in RowState /\ (d = row[r] \/ (Live(r) /\ d.phase \in Phases))
  BY <1>1 DEF RowState, Phases
<1>3. row' = [row EXCEPT ![r] = d]  BY DEF Dispatched, IInv, TypeOK
<1> HIDE DEF d
<1>4. UNCHANGED <<marked, halted, net, mission, wake, box>>  BY DEF Dispatched
<1>5. CASE Goes(r, "caught")  BY <1>1, <1>2, <1>3, <1>4, <1>5, GoesMoves
<1>6. CASE Off(r)
  <2>1. RowsMove
    <3>1. CASE d = row[r]
      <4>1. row' = row  BY <1>3, <3>1 DEF IInv, TypeOK
      <4> QED BY <4>1, Unmoved
    <3>2. CASE Live(r) /\ d.phase \in Phases  BY <1>2, <1>3, <3>2, RowGoes
    <3> QED BY <1>2, <3>1, <3>2
  <2>2. DriversMove /\ Stopped'  BY <1>4, <1>6, DriverEnds, StopsStay
  <2> QED BY <1>4, <2>1, <2>2, Unmoved DEF DriverMoves
<1> QED BY <1>5, <1>6 DEF Dispatched

\* A driver that changes in place, short of the end of a session.
LEMMA InPlaceMoves ==
  ASSUME IInv, NEW r \in Run, Driven(r), NEW d \in DriverState, d.at # "close",
         d.at \in {"describe", "redo"} => d.at = driver[r].at /\ d.stop = driver[r].stop,
         driver' = [driver EXCEPT ![r] = d],
         UNCHANGED <<row, marked, halted, net, mission, wake, box, clock>>
  PROVE  DriverMoves
<1>1. driver' \in [Run -> DriverState] /\ driver'[r] = d /\ \A s \in Run \ {r} : driver'[s] = driver[s]
  BY DEF IInv, TypeOK
<1>2. DriversMove  BY <1>1 DEF DriversMove
<1>3. Stopped'
  <2>1. d.at \notin {"describe", "redo"} \/ r \notin marked \/ d.stop
    BY DEF IInv, Stopped
  <2> QED BY <1>1, <2>1, StopsStay
<1> QED BY <1>2, <1>3, Unmoved DEF DriverMoves

\* The agent is asked how the run stands; a call is refused, lost or aborted.
LEMMA DescribeMoves ==
  ASSUME IInv, NEW r \in Run, Describe(r), UNCHANGED <<clock, session>>
  PROVE  DriverMoves
<1> DEFINE o == IF agent[r] = "none" \/ r \in acked THEN "not-found" ELSE agent[r]
           d == [driver[r] EXCEPT !.did = TRUE, !.out = o]
<1>1. driver[r] \in DriverState /\ Driven(r)  BY DEF Describe, IInv, TypeOK, Driven
<1>2. o \in Outcomes \cup {"none", "running", "not-found", "automatic", "permanent"}
  BY DEF IInv, TypeOK, Outcomes
<1>3. d \in DriverState /\ d.at = driver[r].at /\ d.stop = driver[r].stop
  BY <1>1, <1>2 DEF DriverState
<1>4. driver' = [driver EXCEPT ![r] = d]  BY DEF Describe
<1>5. d.at # "close" /\ UNCHANGED <<row, marked, halted, net, mission, wake, box>>
  BY <1>3 DEF Describe
<1> HIDE DEF d
<1> QED BY <1>1, <1>3, <1>4, <1>5, InPlaceMoves

LEMMA RejectsMoves ==
  ASSUME IInv, NEW r \in Run, Rejects(r), UNCHANGED <<clock, session>>
  PROVE  DriverMoves
<1>1. driver[r] \in DriverState /\ Driven(r)  BY DEF Rejects, IInv, TypeOK, Driven
<1>2. PICK retry \in {"automatic", "permanent"} :
        driver' = [driver EXCEPT ![r].at = "caught", ![r].out = retry]
  BY DEF Rejects
<1> DEFINE d == [driver[r] EXCEPT !.at = "caught", !.out = retry]
<1>3. d \in DriverState /\ d.at = "caught"  BY <1>1 DEF DriverState
<1>4. driver' = [driver EXCEPT ![r] = d]  BY <1>2
<1>5. UNCHANGED <<row, marked, halted, net, mission, wake, box>>  BY DEF Rejects
<1> HIDE DEF d
<1> QED BY <1>1, <1>3, <1>4, <1>5, InPlaceMoves

\* reconcileAgentExecution: a run that was not found is dispatched again.
LEMMA DescribedMoves ==
  ASSUME IInv, NEW r \in Run, Described(r), UNCHANGED <<clock, session>>
  PROVE  DriverMoves
<1>1. Driven(r) /\ row[r] \in RowState  BY DEF Described, Driven, IInv, TypeOK
<1>2. CASE Off(r) /\ UNCHANGED <<row, marked, halted, net, mission, wake, box>>
  BY <1>2, UnlistedMoves
<1>3. CASE /\ Asks(r, "redo", "admit")
           /\ row' = IF Live(r) THEN [row EXCEPT ![r].phase = "dispatching"] ELSE row
           /\ UNCHANGED <<marked, halted, mission, wake, box>>
  <2> DEFINE d == IF Live(r) THEN [row[r] EXCEPT !.phase = "dispatching"] ELSE row[r]
  <2>1. d \in RowState /\ (d = row[r] \/ (Live(r) /\ d.phase \in Phases))
    BY <1>1 DEF RowState, Phases
  <2>2. row' = [row EXCEPT ![r] = d]  BY <1>3 DEF IInv, TypeOK
  <2>3. r \notin marked \/ driver[r].stop  BY DEF Described, IInv, Stopped
  <2> HIDE DEF d
  <2> QED BY <1>1, <1>3, <2>1, <2>2, <2>3, GoesMoves DEF Asks
<1>4. CASE driver[r].out \in Reported /\ Finishes(r, driver[r].out)
  <2>1. CASE Live(r)  BY <1>1, <1>4, <2>1, FinishesMoves DEF Outcomes
  <2>2. CASE ~Live(r) /\ row[r].session
    <3>1. /\ driver' = [driver EXCEPT ![r].at = "close", ![r].out = driver[r].out, ![r].did = FALSE]
          /\ net' = net \cup {Request("finish", r, "driver")}
          /\ UNCHANGED <<row, marked, halted, mission, wake, box>>
      BY <1>4, <2>2 DEF Finishes
    <3>2. driver[r] \in DriverState  BY DEF IInv, TypeOK
    <3> DEFINE d == [driver[r] EXCEPT !.at = "close", !.did = FALSE]
    <3>3. d \in DriverState /\ d.at = "close" /\ d.out \in Outcomes /\ ~d.did
      BY <1>4, <3>2 DEF DriverState, Outcomes
    <3>4. driver' = [driver EXCEPT ![r] = d]  BY <3>1, <3>2 DEF DriverState
    <3> HIDE DEF d
    <3>5. /\ driver' \in [Run -> DriverState] /\ driver'[r] = d
          /\ \A s \in Run \ {r} : driver'[s] = driver[s]
      BY <3>3, <3>4 DEF IInv, TypeOK
    <3>6. DriversMove  BY <1>1, <3>3, <3>5 DEF DriversMove
    <3>7. Stopped'  BY <3>1, <3>3, <3>5, StopsStay
    <3>8. NetMoves  BY <1>1, <3>1, DriverAsks DEF IInv, Known
    <3> QED BY <3>1, <3>6, <3>7, <3>8, Unmoved DEF DriverMoves
  <2>3. CASE ~Live(r) /\ ~row[r].session
    <3>1. Off(r) /\ TerminalizeRun(r, driver[r].out) /\ UNCHANGED net
      BY <1>4, <2>3 DEF Finishes
    <3>2. Ending  BY <1>1, <1>4, <2>3, <3>1, Terminalized DEF Outcomes, IInv, Known
    <3>3. DriversMove /\ Stopped'  BY <3>1, <3>2, DriverEnds, StopsStay DEF Ending
    <3> QED BY <3>1, <3>2, <3>3, Unmoved DEF DriverMoves, Ending
  <2> QED BY <2>1, <2>2, <2>3
<1> QED BY <1>2, <1>3, <1>4 DEF Described

\* The interruption or the end of the session was answered.
LEMMA ClosedMoves ==
  ASSUME IInv, NEW r \in Run, Interrupted(r) \/ Closed(r), UNCHANGED <<clock, session>>
  PROVE  DriverMoves
<1>1. Driven(r) /\ HasRow(r)  BY DEF Interrupted, Closed, Driven, IInv, Known
<1>2. CASE Unlisted(r)  BY <1>2, UnlistedMoves DEF Unlisted
<1>3. CASE Live(r) /\ Finishes(r, "cancelled")  BY <1>1, <1>3, FinishesMoves DEF Outcomes
<1>4. CASE Closed(r)
  <2>1. driver[r].out \in Outcomes /\ session[r] = "finished"
    BY <1>4 DEF Closed, IInv, Sessions
  <2>2. Ending  BY <1>1, <1>4, <2>1, Terminalized DEF Closed
  <2>3. DriversMove /\ Stopped'  BY <1>4, <2>2, DriverEnds, StopsStay DEF Ending, Closed
  <2> QED BY <1>4, <2>2, <2>3, Unmoved DEF DriverMoves, Ending, Closed
<1> QED BY <1>2, <1>3, <1>4 DEF Interrupted

\* Those who wait for a driver that fails give up.
LEMMA RejectedMoves ==
  ASSUME IInv, NEW r \in Run, NEW stages, Rejected(r, stages)
  PROVE  CmdsMove /\ CmdsCalm
<1>1. Idle \in CmdState
  BY HomeAssumption DEF Idle, CmdState
<1>2. \A c \in Cmd : cmd'[c] \in {Idle, cmd[c]}  BY DEF Rejected
<1>3. cmd' \in [Cmd -> CmdState]  BY <1>1, <1>2 DEF Rejected, IInv, TypeOK
<1> QED BY <1>2, <1>3 DEF CmdsMove, CmdsCalm, Idle, Named, Stages

\* The catch of driveRun.
LEMMA CaughtMoves ==
  ASSUME IInv, NEW r \in Run, Caught(r), UNCHANGED <<clock, session>>
  PROVE  DriverMoves /\ CmdsMove /\ CmdsCalm
<1>1. Driven(r)  BY DEF Caught, Driven
<1>2. CASE Unlisted(r) /\ UNCHANGED cmd  BY <1>2, UnlistedMoves, Unmoved DEF Unlisted
<1>3. CASE Live(r) /\ CancelRun(r) /\ UNCHANGED cmd  BY <1>1, <1>3, CancelMoves, Unmoved
<1>4. CASE /\ Off(r) /\ Rejected(r, {"drivers"})
           /\ UNCHANGED <<row, marked, halted, net, mission, wake, box>>
  BY <1>4, UnlistedMoves, RejectedMoves
<1>5. CASE Live(r) /\ Finishes(r, "failed") /\ UNCHANGED cmd
  BY <1>1, <1>5, FinishesMoves, Unmoved DEF Outcomes
<1> QED BY <1>2, <1>3, <1>4, <1>5 DEF Caught

\* The catch itself fails, or the interruption all wait for.
LEMMA FailsMoves ==
  ASSUME IInv, NEW r \in Run, CatchFails(r) \/ InterruptFails(r), UNCHANGED <<clock, session>>
  PROVE  DriverMoves /\ CmdsMove /\ CmdsCalm
<1>1. CASE CatchFails(r)
  BY <1>1, UnlistedMoves, RejectedMoves DEF CatchFails
<1>2. CASE InterruptFails(r)
  <2>1. CmdsMove /\ CmdsCalm  BY <1>2, RejectedMoves DEF InterruptFails
  <2>2. MarksMove  BY <1>2 DEF InterruptFails, IInv, TypeOK, MarksMove
  <2>3. /\ driver' \in [Run -> DriverState] /\ driver'[r] \in {NoDriver, driver[r]}
        /\ \A s \in Run \ {r} : driver'[s] = driver[s]
    BY <1>2 DEF InterruptFails, IInv, TypeOK, NoDriver, DriverState
  <2>4. DriversMove  BY <2>3 DEF DriversMove, NoDriver
  <2>5. Stopped'  BY <1>2, <2>3 DEF InterruptFails, IInv, TypeOK, Stopped, NoDriver
  <2> QED BY <1>2, <2>1, <2>2, <2>4, <2>5, Unmoved DEF DriverMoves, InterruptFails
<1> QED BY <1>1, <1>2

\* Every step of a driver keeps the invariant.
LEMMA DriverStepKeeps ==
  ASSUME IInv, NEW r \in Run, DriverStep(r)
  PROVE  IInv' /\ NetMoves
<1>1. UNCHANGED <<sealed, released, owed, session, agent, acked, report, clock>>
  BY DEF DriverStep
<1>2. DriverMoves /\ CmdsMove /\ CmdsCalm
  <2>1. CASE Drives(r)
    BY <1>1, <2>1, DriverStartMoves, PreparedMoves, ReadmittedMoves, DispatchedMoves,
       DescribeMoves, DescribedMoves, ClosedMoves, CaughtMoves, Unmoved DEF Drives
  <2>2. CASE Rejects(r)  BY <1>1, <2>2, RejectsMoves, Unmoved DEF Rejects
  <2>3. CASE CatchFails(r) \/ InterruptFails(r)  BY <1>1, <2>3, FailsMoves
  <2> QED BY <2>1, <2>2, <2>3 DEF DriverStep
<1>3. BoundsMove
  <2>1. CASE UNCHANGED spent  BY <2>1, Unmoved
  <2>2. CASE Fails
    BY <2>2, BoundAssumption DEF Fails, Asked, IInv, TypeOK, BoundsMove
  <2> QED BY <2>1, <2>2 DEF DriverStep, Rejects, CatchFails, InterruptFails
<1> QED BY <1>1, <1>2, <1>3, Unmoved, Steady DEF DriverMoves, AllMove

-----------------------------------------------------------------------------
(* The steps of an admission *)

\* One command goes on.
LEMMA CmdGoes ==
  ASSUME IInv, NEW c \in Cmd, NEW d \in CmdState, cmd' = [cmd EXCEPT ![c] = d],
         \/ d.at \notin Named
         \/ /\ d.run \in Run
            /\ d.at \in Rooted => row'[d.run].phase # "none"
            /\ d.at \in {"closing", "swept"} => ~d.did
  PROVE  /\ CmdsMove
         /\ d.at \notin Stages \cup {"own", "name"} \/ (d.at \in {"own", "name"} /\ ~sealed)
              => CmdsCalm
<1>1. cmd' \in [Cmd -> CmdState] /\ cmd'[c] = d /\ \A o \in Cmd \ {c} : cmd'[o] = cmd[o]
  BY DEF IInv, TypeOK
<1> QED BY <1>1 DEF CmdsMove, CmdsCalm

\* A command ends, or waits for its next answer.
LEMMA CmdEnds ==
  ASSUME IInv, NEW c \in Cmd, Ends(c)
  PROVE  CmdsMove /\ CmdsCalm
<1>1. Idle \in CmdState /\ Idle.at = "idle"  BY HomeAssumption DEF Idle, CmdState
<1> QED BY <1>1, CmdGoes DEF Ends, Named, Stages

LEMMA CmdMoves ==
  ASSUME IInv, NEW c \in Cmd,
         NEW at \in {"own", "name", "drive", "again", "await", "halt", "drivers", "sweep"},
         Moves(c, at),
         at \in Named => cmd[c].run \in Run,
         at \in Rooted => row'[cmd[c].run].phase # "none",
         at \in {"own", "name"} => ~sealed
  PROVE  CmdsMove /\ (at \notin Stages => CmdsCalm)
<1> DEFINE d == [cmd[c] EXCEPT !.at = at, !.did = FALSE]
<1>1. cmd[c] \in CmdState  BY DEF IInv, TypeOK
<1>2. d \in CmdState /\ d.at = at /\ ~d.did /\ d.run = cmd[c].run  BY <1>1 DEF CmdState
<1>3. cmd' = [cmd EXCEPT ![c] = d]  BY DEF Moves
<1> HIDE DEF d
<1> QED BY <1>2, <1>3, CmdGoes

\* A command begins with the automation as it reads it.
LEMMA CmdBegins ==
  ASSUME IInv, NEW c \in Cmd, NEW r \in Run,
         NEW op \in {"run", "alarm", "cancel"}, NEW at \in {"authority", "join", "again"},
         Begins(c, op, at, r), at # "authority" => row'[r].phase # "none"
  PROVE  CmdsMove /\ CmdsCalm
<1> DEFINE d == [at |-> at, op |-> op, run |-> r, to |-> Home, m |-> Read, did |-> FALSE]
<1>1. Read \in [rev : Nat, digest : Digest, count : Nat]
  BY DEF Read, IInv, TypeOK, MissionState
<1>2. d \in CmdState  BY <1>1, HomeAssumption DEF CmdState
<1>3. cmd' = [cmd EXCEPT ![c] = d]  BY DEF Begins
<1>4. d.at = at /\ d.run = r  OBVIOUS
<1> HIDE DEF d
<1> QED BY <1>2, <1>3, <1>4, CmdGoes DEF Named, Rooted, Stages

\* The seal rejects an admission, and perhaps the release that waits for it.
LEMMA UnsettledMoves ==
  ASSUME IInv, NEW c \in Cmd, Unsettled(c)
  PROVE  CmdsMove /\ CmdsCalm
<1>1. CASE Ends(c)  BY <1>1, CmdEnds
<1>2. CASE cmd' = [o \in Cmd |-> IF o = c \/ At(o, "settle") THEN Idle ELSE cmd[o]]
  <2>1. Idle \in CmdState /\ Idle.at = "idle"  BY HomeAssumption DEF Idle, CmdState
  <2>2. cmd' \in [Cmd -> CmdState] /\ \A o \in Cmd : cmd'[o] \in {Idle, cmd[o]}
    BY <1>2, <2>1 DEF IInv, TypeOK
  <2> QED BY <2>1, <2>2 DEF CmdsMove, CmdsCalm, Named, Stages
<1> QED BY <1>1, <1>2 DEF Unsettled

AdmissionMoves ==
  /\ RowsMove /\ DriversMove /\ CmdsMove /\ CmdsCalm /\ MissionMoves

\* A manual run and an occurrence name a run of the digest that was read.
LEMMA BeginsMoves ==
  ASSUME IInv, NEW c \in Cmd, Alarm(c) \/ \E k \in Manual : RunNow(c, k)
  PROVE  AdmissionMoves
<1>1. mission.digest \in Digest  BY DEF IInv, TypeOK, MissionState
<1>2. CASE Alarm(c)
  <2>1. clock \in 1..MaxTick
    BY <1>2, BoundAssumption DEF Alarm, IInv, TypeOK, Known
  <2>2. <<mission.digest, clock>> \in Run  BY <1>1, <2>1 DEF Run
  <2> QED BY <1>2, <2>2, CmdBegins, Unmoved DEF Alarm, AdmissionMoves, durable
<1>3. ASSUME NEW k \in Manual, RunNow(c, k) PROVE AdmissionMoves
  <2>1. <<mission.digest, k>> \in Run  BY <1>1 DEF Run
  <2> QED BY <1>3, <2>1, CmdBegins, Unmoved DEF RunNow, AdmissionMoves, durable
<1> QED BY <1>2, <1>3

\* ensureAuthority was answered, or admitRun looks at the seal and the limit.
LEMMA AuthorizedMoves ==
  ASSUME IInv, NEW c \in Cmd, Authorized(c) \/ Completes(c) \/ Own(c)
  PROVE  AdmissionMoves
<1>1. UNCHANGED <<row, driver, clock>>  BY DEF Authorized, Completes, Own
<1>2. CmdsMove /\ CmdsCalm
  <2>1. At(c, "authority") \/ At(c, "own") => cmd[c].run \in Run
    BY DEF At, IInv, Known, Named
  <2>2. CASE Ends(c)  BY <2>2, CmdEnds
  <2>3. CASE ~sealed /\ At(c, "authority") /\ Moves(c, "own")
    BY <2>1, <2>3, CmdMoves DEF Rooted, Stages
  <2>4. CASE ~sealed /\ At(c, "own") /\ Moves(c, "name")
    BY <2>1, <2>4, CmdMoves DEF Rooted, Stages
  <2>5. CASE Unsettled(c)  BY <2>5, UnsettledMoves
  <2> QED BY <2>2, <2>3, <2>4, <2>5 DEF Authorized, Completes, Own
<1>3. MissionMoves
  <2>1. CASE UNCHANGED <<mission, wake>>  BY <1>1, <2>1, Unmoved
  <2>2. CASE MarkCompleted  BY <1>1, <2>2, Completion
  <2>3. CASE mission' = mission /\ wake' = Next_run_at(cmd[c].m.count)
    BY <1>1, <2>3 DEF MissionMoves, Next_run_at, IInv, TypeOK
  <2> QED BY <2>1, <2>2, <2>3 DEF Authorized, Completes, Own
<1> QED BY <1>1, <1>2, <1>3, Unmoved DEF AdmissionMoves

\* A run gets its row: live only if no other one is.
LEMMA AdmitRunMoves ==
  ASSUME IInv, NEW c \in Cmd, AdmitRun(c)
  PROVE  AdmissionMoves
<1> DEFINE r == cmd[c].run
           n == cmd[c].m.count + 1
           New(p, o) == [NoRow EXCEPT !.phase = p, !.outcome = o, !.rev = cmd[c].m.rev]
<1>1. r \in Run  BY DEF AdmitRun, At, IInv, Known, Named
<1>2. cmd[c].m.rev \in Nat /\ n \in Nat /\ n - 1 \in Nat  BY DEF IInv, TypeOK, CmdState
<1>3. UNCHANGED <<driver, clock>>  BY DEF AdmitRun
<1>4. ASSUME NEW k \in Nat, Advances(c, k), mission' \in MissionState PROVE MissionMoves
  BY <1>3, <1>4 DEF Advances, Next_run_at, MissionMoves, IInv, TypeOK, Known
<1>5. ASSUME NEW p \in {"admitted", "terminal"}, NEW o \in {"none", "skipped"},
             row[r] = NoRow, row' = [row EXCEPT ![r] = New(p, o)],
             p = "admitted" => ~sealed /\ ~HasActiveRun
      PROVE  RowsMove /\ row'[r].phase # "none"
  <2>1. New(p, o) \in RowState /\ ~New(p, o).session /\ New(p, o).phase = p
    BY <1>2 DEF RowState, NoRow, Phases, Outcomes
  <2> HIDE DEF New
  <2>2. /\ row' \in [Run -> RowState] /\ row'[r] = New(p, o)
        /\ \A s \in Run \ {r} : row'[s] = row[s]
    BY <1>1, <1>5, <2>1 DEF IInv, TypeOK
  <2> QED BY <1>1, <1>5, <2>1, <2>2 DEF RowsMove, HasActiveRun
<1>6. CASE sealed /\ Unsettled(c) /\ UNCHANGED <<row, mission, wake>>
  BY <1>3, <1>6, UnsettledMoves, Unmoved DEF AdmissionMoves
<1>7. CASE row[r] # NoRow /\ Moves(c, "drive") /\ UNCHANGED <<row, mission, wake>>
  <2>1. row'[r].phase # "none"  BY <1>1, <1>7 DEF IInv, Known, HasRow
  <2>2. CmdsMove /\ CmdsCalm  BY <1>1, <1>7, <2>1, CmdMoves DEF Stages
  <2> QED BY <1>3, <1>7, <2>2, Unmoved DEF AdmissionMoves
<1>8. CASE Ends(c) /\ UNCHANGED <<row, mission, wake>>
  BY <1>3, <1>8, CmdEnds, Unmoved DEF AdmissionMoves
<1>9. CASE /\ row[r] = NoRow /\ row' = [row EXCEPT ![r] = New("terminal", "skipped")]
           /\ Advances(c, n - 1) /\ Ends(c) /\ UNCHANGED mission
  <2>1. RowsMove  BY <1>5, <1>9
  <2>2. MissionMoves  BY <1>2, <1>4, <1>9 DEF IInv, TypeOK
  <2> QED BY <1>3, <1>9, <2>1, <2>2, CmdEnds, Unmoved DEF AdmissionMoves
<1>10. CASE /\ ~sealed /\ row[r] = NoRow /\ ~HasActiveRun
            /\ row' = [row EXCEPT ![r] = New("admitted", "none")] /\ Advances(c, n)
            /\ mission' = [mission EXCEPT !.count = n]
            /\ Moves(c, "drive")
  <2>1. RowsMove /\ row'[r].phase # "none"  BY <1>5, <1>10
  <2>2. mission' \in MissionState  BY <1>2, <1>10 DEF IInv, TypeOK, MissionState
  <2>3. MissionMoves  BY <1>2, <1>4, <1>10, <2>2
  <2>4. CmdsMove /\ CmdsCalm  BY <1>1, <1>10, <2>1, CmdMoves DEF Stages
  <2> QED BY <1>3, <2>1, <2>3, <2>4, Unmoved DEF AdmissionMoves
<1> QED BY <1>6, <1>7, <1>8, <1>9, <1>10 DEF AdmitRun

\* A driver starts for a run that is there and has none.
LEMMA StartsMoves ==
  ASSUME IInv, NEW r \in Run, HasRow(r), ~sealed, Starts(r), UNCHANGED marked
  PROVE  DriversMove /\ Stopped'
<1> DEFINE d == [NoDriver EXCEPT !.at = "start"]
<1>1. d \in DriverState /\ d.at = "start"  BY DEF NoDriver, DriverState
<1>2. driver' = [driver EXCEPT ![r] = d]  BY DEF Starts
<1> HIDE DEF d
<1>3. /\ driver' \in [Run -> DriverState] /\ driver'[r] = d
      /\ \A s \in Run \ {r} : driver'[s] = driver[s]
  BY <1>1, <1>2 DEF IInv, TypeOK
<1> QED BY <1>1, <1>3, StopsStay DEF DriversMove

\* advanceRun: a driver of its own, unless the activation is sealed.
LEMMA AdvanceRunMoves ==
  ASSUME IInv, NEW c \in Cmd, AdvanceRun(c)
  PROVE  AdmissionMoves /\ Stopped'
<1>1. cmd[c].run \in Run /\ HasRow(cmd[c].run)
  BY DEF AdvanceRun, At, IInv, Known, Named, Rooted
<1>2. UNCHANGED <<durable, clock>>  BY DEF AdvanceRun
<1>3. DriversMove /\ Stopped'
  <2>1. CASE UNCHANGED driver  BY <1>2, <2>1, Unmoved DEF durable
  <2>2. CASE ~sealed /\ Starts(cmd[c].run)  BY <1>1, <1>2, <2>2, StartsMoves DEF durable
  <2> QED BY <2>1, <2>2 DEF AdvanceRun
<1>4. CmdsMove /\ CmdsCalm
  <2>1. row'[cmd[c].run].phase # "none"  BY <1>1, <1>2 DEF durable, HasRow
  <2>2. CASE Moves(c, "await")  BY <1>1, <2>1, <2>2, CmdMoves DEF Stages
  <2>3. CASE Ends(c)  BY <2>3, CmdEnds
  <2> QED BY <2>2, <2>3 DEF AdvanceRun
<1> QED BY <1>2, <1>3, <1>4, Unmoved DEF AdmissionMoves, durable

\* Every step of an admission, the beginning of a manual run included, keeps the
\* invariant.
LEMMA AdmissionKeeps ==
  ASSUME IInv, NEW c \in Cmd, Admission(c)
  PROVE  IInv' /\ NetMoves
<1>1. /\ AdmissionMoves /\ Stopped'
      /\ UNCHANGED <<marked, box, halted, sealed, net, failed>>
  <2>1. CASE AdvanceRun(c)  BY <2>1, AdvanceRunMoves DEF AdvanceRun, durable
  <2>2. CASE Alarm(c)
    BY <2>2, BeginsMoves, Unmoved DEF Alarm, durable
  <2>3. CASE Authorized(c) \/ Completes(c) \/ Own(c)
    BY <2>3, AuthorizedMoves, Unmoved DEF Authorized, Completes, Own
  <2>4. CASE AdmitRun(c)
    BY <2>4, AdmitRunMoves, Unmoved DEF AdmitRun
  <2> QED BY <2>1, <2>2, <2>3, <2>4 DEF Admission
<1>2. UNCHANGED <<asks, released, owed, session, agent, acked, report>>  BY DEF Admission
<1> QED BY <1>1, <1>2, Unmoved, Steady DEF AdmissionMoves, AllMove, spent

-----------------------------------------------------------------------------
(* The owner's commands *)

\* Drivers hear of a stop; only a flag is set.
LEMMA StopsMoves ==
  ASSUME IInv, NEW R \in SUBSET Run, Stops(R)
  PROVE  /\ DriversMove
         /\ \A r \in Run : driver'[r].at = driver[r].at
         /\ \A r \in Run : driver[r].stop => driver'[r].stop
         /\ \A r \in R : Driven(r) => driver'[r].stop
<1> DEFINE d(r) == [driver[r] EXCEPT !.stop = @ \/ (r \in R /\ Driven(r))]
<1>1. ASSUME NEW r \in Run
      PROVE  /\ d(r) \in DriverState
             /\ d(r).at = driver[r].at /\ d(r).out = driver[r].out /\ d(r).did = driver[r].did
             /\ driver[r].stop => d(r).stop
             /\ r \in R /\ Driven(r) => d(r).stop
  <2>1. driver[r] \in DriverState  BY DEF IInv, TypeOK
  <2>2. driver[r].stop \in BOOLEAN /\ Driven(r) \in BOOLEAN  BY <2>1 DEF DriverState, Driven
  <2> DEFINE b == driver[r].stop \/ (r \in R /\ Driven(r))
  <2>3. b \in BOOLEAN /\ d(r) = [driver[r] EXCEPT !.stop = b]  BY <2>1 DEF DriverState
  <2>4. (driver[r].stop => b) /\ (r \in R /\ Driven(r) => b)  OBVIOUS
  <2> HIDE DEF b, d
  <2> QED BY <2>1, <2>3, <2>4 DEF DriverState
<1>2. driver' = [r \in Run |-> d(r)]  BY DEF Stops
<1> HIDE DEF d
<1>3. driver' \in [Run -> DriverState] /\ \A r \in Run : driver'[r] = d(r)  BY <1>1, <1>2
<1> QED BY <1>1, <1>3 DEF DriversMove

CommandMoves ==
  /\ RowsMove /\ DriversMove /\ CmdsMove /\ CmdsCalm /\ NetMoves /\ MissionMoves
  /\ MarksMove /\ BoxMoves /\ Stopped'

\* cancel: the markers are durable and every driver they stand for is stopped.
LEMMA CancelCommand ==
  ASSUME IInv, NEW c \in Cmd, Cancel(c)
  PROVE  CommandMoves
<1>1. UNCHANGED <<row, box, net, halted, sealed, clock, failed>>  BY DEF Cancel, Quiet
<1>2. MissionMoves
  <2>1. CASE UNCHANGED <<mission, wake>>  BY <1>1, <2>1, Unmoved
  <2>2. CASE mission' = [mission EXCEPT !.state = "paused"] /\ wake' = "none"
    BY <1>1, <2>2 DEF IInv, TypeOK, MissionState, MissionMoves
  <2> QED BY <2>1, <2>2 DEF Cancel
<1>3. LiveRuns \in SUBSET Run  BY DEF LiveRuns
<1>4. marked' = marked \cup LiveRuns /\ Stops(LiveRuns)  BY DEF Cancel
<1>5. MarksMove  BY <1>1, <1>3, <1>4 DEF IInv, TypeOK, MarksMove
<1>6. DriversMove /\ Stopped'
  <2>1. ASSUME NEW r \in Run, r \in marked', driver'[r].at \in {"describe", "redo"}
        PROVE  driver'[r].stop
    <3>1. driver[r].at \in {"describe", "redo"}  BY <1>3, <1>4, <2>1, StopsMoves
    <3>2. Driven(r)  BY <3>1 DEF Driven
    <3> QED BY <1>3, <1>4, <2>1, <3>1, <3>2, StopsMoves DEF IInv, Stopped
  <2>2. marked' \subseteq Run  BY <1>5 DEF MarksMove
  <2> QED BY <1>3, <1>4, <2>1, <2>2, StopsMoves DEF Stopped
<1>7. CmdsMove /\ CmdsCalm
  <2>1. CASE UNCHANGED cmd  BY <2>1, Unmoved
  <2>2. ASSUME NEW r \in LiveRuns, Begins(c, "cancel", IF Driven(r) THEN "join" ELSE "again", r)
        PROVE  CmdsMove /\ CmdsCalm
    <3>1. r \in Run /\ row'[r].phase # "none"  BY <1>1 DEF LiveRuns, Live, Phases
    <3>2. CASE Driven(r)  BY <2>2, <3>1, <3>2, CmdBegins
    <3>3. CASE ~Driven(r)  BY <2>2, <3>1, <3>3, CmdBegins
    <3> QED BY <3>2, <3>3
  <2> QED BY <2>1, <2>2 DEF Cancel
<1> QED BY <1>1, <1>2, <1>5, <1>6, <1>7, Unmoved DEF CommandMoves

\* What cancel waits for.
LEMMA JoinedMoves ==
  ASSUME IInv, NEW c \in Cmd, Joined(c) \/ Again(c) \/ Awaited(c)
  PROVE  CommandMoves
<1> DEFINE r == cmd[c].run
<1>1. r \in Run /\ HasRow(r)
  BY DEF Joined, Again, Awaited, At, IInv, Known, Named, Rooted
<1>2. UNCHANGED <<mission, wake, row, box, net, halted, sealed, clock, failed>>
  BY DEF Joined, Again, Awaited, Quiet, durable
<1>3. CmdsMove /\ CmdsCalm
  <2>1. row'[r].phase # "none"  BY <1>1, <1>2 DEF HasRow
  <2>2. CASE Ends(c)  BY <2>2, CmdEnds
  <2>3. CASE Moves(c, "again")  BY <1>1, <2>1, <2>3, CmdMoves DEF Stages
  <2>4. CASE Moves(c, "await")  BY <1>1, <2>1, <2>4, CmdMoves DEF Stages
  <2> QED BY <2>2, <2>3, <2>4 DEF Joined, Again, Awaited
<1>4. MarksMove /\ DriversMove /\ Stopped'
  <2>1. CASE UNCHANGED <<marked, driver>>  BY <1>2, <2>1, Unmoved
  <2>2. CASE ~sealed /\ Starts(r) /\ UNCHANGED marked  BY <1>1, <1>2, <2>2, StartsMoves, Unmoved
  <2>3. CASE UNCHANGED driver /\ marked' \subseteq marked
    BY <1>2, <2>3, Unmoved DEF IInv, TypeOK, MarksMove, Stopped
  <2> QED BY <2>1, <2>2, <2>3 DEF Joined, Again, Awaited, durable
<1> QED BY <1>2, <1>3, <1>4, Unmoved DEF CommandMoves

\* The live run of the revision that is left: interrupted at once if it has no
\* session, otherwise its session is asked to end first.
LEMMA InterruptsMoves ==
  ASSUME IInv, NEW c \in Cmd, NEW d \in Digest, Interrupts(c, d), UNCHANGED <<driver, box>>
  PROVE  /\ RowsMove /\ DriversMove /\ CmdsMove /\ CmdsCalm /\ NetMoves
         /\ MarksMove /\ BoxMoves /\ Stopped'
<1>1. CASE Ends(c) /\ UNCHANGED <<row, marked, halted, net>>
  BY <1>1, CmdEnds, Unmoved
<1>2. ASSUME NEW r \in LiveRuns,
             cmd' = [cmd EXCEPT ![c] = [Idle EXCEPT !.at = "closing", !.run = r]],
             net' = net \cup {Request("finish", r, c)},
             UNCHANGED <<row, marked, halted>>
      PROVE  RowsMove /\ CmdsMove /\ CmdsCalm /\ NetMoves /\ MarksMove /\ Stopped'
  <2> DEFINE e == [Idle EXCEPT !.at = "closing", !.run = r]
  <2>1. r \in Run /\ HasRow(r)  BY DEF LiveRuns, Live, Phases, HasRow
  <2>2. e \in CmdState /\ e.at = "closing" /\ e.run = r /\ ~e.did
    BY <2>1, HomeAssumption DEF Idle, CmdState
  <2>3. cmd' = [cmd EXCEPT ![c] = e]  BY <1>2
  <2> HIDE DEF e
  <2>4. CmdsMove /\ CmdsCalm
    BY <1>2, <2>1, <2>2, <2>3, CmdGoes DEF HasRow, Stages
  <2>5. NetMoves  BY <1>2, <2>1, OtherAsks
  <2> QED BY <1>2, <2>4, <2>5, Unmoved
<1>3. ASSUME NEW r \in LiveRuns, ~row[r].session, row' = Terminal(r, "interrupted"),
             marked' = marked \ {r}, halted' = [halted EXCEPT ![r] = "none"],
             Ends(c), UNCHANGED net
      PROVE  RowsMove /\ CmdsMove /\ CmdsCalm /\ NetMoves /\ MarksMove /\ Stopped'
  <2>1. r \in Run /\ HasRow(r)  BY DEF LiveRuns, Live, Phases, HasRow
  <2>2. RowsMove  BY <1>3, <2>1, Terminates DEF Outcomes
  <2>3. MarksMove /\ Stopped'  BY <1>3 DEF IInv, TypeOK, MarksMove, Stopped
  <2> QED BY <1>3, <2>2, <2>3, CmdEnds, Unmoved
<1> QED BY <1>1, <1>2, <1>3, Unmoved DEF Interrupts

\* A revision, at once or behind the verification of its plan; a retirement.
LEMMA ReviseMoves ==
  ASSUME IInv, NEW c \in Cmd, NEW m \in [rev : Nat, digest : Digest, count : Nat],
         NEW d \in Digest, Revise(c, m, d)
  PROVE  CommandMoves
<1>1. UNCHANGED <<driver, box, clock>> /\ m.digest \in Digest  BY DEF Revise
<1>2. MissionMoves
  <2>1. mission.count \in Nat /\ m.rev + 1 \in Nat  BY DEF IInv, TypeOK, MissionState
  <2> QED BY <1>1, <2>1 DEF Revise, MissionMoves, MissionState, IInv, TypeOK
<1>3. Interrupts(c, m.digest)  BY DEF Revise
<1> QED BY <1>1, <1>2, <1>3, InterruptsMoves DEF CommandMoves

LEMMA EditMoves ==
  ASSUME IInv, NEW c \in Cmd,
         Verified(c) \/ Retire(c) \/ \E d \in Digest : Edit(c, d) \/ EditPlan(c, d)
  PROVE  CommandMoves
<1>1. Read \in [rev : Nat, digest : Digest, count : Nat] /\ mission.digest \in Digest
  BY DEF Read, IInv, TypeOK, MissionState
<1>2. ASSUME NEW d \in Digest, Edit(c, d) PROVE CommandMoves
  BY <1>1, <1>2, ReviseMoves DEF Edit
<1>3. ASSUME NEW d \in Digest, EditPlan(c, d) PROVE CommandMoves
  <2> DEFINE e == [Idle EXCEPT !.at = "verify", !.op = "edit", !.to = d, !.m = Read]
  <2>1. e \in CmdState /\ e.at = "verify"
    BY <1>1, HomeAssumption DEF Idle, CmdState
  <2>2. cmd' = [cmd EXCEPT ![c] = e]  BY <1>3 DEF EditPlan
  <2> HIDE DEF e
  <2>3. CmdsMove /\ CmdsCalm  BY <2>1, <2>2, CmdGoes DEF Named, Stages
  <2> QED BY <1>3, <2>3, Unmoved DEF EditPlan, Quiet, durable, CommandMoves
<1>4. CASE Verified(c)
  <2>1. cmd[c].m \in [rev : Nat, digest : Digest, count : Nat] /\ cmd[c].to \in Digest
    BY DEF IInv, TypeOK, CmdState
  <2>2. CASE Revise(c, cmd[c].m, cmd[c].to)  BY <2>1, <2>2, ReviseMoves
  <2>3. CASE Ends(c) /\ Quiet /\ UNCHANGED <<durable, driver, net>>
    BY <2>3, CmdEnds, Unmoved DEF Quiet, durable, CommandMoves
  <2> QED BY <1>4, <2>2, <2>3 DEF Verified
<1>5. CASE Retire(c)
  <2>1. UNCHANGED <<driver, box, clock>> /\ Interrupts(c, mission.digest)  BY <1>5 DEF Retire
  <2>2. MissionMoves
    BY <1>5, <2>1 DEF Retire, MissionMoves, MissionState, IInv, TypeOK
  <2> QED BY <1>1, <2>1, <2>2, InterruptsMoves DEF CommandMoves
<1> QED BY <1>2, <1>3, <1>4, <1>5

\* The session of the interrupted run is finished, and so is the run.
LEMMA ClosingMoves ==
  ASSUME IInv, NEW c \in Cmd, Closing(c)
  PROVE  CommandMoves
<1>1. /\ cmd[c].run \in Run /\ HasRow(cmd[c].run)
      /\ session[cmd[c].run] = "finished"
  BY DEF Closing, At, IInv, Known, Sessions, Named, Rooted
<1>2. Ending  BY <1>1, Terminalized DEF Closing, Outcomes
<1>3. Stopped'  BY <1>2 DEF Ending, Closing, IInv, Stopped
<1> QED BY <1>2, <1>3, CmdEnds, Unmoved DEF Ending, Closing, CommandMoves

LEMMA PauseMoves ==
  ASSUME IInv, Pause \/ Resume
  PROVE  CommandMoves
<1>1. UNCHANGED <<row, marked, box, cmd, driver, net, halted, clock>>
  BY DEF Pause, Resume, Quiet
<1>2. MissionMoves
  <2>1. CASE MarkCompleted  BY <1>1, <2>1, Completion
  <2>2. CASE ~MarkCompleted
    BY <1>1, <2>2 DEF Pause, Resume, MissionMoves, MissionState, IInv, TypeOK
  <2> QED BY <2>1, <2>2
<1> QED BY <1>1, <1>2, Unmoved DEF CommandMoves

\* Every command, begun or going on, keeps the invariant.
LEMMA CommandKeeps ==
  ASSUME IInv, NEW c \in Cmd, Continues(c) \/ Command(c)
  PROVE  IInv' /\ NetMoves
<1>1. UNCHANGED <<released, owed, session, agent, acked, report>>  BY DEF Continues, Command
<1>2. CommandMoves /\ UNCHANGED sealed
  <2>1. CASE Joined(c) \/ Again(c) \/ Awaited(c) \/ Closing(c) \/ Cancel(c) \/ Pause \/ Resume
    BY <2>1, JoinedMoves, ClosingMoves, CancelCommand, PauseMoves
    DEF Joined, Again, Awaited, Closing, Cancel, Pause, Resume, Quiet
  <2>2. CASE Verified(c) \/ Retire(c) \/ \E d \in Digest : Edit(c, d) \/ EditPlan(c, d)
    BY <2>2, EditMoves DEF Verified, Retire, Edit, EditPlan, Revise, Quiet
  <2>3. ASSUME NEW k \in Manual, RunNow(c, k) PROVE CommandMoves /\ UNCHANGED sealed
    BY <2>3, BeginsMoves, Unmoved DEF RunNow, AdmissionMoves, CommandMoves, durable
  <2>4. CASE CommandFails(c)
    BY <2>4, CmdEnds, Unmoved DEF CommandFails, CommandMoves, durable
  <2> QED BY <2>1, <2>2, <2>3, <2>4 DEF Continues, Command
<1>3. BoundsMove
  <2>1. asks' \in 0..MaxAsk
    <3>1. CASE Asked  BY <3>1, BoundAssumption DEF Asked, IInv, TypeOK
    <3>2. CASE UNCHANGED asks  BY <3>2 DEF IInv, TypeOK
    <3> QED BY <3>1, <3>2 DEF Continues, Command, CommandFails, Fails
  <2>2. failed' \in BOOLEAN
    BY DEF IInv, TypeOK, Continues, Command, CommandFails, Fails, Joined, Again, Awaited,
           Verified, Closing, Cancel, Pause, Resume, Retire, RunNow, Edit, EditPlan, Revise, Quiet
  <2> QED BY <2>1, <2>2 DEF BoundsMove
<1> QED BY <1>1, <1>2, <1>3, Unmoved, Steady DEF CommandMoves, AllMove

-----------------------------------------------------------------------------
(* The host and the agent *)

\* A request takes effect at the host or the agent.
LEMMA ServedMoves ==
  ASSUME IInv, NEW q \in net, Served(q)
  PROVE  /\ session' \in [Run -> {"none", "open", "finished"}]
         /\ \A r \in Run : session[r] = "finished" => session'[r] = "finished"
         /\ q.to = "finish" => session'[q.run] = "finished"
         /\ agent' \in [Run -> {"none", "running"} \cup Reported]
         /\ \A r \in Run : /\ agent'[r] # "none" => HasRow(r)
                           /\ agent[r] \in Reported => agent'[r] = agent[r]
         /\ q.to = "interrupt" /\ agent[q.run] = "running" => agent'[q.run] = "aborted"
         /\ halted' \in [Run -> {"none", "sent", "done"}]
<1>1. q.run \in Run /\ HasRow(q.run)  BY DEF IInv, TypeOK, Known, RequestState
<1>2. /\ session' \in [Run -> {"none", "open", "finished"}]
      /\ \A r \in Run : session[r] = "finished" => session'[r] = "finished"
      /\ q.to = "finish" => session'[q.run] = "finished"
  BY <1>1 DEF Served, IInv, TypeOK
<1>3. /\ agent' \in [Run -> {"none", "running"} \cup Reported]
      /\ \A r \in Run : /\ agent'[r] # "none" => HasRow(r)
                        /\ agent[r] \in Reported => agent'[r] = agent[r]
      /\ q.to = "interrupt" /\ agent[q.run] = "running" => agent'[q.run] = "aborted"
  BY <1>1 DEF Served, IInv, TypeOK, Known, Reported
<1>4. halted' \in [Run -> {"none", "sent", "done"}]  BY <1>1 DEF Served, IInv, TypeOK
<1> QED BY <1>2, <1>3, <1>4

\* Whoever waits for it hears of it, and what they hear is so.
LEMMA HeardMoves ==
  ASSUME IInv, NEW q \in net, Heard(q), Served(q), UNCHANGED <<row, marked>>
  PROVE  /\ DriversMove /\ CmdsMove /\ CmdsCalm /\ Stopped'
         /\ report' \in [Run -> {"no", "owed", "closing", "closed", "told", "parked"}]
         /\ \A r \in Run : report'[r] # "no" =>
              /\ HasRow(r) /\ agent'[r] \in Reported
              /\ report'[r] = "closed" => session'[r] = "finished"
<1>1. q \in RequestState /\ q.run \in Run /\ HasRow(q.run)
  BY DEF IInv, TypeOK, Known, RequestState
<1>2. q.by \notin {"driver", "all"} => q.to = "finish"  BY DEF IInv, Sessions
<1>3. q.to = "finish" => session'[q.run] = "finished"  BY ServedMoves
<1>4. DriversMove /\ Stopped'
  <2> DEFINE b == q.by \in {"driver", "all"} /\ driver[q.run].at \in Waits(q.to)
             d == [driver[q.run] EXCEPT !.did = @ \/ b]
  <2>1. driver[q.run] \in DriverState  BY <1>1 DEF IInv, TypeOK
  <2>2. b \in BOOLEAN  OBVIOUS
  <2>3. driver' = [driver EXCEPT ![q.run] = d]  BY DEF Heard
  <2>4. b /\ driver[q.run].at = "close" => q.to = "finish"
    BY <1>1 DEF Waits, RequestState
  <2> HIDE DEF b
  <2>5. /\ d \in DriverState /\ d.at = driver[q.run].at /\ d.out = driver[q.run].out
        /\ d.stop = driver[q.run].stop
        /\ (d.did => driver[q.run].did \/ b) /\ (~b => d.did = driver[q.run].did)
    <3> DEFINE e == driver[q.run].did \/ b
    <3>1. driver[q.run].did \in BOOLEAN  BY <2>1 DEF DriverState
    <3>2. e \in BOOLEAN /\ d = [driver[q.run] EXCEPT !.did = e]
      BY <2>1, <2>2, <3>1 DEF DriverState
    <3>3. (e => driver[q.run].did \/ b) /\ (~b => e = driver[q.run].did)
      BY <2>2, <3>1
    <3> HIDE DEF e, d
    <3> QED BY <2>1, <3>2, <3>3 DEF DriverState
  <2> HIDE DEF d
  <2>6. /\ driver' \in [Run -> DriverState] /\ driver'[q.run] = d
        /\ \A s \in Run \ {q.run} : driver'[s] = driver[s]
    BY <1>1, <2>3, <2>5 DEF IInv, TypeOK
  <2>7. d.at = "off" => ~b
    BY <1>1, <2>5 DEF Waits, RequestState, b
  <2>8. d.at = "close" => d.out \in Outcomes /\ (d.did => session'[q.run] = "finished")
    BY <1>1, <1>3, <2>4, <2>5, ServedMoves DEF IInv, Sessions
  <2>9. DriversMove  BY <2>2, <2>5, <2>6, <2>7, <2>8 DEF DriversMove, Driven
  <2>10. Stopped'  BY <1>1, <2>5, <2>6 DEF IInv, TypeOK, Stopped
  <2> QED BY <2>9, <2>10
<1>5. CmdsMove /\ CmdsCalm
  <2> DEFINE b(c) == q.by = c /\ cmd[c].at \in {"closing", "swept"} /\ cmd[c].run = q.run
             d(c) == [cmd[c] EXCEPT !.did = @ \/ b(c)]
  <2>1. ASSUME NEW c \in Cmd
        PROVE  /\ d(c) \in CmdState /\ d(c).at = cmd[c].at /\ d(c).op = cmd[c].op
               /\ d(c).run = cmd[c].run
               /\ d(c).did => cmd[c].did \/ b(c)
    <3> DEFINE e == cmd[c].did \/ b(c)
    <3>1. cmd[c] \in CmdState /\ cmd[c].did \in BOOLEAN  BY DEF IInv, TypeOK, CmdState
    <3>2. e \in BOOLEAN /\ d(c) = [cmd[c] EXCEPT !.did = e]  BY <3>1 DEF CmdState
    <3>3. e => cmd[c].did \/ b(c)  OBVIOUS
    <3> HIDE DEF e, d, b
    <3> QED BY <3>1, <3>2, <3>3 DEF CmdState
  <2>2. cmd' = [c \in Cmd |-> d(c)]  BY DEF Heard
  <2>3. ASSUME NEW c \in Cmd, b(c) PROVE session'[cmd[c].run] = "finished"
    <3>1. q.by \notin {"driver", "all"}  BY <2>3, CmdAssumption
    <3> QED BY <1>2, <1>3, <2>3, <3>1
  <2> HIDE DEF b, d
  <2>4. cmd' \in [Cmd -> CmdState] /\ \A c \in Cmd : cmd'[c] = d(c)  BY <2>1, <2>2
  <2> QED BY <2>1, <2>3, <2>4 DEF CmdsMove, CmdsCalm
<1>6. report' \in [Run -> {"no", "owed", "closing", "closed", "told", "parked"}]
  BY <1>1 DEF Heard, IInv, TypeOK
<1>7. ASSUME NEW r \in Run, report'[r] # "no"
      PROVE  /\ HasRow(r) /\ agent'[r] \in Reported
             /\ report'[r] = "closed" => session'[r] = "finished"
  <2>1. CASE report'[r] = report[r]
    BY <1>7, <2>1, ServedMoves DEF IInv, Known, Sessions
  <2>2. CASE report'[r] # report[r] /\ r = q.run /\ q.by = "report" /\ report[r] = "closing"
             /\ report'[r] = "closed"
    BY <1>2, <1>3, <1>7, <2>2, ServedMoves DEF IInv, Known, Sessions
  <2>3. CASE r = q.run /\ q.to = "interrupt" /\ agent[r] = "running" /\ report'[r] = "owed"
    BY <1>1, <2>3, ServedMoves DEF Reported
  <2> QED BY <1>1, <2>1, <2>2, <2>3 DEF Heard, IInv, TypeOK
<1> QED BY <1>4, <1>5, <1>6, <1>7

LEMMA ServeKeeps ==
  ASSUME IInv, NEW q \in net, Serve(q)
  PROVE  IInv' /\ NetMoves
<1>1. /\ UNCHANGED <<durable, sealed, released, owed, acked, bounds>>
      /\ Heard(q) /\ Served(q) /\ net' \subseteq net
  BY DEF Serve
<1>2. NetMoves  BY <1>1 DEF NetMoves
<1>3. WorldMoves
  BY <1>1, ServedMoves, HeardMoves DEF WorldMoves, durable, IInv, TypeOK
<1>4. MarksMove  BY <1>1, ServedMoves DEF MarksMove, durable, IInv, TypeOK
<1> QED BY <1>1, <1>2, <1>3, <1>4, HeardMoves, Unmoved, Steady DEF AllMove, durable, bounds

\* The agent's turn ends by itself.
LEMMA AgentEndsKeeps ==
  ASSUME IInv, NEW r \in Run, AgentEnds(r)
  PROVE  IInv' /\ NetMoves
<1>1. UNCHANGED <<durable, memory, net, session, acked, bounds>>  BY DEF AgentEnds
<1>2. HasRow(r)  BY DEF AgentEnds, IInv, Known
<1>3. /\ agent' \in [Run -> {"none", "running"} \cup Reported]
      /\ report' \in [Run -> {"no", "owed", "closing", "closed", "told", "parked"}]
      /\ agent'[r] \in Reported /\ report'[r] = "owed"
      /\ \A s \in Run \ {r} : agent'[s] = agent[s] /\ report'[s] = report[s]
  BY DEF AgentEnds, IInv, TypeOK, Reported
<1>4. WorldMoves  BY <1>1, <1>2, <1>3 DEF WorldMoves, IInv, TypeOK, Known, Sessions
<1> QED BY <1>1, <1>4, Unmoved, Steady DEF AllMove, durable, memory, bounds

\* The report is stored behind the end of the session, fails or is made again.
LEMMA ReportsKeeps ==
  ASSUME IInv, NEW r \in Run, Reports(r)
  PROVE  IInv' /\ NetMoves
<1>1. UNCHANGED <<cmd, driver, sealed, released, owed, session, agent, acked, clock>>
  BY DEF Reports
<1>2. report[r] # "no" /\ HasRow(r) /\ agent[r] \in Reported
  BY DEF Reports, Report, FinishRun, Finished, ReportFails, ReportAgain, IInv, Known, Sessions
<1>3. ASSUME NEW to \in {"owed", "closing", "told", "parked"}, Tells(r, to) PROVE WorldMoves
  BY <1>1, <1>2, <1>3 DEF Tells, WorldMoves, IInv, TypeOK, Known, Sessions
<1>4. WorldMoves
  BY <1>3 DEF Reports, Report, FinishRun, Finished, ReportFails, ReportAgain
<1>5. RowsMove /\ MissionMoves /\ MarksMove /\ BoxMoves /\ NetMoves /\ marked' \subseteq marked
  <2>1. CASE ~Live(r) /\ box' = box \cup {r} /\ UNCHANGED <<row, marked, halted, mission, wake, net>>
    <3>1. row[r].phase = "terminal"
      BY <1>2, <2>1 DEF Live, HasRow, IInv, TypeOK, RowState
    <3>2. BoxMoves  BY <2>1, <3>1 DEF BoxMoves, IInv, TypeOK
    <3> QED BY <1>1, <2>1, <3>2, Unmoved
  <2>2. CASE /\ net' = net \cup {Request("finish", r, "report")}
             /\ UNCHANGED <<row, marked, halted, mission, wake, box>>
    BY <1>1, <1>2, <2>2, OtherAsks, Unmoved
  <2>3. CASE Finished(r)
    <3>1. session[r] = "finished"  BY <2>3 DEF Finished, IInv, Sessions
    <3>2. Ending  BY <1>1, <1>2, <2>3, <3>1, Terminalized DEF Finished, Outcomes
    <3> QED BY <2>3, <3>2, Unmoved DEF Finished, Ending
  <2>4. CASE UNCHANGED <<durable, halted, net>>  BY <1>1, <2>4, Unmoved DEF durable
  <2> QED BY <2>1, <2>2, <2>3, <2>4 DEF Reports, Report, FinishRun, ReportFails, ReportAgain
<1>6. BoundsMove
  <2>1. CASE UNCHANGED spent  BY <2>1, Unmoved
  <2>2. CASE Fails
    BY <2>2, BoundAssumption DEF Fails, Asked, IInv, TypeOK, BoundsMove
  <2> QED BY <2>1, <2>2 DEF Reports, Report, ReportFails, ReportAgain
<1>7. Stopped'  BY <1>1, <1>5 DEF IInv, Stopped
<1> QED BY <1>1, <1>4, <1>5, <1>6, <1>7, Unmoved, Steady DEF AllMove

\* The outbox acknowledges a run that is over.
LEMMA AcknowledgeKeeps ==
  ASSUME IInv, NEW r \in Run, Acknowledge(r)
  PROVE  IInv' /\ NetMoves
<1>1. UNCHANGED <<mission, wake, row, marked, memory, net, session, agent, report, bounds>>
  BY DEF Acknowledge
<1>2. BoxMoves  BY DEF Acknowledge, BoxMoves, IInv, TypeOK
<1>3. acked' \subseteq acked \cup {r} /\ row[r].phase = "terminal"
  BY DEF Acknowledge, IInv, Known
<1>4. WorldMoves
  BY <1>1, <1>3 DEF WorldMoves, IInv, TypeOK, Known, Sessions
<1> QED BY <1>1, <1>2, <1>4, Unmoved, Steady DEF AllMove, memory, bounds, spent

LEMMA ElapseKeeps ==
  ASSUME IInv, Elapse
  PROVE  IInv' /\ NetMoves
<1>1. UNCHANGED <<mission, row, marked, box, memory, world, spent>>  BY DEF Elapse
<1>2. MissionMoves
  BY BoundAssumption DEF Elapse, MissionMoves, IInv, TypeOK
<1> QED BY <1>1, <1>2, Unmoved, Steady DEF AllMove, memory, world

-----------------------------------------------------------------------------
(* The release of the activation and its end *)

\* A step of the release itself: what moves as it may is kept, and what the release
\* vouches for is shown at each stage.
LEMMA ReleaseKeeps ==
  ASSUME IInv, AllMove, Stopped', Sealed', ReleaseVouches',
         sealed' \in BOOLEAN, owed' \in BOOLEAN, released' \in {"no", "suspend", "retirement"}
  PROVE  IInv' /\ NetMoves
<1>1. NetMoves  BY DEF AllMove
<1> QED BY <1>1, MovesKeep DEF IInv

\* A release goes on to a later stage.
LEMMA ReleaseGoes ==
  ASSUME IInv, NEW c \in Cmd, cmd[c].at \in Stages,
         \A o \in Cmd \ {c} : cmd'[o] = cmd[o],
         cmd'[c].at \in Stages \ {"settle"}, cmd'[c].op = cmd[c].op,
         cmd[c].at = "settle" => Quiesced,
         cmd'[c].at \in {"sweep", "swept"} => \A r \in Run : ~Driven(r)',
         UNCHANGED <<sealed, owed, released>>
  PROVE  Sealed' /\ ReleaseVouches'
<1>1. Quiesced /\ released = "no" /\ sealed /\ ~owed  BY DEF IInv, Sealed
<1>2. Quiesced'  BY <1>1 DEF Quiesced, Stages
<1>3. \A o \in Cmd : cmd'[o].at \in Stages => o = c  BY DEF IInv, Sealed
<1>4. Sealed'  BY <1>1, <1>2, <1>3 DEF IInv, Sealed
<1> QED BY <1>1, <1>4 DEF ReleaseVouches

\* What Moves leaves and changes.
LEMMA MovesOne ==
  ASSUME IInv, NEW c \in Cmd, NEW at, Moves(c, at)
  PROVE  /\ cmd'[c].at = at /\ cmd'[c].op = cmd[c].op /\ cmd'[c].run = cmd[c].run
         /\ \A o \in Cmd \ {c} : cmd'[o] = cmd[o]
<1>1. cmd[c] \in CmdState  BY DEF IInv, TypeOK
<1> QED BY <1>1 DEF Moves, IInv, TypeOK, CmdState

\* The release seals the activation.
LEMMA ReleaseBegins ==
  ASSUME IInv, NEW c \in Cmd, NEW mode \in {"suspend", "retirement"}, Release(c, mode),
         UNCHANGED <<owed, session, agent, acked, report, clock>>
  PROVE  IInv' /\ NetMoves
<1> DEFINE e == [Idle EXCEPT !.at = "settle", !.op = mode]
<1>1. e \in CmdState /\ e.at = "settle" /\ e.op = mode
  BY HomeAssumption DEF Idle, CmdState
<1>2. cmd' = [cmd EXCEPT ![c] = e]  BY DEF Release
<1> HIDE DEF e
<1>3. CmdsMove  BY <1>1, <1>2, CmdGoes DEF Named
<1>4. cmd'[c] = e /\ \A o \in Cmd \ {c} : cmd'[o] = cmd[o]  BY <1>2 DEF IInv, TypeOK
<1>5. \A o \in Cmd : cmd[o].at \notin Stages  BY DEF Release, IInv, Sealed
<1>6. sealed' = TRUE /\ ~owed' /\ released' = "no" /\ owed' \in BOOLEAN
  BY DEF Release, IInv, TypeOK
<1>7. Sealed'  BY <1>1, <1>4, <1>5, <1>6 DEF Sealed
<1>8. ReleaseVouches'  BY <1>6 DEF ReleaseVouches
<1>9. BoundsMove
  BY BoundAssumption DEF Release, Asked, IInv, TypeOK, BoundsMove
<1>10. UNCHANGED <<durable, driver, halted, net>>  BY DEF Release
<1> QED BY <1>3, <1>6, <1>7, <1>8, <1>9, <1>10, Unmoved, ReleaseKeeps DEF AllMove, durable

\* Every admission was settled: for retirement every live run is marked and its
\* driver stopped.
LEMMA SettledKeeps ==
  ASSUME IInv, NEW c \in Cmd, Settled(c),
         UNCHANGED <<sealed, owed, session, agent, acked, report, clock, asks>>
  PROVE  IInv' /\ NetMoves
<1>1. UNCHANGED <<mission, wake, row, box, released, failed>> /\ At(c, "settle") /\ Quiesced
  BY DEF Settled, Quiesced
<1>2. PICK at \in {"drivers", "halt"} : Moves(c, at)  BY DEF Settled
<1>3. CmdsMove  BY <1>2, CmdMoves DEF Named, Rooted
<1>4. Sealed' /\ ReleaseVouches'
  BY <1>1, <1>2, MovesOne, ReleaseGoes DEF At, Stages
<1>5. LiveRuns \in SUBSET Run  BY DEF LiveRuns
<1>6. MarksMove /\ DriversMove /\ NetMoves /\ Stopped'
  <2>1. CASE UNCHANGED <<marked, driver, halted, net>>  BY <2>1, Unmoved
  <2>2. CASE /\ marked' = marked \cup LiveRuns /\ Stops(LiveRuns)
             /\ halted' = [r \in Run |-> IF r \in LiveRuns /\ Halts(r) THEN "sent" ELSE halted[r]]
             /\ net' = net \cup {Request("interrupt", r, "all") : r \in {l \in LiveRuns : Halts(l)}}
    <3>1. MarksMove  BY <1>5, <2>2 DEF IInv, TypeOK, MarksMove
    <3>2. NetMoves
      <4>1. ASSUME NEW r \in LiveRuns
            PROVE  /\ Request("interrupt", r, "all") \in RequestState
                   /\ HasRow(r) /\ Request("interrupt", r, "all").run = r
                   /\ Request("interrupt", r, "all").to = "interrupt"
                   /\ Request("interrupt", r, "all").by = "all"
        BY <1>5 DEF Request, RequestState, LiveRuns, Live, HasRow, Phases
      <4> QED BY <2>2, <4>1 DEF NetMoves
    <3>3. ASSUME NEW r \in Run, r \in marked', driver'[r].at \in {"describe", "redo"}
          PROVE  driver'[r].stop
      <4>1. driver[r].at \in {"describe", "redo"}  BY <1>5, <2>2, <3>3, StopsMoves
      <4>2. Driven(r)  BY <4>1 DEF Driven
      <4> QED BY <1>5, <2>2, <3>3, <4>1, <4>2, StopsMoves DEF IInv, Stopped
    <3> QED BY <1>5, <2>2, <3>1, <3>2, <3>3, StopsMoves DEF Stopped, MarksMove
  <2> QED BY <2>1, <2>2 DEF Settled
<1>7. sealed' \in BOOLEAN /\ owed' \in BOOLEAN /\ released' \in {"no", "suspend", "retirement"}
  BY <1>1 DEF IInv, TypeOK
<1> QED BY <1>1, <1>3, <1>4, <1>6, <1>7, Unmoved, ReleaseKeeps DEF AllMove, spent

\* A release that was answered as ready.
LEMMA ReleaseEnds ==
  ASSUME IInv, NEW c \in Cmd, NEW mode \in {"suspend", "retirement"},
         cmd[c].at \in Stages \ {"settle"}, Ends(c), released' = mode,
         \A r \in Run : ~Driven(r), mode = "retirement" => LiveRuns = {},
         UNCHANGED <<durable, driver, halted, net, failed>>,
         UNCHANGED <<sealed, owed, session, agent, acked, report, clock, asks>>
  PROVE  IInv' /\ NetMoves
<1>1. CmdsMove  BY CmdEnds
<1>2. cmd'[c] = Idle /\ \A o \in Cmd \ {c} : cmd'[o] = cmd[o]  BY DEF Ends, IInv, TypeOK
<1>3. sealed /\ ~owed /\ Quiesced /\ \A o \in Cmd \ {c} : cmd[o].at \notin Stages
  BY DEF IInv, Sealed
<1>4. Quiesced' /\ \A o \in Cmd : cmd'[o].at \notin Stages
  BY <1>2, <1>3 DEF Idle, Quiesced, Stages
<1>5. Sealed'  BY <1>3, <1>4 DEF Sealed
<1>6. (\A r \in Run : ~Driven(r)') /\ (mode = "retirement" => LiveRuns' = {})
  BY DEF Driven, LiveRuns, Live, durable
<1>7. ReleaseVouches'  BY <1>4, <1>6 DEF ReleaseVouches, Quiesced
<1>8. sealed' \in BOOLEAN /\ owed' \in BOOLEAN /\ released' \in {"no", "suspend", "retirement"}
  BY DEF IInv, TypeOK
<1> QED BY <1>1, <1>5, <1>7, <1>8, Unmoved, ReleaseKeeps DEF AllMove, spent, durable

\* The drivers were interrupted and joined.
LEMMA JoinedAllKeeps ==
  ASSUME IInv, NEW c \in Cmd, HaltedAll(c) \/ JoinedAll(c),
         UNCHANGED <<sealed, owed, session, agent, acked, report, clock, asks>>
  PROVE  IInv' /\ NetMoves
<1>1. UNCHANGED <<durable, driver, halted, net, failed>> /\ cmd[c].at \in Stages \ {"settle"}
  BY DEF HaltedAll, JoinedAll, At, Stages
<1>2. CASE Ends(c) /\ released' = "suspend" /\ JoinedAll(c)
  <2>1. \A r \in Run : ~Driven(r)  BY <1>2 DEF JoinedAll
  <2> QED BY <1>1, <1>2, <2>1, ReleaseEnds
<1>3. ASSUME NEW at \in {"drivers", "sweep"}, Moves(c, at), UNCHANGED released,
             at = "sweep" => \A r \in Run : ~Driven(r)
      PROVE  IInv' /\ NetMoves
  <2>1. CmdsMove  BY <1>3, CmdMoves DEF Named, Rooted
  <2>2. at = "sweep" => \A r \in Run : ~Driven(r)'  BY <1>1, <1>3 DEF Driven
  <2>3. Sealed' /\ ReleaseVouches'  BY <1>1, <1>3, <2>2, MovesOne, ReleaseGoes DEF Stages
  <2>4. sealed' \in BOOLEAN /\ owed' \in BOOLEAN /\ released' \in {"no", "suspend", "retirement"}
    BY <1>3 DEF IInv, TypeOK
  <2> QED BY <1>1, <2>1, <2>3, <2>4, Unmoved, ReleaseKeeps DEF AllMove, spent, durable
<1> QED BY <1>2, <1>3 DEF HaltedAll, JoinedAll

\* What no driver ended is cancelled, run by run, each behind its session.
LEMMA SweepKeeps ==
  ASSUME IInv, NEW c \in Cmd, Sweep(c) \/ Swept(c),
         UNCHANGED <<sealed, owed, session, agent, acked, report, clock, asks>>
  PROVE  IInv' /\ NetMoves
<1>1. UNCHANGED <<driver, failed>> /\ cmd[c].at \in {"sweep", "swept"}
  BY DEF Sweep, Swept, At
<1>2. \A r \in Run : ~Driven(r) /\ ~Driven(r)'
  BY <1>1 DEF IInv, Sealed, Stages, Driven
<1>3. released \in {"no", "suspend", "retirement"} /\ sealed' \in BOOLEAN /\ owed' \in BOOLEAN
  BY DEF IInv, TypeOK
<1>4. ASSUME NEW r \in LiveRuns,
             cmd' = [cmd EXCEPT ![c].at = "swept", ![c].run = r, ![c].did = FALSE],
             net' = net \cup {Request("finish", r, c)}, UNCHANGED <<durable, halted, released>>
      PROVE  IInv' /\ NetMoves
  <2> DEFINE e == [cmd[c] EXCEPT !.at = "swept", !.run = r, !.did = FALSE]
  <2>1. r \in Run /\ HasRow(r)  BY DEF LiveRuns, Live, Phases, HasRow
  <2>2. e \in CmdState /\ e.at = "swept" /\ e.run = r /\ ~e.did /\ e.op = cmd[c].op
    <3>1. cmd[c] \in CmdState  BY DEF IInv, TypeOK
    <3> QED BY <2>1, <3>1 DEF CmdState
  <2>3. cmd' = [cmd EXCEPT ![c] = e]  BY <1>4
  <2> HIDE DEF e
  <2>4. CmdsMove  BY <1>4, <2>1, <2>2, <2>3, CmdGoes DEF durable, HasRow
  <2>5. cmd'[c] = e /\ \A o \in Cmd \ {c} : cmd'[o] = cmd[o]  BY <2>3 DEF IInv, TypeOK
  <2>6. Sealed' /\ ReleaseVouches'
    BY <1>1, <1>2, <1>4, <2>2, <2>5, ReleaseGoes DEF Stages
  <2>7. NetMoves  BY <1>4, <2>1, OtherAsks
  <2> QED BY <1>1, <1>3, <1>4, <2>4, <2>6, <2>7, Unmoved, ReleaseKeeps DEF AllMove, spent, durable
<1>5. ASSUME NEW r \in LiveRuns, ~row[r].session, TerminalizeRun(r, "cancelled"),
             UNCHANGED <<cmd, net, released>>
      PROVE  IInv' /\ NetMoves
  <2>1. r \in Run /\ HasRow(r)  BY DEF LiveRuns, Live, Phases, HasRow
  <2>2. Ending  BY <1>5, <2>1, Terminalized DEF Outcomes
  <2>3. Stopped'  BY <1>1, <2>2 DEF Ending, IInv, Stopped
  <2> QED BY <1>1, <1>5, <2>2, <2>3, Unmoved, Steady DEF Ending, AllMove, spent
<1>6. CASE /\ LiveRuns = {} /\ Ends(c) /\ released' = "retirement"
           /\ UNCHANGED <<durable, halted, net>>
  BY <1>1, <1>2, <1>6, ReleaseEnds DEF Stages
<1>7. CASE Swept(c)
  <2>1. /\ cmd[c].run \in Run /\ HasRow(cmd[c].run)
        /\ session[cmd[c].run] = "finished"
    BY <1>7 DEF Swept, At, IInv, Known, Sessions, Named, Rooted
  <2>2. Ending  BY <1>7, <2>1, Terminalized DEF Swept, Outcomes
  <2>3. Stopped'  BY <1>1, <2>2 DEF Ending, IInv, Stopped
  <2>4. CmdsMove  BY <1>7, CmdMoves DEF Swept, Named, Rooted
  <2>5. Sealed' /\ ReleaseVouches'
    BY <1>1, <1>2, <1>7, MovesOne, ReleaseGoes DEF Swept, Stages
  <2> QED BY <1>1, <1>3, <1>7, <2>2, <2>3, <2>4, <2>5, Unmoved, ReleaseKeeps
          DEF Swept, Ending, AllMove, spent
<1> QED BY <1>4, <1>5, <1>6, <1>7 DEF Sweep

\* Every step of a release keeps the invariant.
LEMMA ReleasingKeeps ==
  ASSUME IInv, NEW c \in Cmd, Releasing(c) \/ Releases(c)
  PROVE  IInv' /\ NetMoves
<1>1. CASE Releasing(c)
  BY <1>1, SettledKeeps, JoinedAllKeeps, SweepKeeps DEF Releasing
<1>2. ASSUME NEW mode \in {"suspend", "retirement"}, Release(c, mode), Releases(c) PROVE IInv' /\ NetMoves
  BY <1>2, ReleaseBegins DEF Releases
<1>3. CASE ReleaseFails(c) /\ Releases(c) /\ UNCHANGED sealed
  <2>1. /\ UNCHANGED <<durable, driver, halted, net, released>>
        /\ UNCHANGED <<owed, session, agent, acked, report, clock>> /\ Ends(c) /\ Fails
    BY <1>3 DEF ReleaseFails, Releases
  <2>2. BoundsMove
    BY <2>1, BoundAssumption DEF Fails, Asked, IInv, TypeOK, BoundsMove
  <2> QED BY <1>3, <2>1, <2>2, CmdEnds, Unmoved, Steady DEF AllMove, durable
<1> QED BY <1>1, <1>2, <1>3 DEF Releases

\* The end of the activation forgets its memory.
LEMMA FreshKeeps ==
  ASSUME IInv, EndActivation \/ Crash
  PROVE  IInv' /\ NetMoves
<1>1. UNCHANGED <<durable, session, agent, acked, clock>> /\ Fresh
  BY DEF EndActivation, Crash, Fresh
<1>2. Idle \in CmdState /\ Idle.at = "idle"  BY HomeAssumption DEF Idle, CmdState
<1>3. NoDriver \in DriverState /\ NoDriver.at = "off"  BY DEF NoDriver, DriverState
<1>4. cmd' \in [Cmd -> CmdState] /\ \A c \in Cmd : cmd'[c].at = "idle"
  BY <1>1, <1>2 DEF Fresh
<1>5. driver' \in [Run -> DriverState] /\ \A r \in Run : driver'[r].at = "off"
  BY <1>1, <1>3 DEF Fresh
<1>6. CmdsMove /\ DriversMove  BY <1>4, <1>5 DEF CmdsMove, DriversMove, Named
<1>7. Stopped' /\ Sealed' /\ ReleaseVouches'
  <2>1. Stopped'
    <3>1. marked' \subseteq Run  BY <1>1 DEF durable, IInv, TypeOK
    <3> QED BY <1>5, <3>1 DEF Stopped
  <2>2. released' = "no"  BY <1>1 DEF Fresh
  <2>3. Sealed'  BY <1>4, <2>2 DEF Sealed, Stages
  <2> QED BY <2>1, <2>2, <2>3 DEF ReleaseVouches
<1>8. NetMoves  BY <1>1 DEF Fresh, NetMoves
<1>9. MarksMove  BY <1>1 DEF Fresh, MarksMove, durable, IInv, TypeOK
<1>10. WorldMoves
  BY <1>1 DEF Fresh, WorldMoves, IInv, TypeOK, Known, Sessions
<1>11. BoundsMove
  BY BoundAssumption DEF EndActivation, Crash, Asked, spent, IInv, TypeOK, BoundsMove
<1>12. sealed' \in BOOLEAN /\ owed' \in BOOLEAN /\ released' \in {"no", "suspend", "retirement"}
  BY <1>1 DEF Fresh
<1> QED BY <1>1, <1>6, <1>7, <1>8, <1>9, <1>10, <1>11, <1>12, Unmoved, ReleaseKeeps
        DEF AllMove, durable

\* The next activation takes up the runs that are there.
LEMMA RestartKeeps ==
  ASSUME IInv, Restart
  PROVE  IInv' /\ NetMoves
<1>1. UNCHANGED <<durable, cmd, halted, released, world, bounds>> /\ owed
  BY DEF Restart
<1>2. released = "no" /\ \A c \in Cmd : cmd[c].at \notin Stages  BY <1>1 DEF IInv, Sealed
<1>3. [NoDriver EXCEPT !.at = "start"] \in DriverState /\ [NoDriver EXCEPT !.at = "start"].at = "start"
  BY DEF NoDriver, DriverState
<1>4. driver' \in [Run -> DriverState] /\ \A r \in Run :
        driver'[r] = driver[r] \/ (Live(r) /\ driver'[r].at = "start")
  BY <1>3 DEF Restart, IInv, TypeOK
<1>5. DriversMove
  <2>1. \A r \in Run : Live(r) => HasRow(r)  BY DEF Live, HasRow, Phases
  <2> QED BY <1>1, <1>4, <2>1 DEF DriversMove
<1>6. Stopped'  BY <1>1, <1>4 DEF durable, IInv, TypeOK, Stopped
<1>7. Sealed' /\ ReleaseVouches'  BY <1>1, <1>2 DEF Sealed, ReleaseVouches
<1>8. sealed' \in BOOLEAN /\ owed' \in BOOLEAN /\ released' \in {"no", "suspend", "retirement"}
  BY <1>1, <1>2 DEF Restart
<1> QED BY <1>1, <1>5, <1>6, <1>7, <1>8, Unmoved, ReleaseKeeps DEF AllMove, durable, world, bounds

-----------------------------------------------------------------------------
(* The theorems *)

\* The automation was launched and has no runs.
LEMMA InitIInv == Init => IInv
<1> SUFFICES ASSUME Init PROVE IInv  OBVIOUS
<1>1. TypeOK
  <2>1. NoRow \in RowState /\ NoDriver \in DriverState /\ Idle \in CmdState
    BY HomeAssumption DEF NoRow, RowState, NoDriver, DriverState, Idle, CmdState
  <2>2. mission \in MissionState  BY HomeAssumption DEF Init, MissionState
  <2>3. 0 \in 0..MaxTick /\ 0 \in 0..MaxAsk  BY BoundAssumption
  <2>4. row \in [Run -> RowState] /\ cmd \in [Cmd -> CmdState] /\ driver \in [Run -> DriverState]
    BY <2>1 DEF Init
  <2> QED BY <2>2, <2>3, <2>4 DEF Init, TypeOK
<1>2. \A r \in Run : row[r].phase = "none" /\ ~Driven(r)
  BY DEF Init, NoRow, NoDriver, Driven
<1>3. \A c \in Cmd : cmd[c].at = "idle"  BY DEF Init, Idle
<1>4. OneLive /\ RecordedSessionEnds /\ ReleaseVouches /\ AckAfterTerminal
  BY <1>2 DEF Init, OneLive, LiveRuns, Live, Phases, RecordedSessionEnds, ReleaseVouches,
              AckAfterTerminal
<1>5. Sessions  BY <1>2, <1>3 DEF Init, Sessions, Driven
<1>6. Known  BY <1>2, <1>3 DEF Init, Known, Named, Rooted, HasRow
<1>7. Sealed /\ Stopped  BY <1>3 DEF Init, Sealed, Stopped, Stages
<1> QED BY <1>1, <1>4, <1>5, <1>6, <1>7 DEF IInv

\* Every step keeps the invariant and sends no dispatch of a run that is to stop.
LEMMA NextKeeps == IInv /\ [Next]_vars => IInv' /\ NetMoves
<1> SUFFICES ASSUME IInv, [Next]_vars PROVE IInv' /\ NetMoves  OBVIOUS
<1>1. ASSUME NEW r \in Run, DriverStep(r) \/ AgentEnds(r) \/ Reports(r) \/ Acknowledge(r)
      PROVE IInv' /\ NetMoves
  BY <1>1, DriverStepKeeps, AgentEndsKeeps, ReportsKeeps, AcknowledgeKeeps
<1>2. ASSUME NEW c \in Cmd,
             Admission(c) \/ Continues(c) \/ Command(c) \/ Releasing(c) \/ Releases(c)
      PROVE IInv' /\ NetMoves
  BY <1>2, AdmissionKeeps, CommandKeeps, ReleasingKeeps
<1>3. ASSUME NEW q \in net, Serve(q) PROVE IInv' /\ NetMoves
  BY <1>3, ServeKeeps
<1>4. CASE Elapse \/ EndActivation \/ Crash \/ Restart
  BY <1>4, ElapseKeeps, FreshKeeps, RestartKeeps
<1>5. CASE UNCHANGED vars
  BY <1>5, Unmoved, Steady DEF AllMove, vars, durable, memory, world, bounds
<1> QED BY <1>1, <1>2, <1>3, <1>4, <1>5 DEF Next

\* The inductive invariant holds in every reachable state.
THEOREM Invariance == Spec => []IInv
<1>1. IInv /\ [Next]_vars => IInv'  BY NextKeeps
<1> QED BY InitIInv, <1>1, PTL DEF Spec

\* Every variable of the runs of an automation has its type.
THEOREM TypeCorrect == Spec => []TypeOK
<1>1. IInv => TypeOK  BY DEF IInv
<1> QED BY Invariance, <1>1, PTL

\* However requests, occurrences, edits and restarts meet, an automation has at
\* most one run that is not over (admitRun looks again behind its wait).
THEOREM OneRunAtATime == Spec => []OneLive
<1>1. IInv => OneLive  BY DEF IInv
<1> QED BY Invariance, <1>1, PTL

\* A run whose row names a session is over only behind the end of that session,
\* whoever of driver, agent, owner and release ends it.
THEOREM SessionsEndWithRuns == Spec => []RecordedSessionEnds
<1>1. IInv => RecordedSessionEnds  BY DEF IInv
<1> QED BY Invariance, <1>1, PTL

\* What a release answers is so: no driver and no admission is left, and for
\* retirement no run that is not over.
THEOREM ReleasesVouch == Spec => []ReleaseVouches
<1>1. IInv => ReleaseVouches  BY DEF IInv
<1> QED BY Invariance, <1>1, PTL

\* The agent forgets a run only behind its durable terminal row.
THEOREM AcknowledgedIsOver == Spec => []AckAfterTerminal
<1>1. IInv => AckAfterTerminal  BY DEF IInv
<1> QED BY Invariance, <1>1, PTL

\* A stop request that was accepted is followed by no dispatch of its run.
THEOREM StopsHold == Spec => StopHolds
<1>1. IInv /\ [Next]_vars =>
        [\A r \in marked \cap marked' : Request("dispatch", r, "driver") \in net'
           => Request("dispatch", r, "driver") \in net]_vars
  <2> SUFFICES ASSUME IInv, [Next]_vars,
                      NEW r \in marked \cap marked', Request("dispatch", r, "driver") \in net'
               PROVE  Request("dispatch", r, "driver") \in net
    OBVIOUS
  <2>1. NetMoves  BY NextKeeps
  <2>2. /\ Request("dispatch", r, "driver").to = "dispatch"
        /\ Request("dispatch", r, "driver").run = r
    BY DEF Request
  <2> QED BY <2>1, <2>2 DEF NetMoves
<1> QED BY Invariance, <1>1, PTL DEF Spec, StopHolds
=============================================================================
