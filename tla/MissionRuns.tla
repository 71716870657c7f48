------------------------------ MODULE MissionRuns ------------------------------
(***************************************************************************)
(* The runs of an automation: workers/missions/MissionsDO.ts with the side *)
(* of the executing agent, packages/agentic-do/src/                        *)
(* native-automation-runs.ts.                                              *)
(*                                                                         *)
(* One automation whose action is an agent's turn in a fresh conversation. *)
(* A run is admitted into a durable row and walked through its phases by   *)
(* one driver of the activation; the agent keeps its own record of the run *)
(* and reports the outcome.  Commands of the owner, the alarm, the release *)
(* of the activation and its end meet the drivers at every wait.           *)
(***************************************************************************)
EXTENDS Naturals, FiniteSets

CONSTANTS
  Cmd,        \* slots for commands, alarms and releases under way
  Manual,     \* idempotency keys of manual runs
  Digest,     \* digests of revisions: charter and authority plan
  Home,       \* the digest the automation was launched with
  MaxRuns,    \* the charter's maxRuns
  MaxTick,    \* bound: scheduled occurrences
  MaxEdit,    \* bound: revisions after the first
  MaxAsk      \* bound: commands, releases, failed calls and activations that end
              \* unprepared, together

ASSUME HomeAssumption == Home \in Digest
ASSUME CmdAssumption == Cmd \cap {"driver", "all", "report"} = {}
ASSUME BoundAssumption ==
  /\ MaxRuns \in Nat \ {0}
  /\ MaxTick \in Nat /\ MaxEdit \in Nat /\ MaxAsk \in Nat

VARIABLES
  mission,    \* row of missions: state, revision, digest and run_count
  wake,       \* next_run_at: null, in the future or reached
  clock,      \* the scheduled occurrences that were reached
  row,        \* mission_runs
  marked,     \* the runs with a cancel-run marker
  box,        \* mission_effects, without notifications
  cmd,        \* commands under way
  driver,     \* runDrivers with runControllers
  halted,     \* runInterruptions
  sealed,     \* sealed
  released,   \* the mode of the release that was answered as ready
  owed,       \* a resumption the host still has to call
  net,        \* requests to the host and to agents that were not served yet
  session,    \* the host: authority sessions of runs
  agent,      \* the agent's record of a run
  acked,      \* the runs whose record the agent may forget
  report,     \* the agent's finishRun call
  asks, failed  \* what the bound counts, and whether a call failed

durable == <<mission, wake, row, marked, box>>
memory == <<cmd, driver, halted, sealed, released, owed>>
world == <<net, session, agent, acked, report>>
spent == <<asks, failed>>
bounds == <<clock, spent>>
vars == <<durable, memory, world, bounds>>

-----------------------------------------------------------------------------
(* Runs, drivers and commands *)

Asked == asks < MaxAsk /\ asks' = asks + 1
Fails == Asked /\ failed' = TRUE

\* deterministicRunId: a revision and the key of the request or occurrence
Run == Digest \X (Manual \cup 1..MaxTick)

Phases == {"admitted", "context-preparing", "executor-preparing",
           "execution-admitting", "dispatching", "executing"}
\* the outcomes an agent reports; "aborted" is its "cancelled"
Reported == {"succeeded", "aborted"}
Outcomes == Reported \cup {"cancelled", "interrupted", "failed", "skipped"}

NoRow == [phase |-> "none", outcome |-> "none", rev |-> 0,
          session |-> FALSE, executor |-> FALSE]
Live(r) == row[r].phase \in Phases
LiveRuns == {r \in Run : Live(r)}

NoDriver == [at |-> "off", out |-> "none", did |-> FALSE, stop |-> FALSE]
Driven(r) == driver[r].at # "off"
\* mutant: a run is active as long as it has a driver
HasActiveRunDriven == \E r \in LiveRuns : Driven(r)
HasActiveRun == LiveRuns # {}
Off(r) == driver' = [driver EXCEPT ![r] = NoDriver]
Goes(r, at) == driver' = [driver EXCEPT ![r].at = at, ![r].did = FALSE]

Idle == [at |-> "idle", op |-> "none", run |-> <<>>, to |-> Home,
         m |-> [rev |-> 0, digest |-> Home, count |-> 0], did |-> FALSE]
\* the automation as a command read it
Read == [rev |-> mission.rev, digest |-> mission.digest, count |-> mission.count]
At(c, at) == cmd[c].at = at
Ends(c) == cmd' = [cmd EXCEPT ![c] = Idle]
Moves(c, at) == cmd' = [cmd EXCEPT ![c].at = at, ![c].did = FALSE]

Request(to, r, by) == [to |-> to, run |-> r, by |-> by]
Asks(r, at, to) == Goes(r, at) /\ net' = net \cup {Request(to, r, "driver")}



\* completionBeforeRun, with the automation as the caller read it
Complete(m) == m.count >= MaxRuns
\* markCompleted
MarkCompleted ==
  IF mission.state \in {"active", "paused"}
    THEN mission' = [mission EXCEPT !.state = "completed"] /\ wake' = "none"
    ELSE UNCHANGED <<mission, wake>>
\* advanceSchedule
Next_run_at(count) == IF count >= MaxRuns THEN "none" ELSE "set"

Terminal(r, o) ==
  IF Live(r) THEN [row EXCEPT ![r].phase = "terminal", ![r].outcome = o] ELSE row
\* terminalizeRun; a reported outcome is acknowledged through the outbox
TerminalizeRun(r, o) ==
  /\ row' = Terminal(r, o)
  /\ marked' = marked \ {r} /\ halted' = [halted EXCEPT ![r] = "none"]
  /\ IF row[r].rev = mission.rev /\ Complete(mission)
       THEN MarkCompleted ELSE UNCHANGED <<mission, wake>>
  /\ box' = IF o \in Reported THEN box \cup {r} ELSE box

-----------------------------------------------------------------------------
(* The driver of a run: driveRun *)

\* closeAdmission, then the outcome
Finishes(r, o) ==
  \/ /\ row[r].session
     /\ driver' = [driver EXCEPT ![r].at = "close", ![r].out = o, ![r].did = FALSE]
     /\ net' = net \cup {Request("finish", r, "driver")}
     /\ UNCHANGED <<row, marked, halted, mission, wake, box>>
  \/ /\ ~row[r].session
     /\ Off(r) /\ TerminalizeRun(r, o) /\ UNCHANGED net

\* cancelRun: the executor is interrupted first, by one request for all who ask
CancelRun(r) ==
  \/ /\ row[r].executor
     /\ driver' = [driver EXCEPT ![r].at = "interrupt", ![r].did = halted[r] = "done"]
     /\ halted' = [halted EXCEPT ![r] = IF @ = "none" THEN "sent" ELSE @]
     /\ net' = IF halted[r] = "none" THEN net \cup {Request("interrupt", r, "all")} ELSE net
     /\ UNCHANGED <<row, marked, mission, wake, box>>
  \/ ~row[r].executor /\ Finishes(r, "cancelled")

\* the durable phase says which call comes next
Resumes(r) ==
  \/ /\ row[r].phase \in {"admitted", "context-preparing"} /\ Goes(r, "context")
     /\ row' = [row EXCEPT ![r].phase = "context-preparing"]
     /\ UNCHANGED net
  \/ row[r].phase = "executor-preparing" /\ Goes(r, "executor") /\ UNCHANGED <<row, net>>
  \/ row[r].phase = "execution-admitting" /\ Asks(r, "admit", "admit") /\ UNCHANGED row
  \/ row[r].phase = "dispatching" /\ Asks(r, "readmit", "admit") /\ UNCHANGED row
  \/ row[r].phase = "executing" /\ Goes(r, "describe") /\ UNCHANGED <<row, net>>

Obsolete(r) == r[1] # mission.digest \/ mission.state = "retired"
Unlisted(r) == Off(r) /\ marked' = marked \ {r} /\ UNCHANGED <<row, halted, net, mission, wake, box>>

\* checkRunCancellation throws: the marker survives activations
DriverStart(r) ==
  /\ driver[r].at = "start"
  /\ \/ ~Live(r) /\ Off(r) /\ UNCHANGED <<row, marked, halted, net, mission, wake, box>>
     \/ Live(r) /\ r \in marked /\ CancelRun(r)
     \/ Live(r) /\ r \notin marked /\ Obsolete(r) /\ Finishes(r, "interrupted")
     \/ /\ Live(r) /\ r \notin marked /\ ~Obsolete(r) /\ Resumes(r)
        /\ UNCHANGED <<marked, halted, mission, wake, box>>

\* createContext and activateChannel were answered
Prepared(r) ==
  /\ driver[r].at = "context"
  /\ \/ ~Live(r) /\ Off(r) /\ UNCHANGED row
     \/ /\ Live(r) /\ Goes(r, IF r \in marked THEN "caught" ELSE "executor")
        /\ row' = [row EXCEPT ![r].phase = "executor-preparing"]
  /\ UNCHANGED <<marked, halted, net, mission, wake, box>>

\* createEntity and subscribeChannel were answered
Targeted(r) ==
  /\ driver[r].at = "executor"
  /\ \/ ~Live(r) /\ Off(r) /\ UNCHANGED <<row, net>>
     \/ /\ Live(r)
        /\ row' = [row EXCEPT ![r].phase = "execution-admitting", ![r].executor = TRUE]
        /\ \/ r \in marked /\ Goes(r, "caught") /\ UNCHANGED net
           \/ r \notin marked /\ Asks(r, "admit", "admit")
  /\ UNCHANGED <<marked, halted, mission, wake, box>>

\* admitExecution was answered in execution-admitting: the session is recorded
Admitted(r) ==
  /\ driver[r].at = "admit" /\ driver[r].did
  /\ \/ ~Live(r) /\ Off(r) /\ UNCHANGED <<row, net>>
     \/ /\ Live(r)
        /\ row' = [row EXCEPT ![r].phase = "dispatching", ![r].session = TRUE]
        /\ \/ r \in marked /\ Goes(r, "caught") /\ UNCHANGED net
           \/ r \notin marked /\ Asks(r, "readmit", "admit")
  /\ UNCHANGED <<marked, halted, mission, wake, box>>

\* mutant: the dispatch is sent without another look at the cancellation
GateOpen(r) == TRUE
\* the gate before the dispatch; a call under an aborted signal is not sent, and
\* the way back from executing has no other gate
Gate(r) == ~driver[r].stop /\ (driver[r].at = "redo" \/ r \notin marked)
Readmitted(r) ==
  /\ driver[r].at \in {"readmit", "redo"} /\ driver[r].did
  /\ row' = [row EXCEPT ![r].session = @ \/ Live(r)]
  /\ \/ Gate(r) /\ Asks(r, "dispatch", "dispatch")
     \/ ~Gate(r) /\ Goes(r, "caught") /\ UNCHANGED net
  /\ UNCHANGED <<marked, halted, mission, wake, box>>

Dispatched(r) ==
  /\ driver[r].at = "dispatch" /\ driver[r].did
  /\ row' = IF Live(r) THEN [row EXCEPT ![r].phase = "executing"] ELSE row
  /\ IF r \in marked THEN Goes(r, "caught") ELSE Off(r)
  /\ UNCHANGED <<marked, halted, net, mission, wake, box>>

\* describe: an acknowledged run is not found any more
Describe(r) ==
  /\ driver[r].at = "describe" /\ ~driver[r].did
  /\ driver' = [driver EXCEPT ![r].did = TRUE,
       ![r].out = IF agent[r] = "none" \/ r \in acked THEN "not-found" ELSE agent[r]]
  /\ UNCHANGED <<row, marked, halted, net, mission, wake, box>>

\* reconcileAgentExecution
Described(r) ==
  /\ driver[r].at = "describe" /\ driver[r].did
  /\ \/ /\ driver[r].out = "running" /\ Off(r)
        /\ UNCHANGED <<row, marked, halted, net, mission, wake, box>>
     \/ /\ driver[r].out = "not-found" /\ Asks(r, "redo", "admit")
        /\ row' = IF Live(r) THEN [row EXCEPT ![r].phase = "dispatching"] ELSE row
        /\ UNCHANGED <<marked, halted, mission, wake, box>>
     \/ driver[r].out \in Reported /\ Finishes(r, driver[r].out)

\* those who wait for a driver that fails: cancel, and a release that joins it
Rejected(r, stages) ==
  cmd' = [c \in Cmd |-> IF \/ cmd[c].at \in stages
                           \/ cmd[c].at \in {"join", "await"} /\ cmd[c].run = r
                          THEN Idle ELSE cmd[c]]

\* a call of driveRun is refused, lost or aborted; its effect may still come
Rejects(r) ==
  /\ \/ driver[r].at \in {"context", "executor", "admit", "readmit", "redo", "dispatch", "describe"}
     \/ driver[r].at = "close" /\ driver[r].out \in Reported \cup {"interrupted"}
  /\ \/ driver[r].stop /\ driver[r].at # "close" /\ UNCHANGED spent
        /\ driver' = [driver EXCEPT ![r].at = "caught", ![r].out = "permanent"]
     \/ /\ Fails
        /\ \E retry \in {"automatic", "permanent"} :
             driver' = [driver EXCEPT ![r].at = "caught", ![r].out = retry]
  /\ UNCHANGED <<row, marked, halted, net, mission, wake, box, cmd>>

\* the catch of driveRun
Caught(r) ==
  /\ driver[r].at = "caught"
  /\ \/ ~Live(r) /\ Unlisted(r) /\ UNCHANGED cmd
     \/ Live(r) /\ r \in marked /\ CancelRun(r) /\ UNCHANGED cmd
     \/ /\ Live(r) /\ r \notin marked /\ driver[r].out = "automatic"
        /\ Off(r) /\ Rejected(r, {"drivers"})
        /\ UNCHANGED <<row, marked, halted, net, mission, wake, box>>
     \/ /\ Live(r) /\ r \notin marked /\ driver[r].out # "automatic"
        /\ Finishes(r, "failed") /\ UNCHANGED cmd

\* cancelRun goes on behind the interruption
Interrupted(r) ==
  /\ driver[r].at = "interrupt" /\ driver[r].did
  /\ \/ ~Live(r) /\ Unlisted(r)
     \/ Live(r) /\ Finishes(r, "cancelled")

Closed(r) ==
  /\ driver[r].at = "close" /\ driver[r].did
  /\ TerminalizeRun(r, driver[r].out) /\ Off(r) /\ UNCHANGED net

\* the catch itself cannot close the admission: the marker stays, or the run is deferred
CatchFails(r) ==
  /\ driver[r].at = "close" /\ driver[r].out \in {"cancelled", "failed"}
  /\ Fails /\ Off(r) /\ Rejected(r, {"drivers"})
  /\ UNCHANGED <<row, marked, halted, net, mission, wake, box>>

\* interruptRun fails for all who wait for it; the next one asks again
InterruptFails(r) ==
  /\ halted[r] = "sent" /\ Fails
  /\ halted' = [halted EXCEPT ![r] = "none"]
  /\ driver' = [driver EXCEPT ![r] = IF @.at = "interrupt" THEN NoDriver ELSE @]
  /\ Rejected(r, IF driver[r].at = "interrupt" THEN {"halt", "drivers"} ELSE {"halt"})
  /\ UNCHANGED <<row, marked, net, mission, wake, box>>

Drives(r) ==
  \/ /\ \/ DriverStart(r) \/ Prepared(r) \/ Targeted(r) \/ Admitted(r) \/ Readmitted(r)
        \/ Dispatched(r) \/ Describe(r) \/ Described(r) \/ Interrupted(r) \/ Closed(r)
     /\ UNCHANGED cmd
  \/ Caught(r)
DriverStep(r) ==
  /\ \/ Drives(r) /\ UNCHANGED spent
     \/ Rejects(r) \/ CatchFails(r) \/ InterruptFails(r)
  /\ UNCHANGED <<sealed, released, owed, session, agent, acked, report, clock>>

-----------------------------------------------------------------------------
(* Runs are admitted *)

Begins(c, op, at, r) ==
  cmd' = [cmd EXCEPT ![c] = [at |-> at, op |-> op, run |-> r, to |-> Home, m |-> Read, did |-> FALSE]]

\* runNow: requireActive, then ensureAuthority
RunNow(c, k) ==
  /\ At(c, "idle") /\ mission.state = "active"
  /\ Begins(c, "run", "authority", <<mission.digest, k>>)
  /\ UNCHANGED <<durable, driver, halted, sealed, net, clock, failed>>

\* alarm, for an automation that is due
Alarm(c) ==
  /\ At(c, "idle") /\ mission.state = "active" /\ wake = "due"
  /\ \A o \in Cmd : cmd[o].op # "alarm"
  /\ Begins(c, "alarm", "authority", <<mission.digest, clock>>)
  /\ UNCHANGED <<durable, driver, halted, sealed, net, clock, failed>>

\* ensureAuthority was answered; an occurrence missed is not made up for
Authorized(c) ==
  /\ At(c, "authority")
  /\ \/ ~sealed /\ Moves(c, "own") /\ UNCHANGED <<mission, wake>>
     \/ sealed /\ Ends(c) /\ UNCHANGED <<mission, wake>>
     \/ /\ cmd[c].op = "alarm" /\ Ends(c) /\ UNCHANGED mission
        /\ ~Complete(cmd[c].m) /\ wake' = Next_run_at(cmd[c].m.count)
  /\ cmd[c].op = "alarm" => ~Complete(cmd[c].m)
  /\ UNCHANGED <<row, marked, box, driver, halted, sealed, net, clock, failed>>

\* the alarm finds the limit reached: the last run may still be under way
Completes(c) ==
  /\ At(c, "authority") /\ cmd[c].op = "alarm" /\ Complete(cmd[c].m)
  /\ IF ~HasActiveRun THEN MarkCompleted ELSE UNCHANGED <<mission, wake>>
  /\ Ends(c)
  /\ UNCHANGED <<row, marked, box, driver, halted, sealed, net, clock, failed>>

\* the seal rejects an admission, and with it the release that waits for it,
\* unless that release had not looked yet
Unsettled(c) ==
  \/ Ends(c)
  \/ cmd' = [o \in Cmd |-> IF o = c \/ At(o, "settle") THEN Idle ELSE cmd[o]]

\* admitRun up to the wait for the run's id
Own(c) ==
  /\ At(c, "own")
  /\ \/ sealed /\ Unsettled(c) /\ UNCHANGED <<mission, wake>>
     \/ ~sealed /\ Complete(cmd[c].m) /\ MarkCompleted /\ Ends(c)
     \/ ~sealed /\ ~Complete(cmd[c].m) /\ Moves(c, "name") /\ UNCHANGED <<mission, wake>>
  /\ UNCHANGED <<row, marked, box, driver, halted, sealed, net, clock, failed>>

Admissible(c) == mission.state = "active" /\ mission.digest = cmd[c].m.digest
Advances(c, n) == wake' = IF cmd[c].op = "alarm" THEN Next_run_at(n) ELSE wake

\* admitRun behind that wait: everything is looked at again
AdmitRun(c) ==
  LET r == cmd[c].run
      n == cmd[c].m.count + 1
      Row(p, o) == [row EXCEPT ![r] = [NoRow EXCEPT !.phase = p, !.outcome = o, !.rev = cmd[c].m.rev]]
  IN /\ At(c, "name")
     /\ \/ sealed /\ Unsettled(c) /\ UNCHANGED <<row, mission, wake>>
        \/ ~sealed /\ row[r] # NoRow /\ Moves(c, "drive") /\ UNCHANGED <<row, mission, wake>>
        \/ ~sealed /\ row[r] = NoRow /\ ~Admissible(c) /\ Ends(c) /\ UNCHANGED <<row, mission, wake>>
        \/ /\ ~sealed /\ row[r] = NoRow /\ Admissible(c) /\ HasActiveRun
           /\ row' = Row("terminal", "skipped") /\ Advances(c, n - 1)
           /\ Ends(c) /\ UNCHANGED mission
        \/ /\ ~sealed /\ row[r] = NoRow /\ Admissible(c) /\ ~HasActiveRun
           /\ row' = Row("admitted", "none") /\ Advances(c, n)
           /\ mission' = [mission EXCEPT !.count = n]
           /\ Moves(c, "drive")
     /\ UNCHANGED <<marked, box, driver, halted, sealed, net, clock, failed>>

Starts(r) == driver' = [driver EXCEPT ![r] = [NoDriver EXCEPT !.at = "start"]]

\* advanceRun: one driver per run; an alarm waits for it
AdvanceRun(c) ==
  /\ At(c, "drive")
  /\ IF sealed \/ Driven(cmd[c].run) THEN UNCHANGED driver ELSE Starts(cmd[c].run)
  /\ IF cmd[c].op = "alarm" /\ driver'[cmd[c].run].at # "off" THEN Moves(c, "await") ELSE Ends(c)
  /\ UNCHANGED <<durable, halted, sealed, net, clock, failed>>

Admission(c) ==
  /\ \/ Alarm(c) \/ Authorized(c) \/ Completes(c) \/ Own(c) \/ AdmitRun(c) \/ AdvanceRun(c)
  /\ UNCHANGED <<asks, released, owed, session, agent, acked, report>>

-----------------------------------------------------------------------------
(* The owner's commands *)

Quiet == UNCHANGED <<halted, sealed, clock, failed>>
Stops(R) == driver' = [r \in Run |-> [driver[r] EXCEPT !.stop = @ \/ (r \in R /\ Driven(r))]]

\* cancel: the marker is durable before the driver hears of it
Cancel(c) ==
  /\ At(c, "idle")
  /\ IF mission.state = "active"
       THEN mission' = [mission EXCEPT !.state = "paused"] /\ wake' = "none"
       ELSE UNCHANGED <<mission, wake>>
  /\ marked' = marked \cup LiveRuns /\ Stops(LiveRuns)
  /\ \/ LiveRuns = {} /\ UNCHANGED cmd
     \/ \E r \in LiveRuns : Begins(c, "cancel", IF Driven(r) THEN "join" ELSE "again", r)
  /\ Quiet /\ UNCHANGED <<row, box, net>>

\* the driver that was there is joined, then the run is advanced under its marker
Joined(c) ==
  /\ At(c, "join") /\ ~Driven(cmd[c].run) /\ Moves(c, "again")
  /\ Quiet /\ UNCHANGED <<durable, driver, net>>
Again(c) ==
  /\ At(c, "again")
  /\ \/ Driven(cmd[c].run) /\ Moves(c, "await") /\ UNCHANGED driver
     \/ ~Driven(cmd[c].run) /\ sealed /\ Ends(c) /\ UNCHANGED driver
     \/ ~Driven(cmd[c].run) /\ ~sealed /\ Moves(c, "await") /\ Starts(cmd[c].run)
  /\ Quiet /\ UNCHANGED <<durable, net>>
Awaited(c) ==
  /\ At(c, "await") /\ ~Driven(cmd[c].run) /\ Ends(c)
  /\ marked' = IF cmd[c].op = "cancel" /\ ~Live(cmd[c].run) THEN marked \ {cmd[c].run} ELSE marked
  /\ Quiet /\ UNCHANGED <<mission, wake, row, box, driver, net>>

Pause ==
  /\ mission.state = "active"
  /\ mission' = [mission EXCEPT !.state = "paused"] /\ wake' = "none"
  /\ Quiet /\ UNCHANGED <<row, marked, box, cmd, driver, net>>

\* resume: an unfinished cancellation is in the way
Resume ==
  /\ mission.state = "paused" /\ LiveRuns \cap marked = {}
  /\ IF Complete(mission) THEN MarkCompleted
       ELSE mission' = [mission EXCEPT !.state = "active"] /\ wake' = "set"
  /\ Quiet /\ UNCHANGED <<row, marked, box, cmd, driver, net>>

\* interruptRunsForRevision behind a change of the revision: no driver is
\* aborted or joined
Interrupts(c, d) ==
  LET Of == {r \in LiveRuns : r[1] = d}
  IN \/ Of = {} /\ Ends(c) /\ UNCHANGED <<row, marked, halted, net>>
     \/ \E r \in Of : row[r].session
          /\ cmd' = [cmd EXCEPT ![c] = [Idle EXCEPT !.at = "closing", !.run = r]]
          /\ net' = net \cup {Request("finish", r, c)}
          /\ UNCHANGED <<row, marked, halted>>
     \/ \E r \in Of : ~row[r].session
          /\ row' = Terminal(r, "interrupted") /\ marked' = marked \ {r}
          /\ halted' = [halted EXCEPT ![r] = "none"]
          /\ Ends(c) /\ UNCHANGED net
Closing(c) ==
  /\ At(c, "closing") /\ cmd[c].did
  /\ TerminalizeRun(cmd[c].run, "interrupted") /\ Ends(c)
  /\ UNCHANGED <<driver, net, sealed, clock, failed>>

\* edit in its transaction, with the automation as the command read it
Revise(c, m, d) ==
  /\ mission' = [state |-> "active", rev |-> m.rev + 1, digest |-> d, count |-> mission.count]
  /\ wake' = "set" /\ UNCHANGED box
  /\ Interrupts(c, m.digest)
  /\ UNCHANGED <<driver, sealed, clock, failed>>

Editable == mission.state # "retired" /\ mission.rev <= MaxEdit
\* a new name, or another schedule: nothing is waited for
Edit(c, d) == At(c, "idle") /\ Editable /\ Revise(c, Read, d)
\* a new plan is verified first
EditPlan(c, d) ==
  /\ At(c, "idle") /\ Editable
  /\ cmd' = [cmd EXCEPT ![c] = [Idle EXCEPT !.at = "verify", !.op = "edit", !.to = d, !.m = Read]]
  /\ Quiet /\ UNCHANGED <<durable, driver, net>>
\* mission_revisions keeps every revision once
Verified(c) ==
  /\ At(c, "verify")
  /\ \/ mission.rev = cmd[c].m.rev /\ Revise(c, cmd[c].m, cmd[c].to)
     \/ /\ mission.rev # cmd[c].m.rev /\ Ends(c)
        /\ Quiet /\ UNCHANGED <<durable, driver, net>>

Retire(c) ==
  /\ At(c, "idle")
  /\ mission' = [mission EXCEPT !.state = "retired"] /\ wake' = "none"
  /\ UNCHANGED box
  /\ Interrupts(c, mission.digest)
  /\ UNCHANGED <<driver, sealed, clock, failed>>

\* a call of a command fails; what it asked for may still come
CommandFails(c) ==
  /\ cmd[c].at \in {"authority", "verify", "closing"} /\ Fails /\ Ends(c)
  /\ UNCHANGED <<durable, driver, halted, sealed, net, clock>>

Continues(c) ==
  /\ \/ (Joined(c) \/ Again(c) \/ Awaited(c) \/ Verified(c) \/ Closing(c)) /\ UNCHANGED asks
     \/ CommandFails(c)
  /\ UNCHANGED <<released, owed, session, agent, acked, report>>
Command(c) ==
  /\ Asked
  /\ \/ Cancel(c) \/ Pause \/ Resume \/ Retire(c)
     \/ \E k \in Manual : RunNow(c, k)
     \/ \E d \in Digest : Edit(c, d) \/ EditPlan(c, d)
  /\ UNCHANGED <<released, owed, session, agent, acked, report>>

-----------------------------------------------------------------------------
(* The agent and the host *)

\* a request takes effect, and whoever still waits for it hears of it
Waits(to) == CASE to = "admit" -> {"admit", "readmit", "redo"} [] to = "finish" -> {"close"}
               [] to = "dispatch" -> {"dispatch"} [] to = "interrupt" -> {"interrupt"}
Heard(q) ==
  /\ driver' = [driver EXCEPT ![q.run].did =
       @ \/ (q.by \in {"driver", "all"} /\ driver[q.run].at \in Waits(q.to))]
  /\ cmd' = [c \in Cmd |-> [cmd[c] EXCEPT !.did =
       @ \/ (q.by = c /\ cmd[c].at \in {"closing", "swept"} /\ cmd[c].run = q.run)]]
  /\ report' = [report EXCEPT ![q.run] = IF q.by = "report" /\ @ = "closing" THEN "closed"
                                          ELSE IF q.to = "interrupt" /\ agent[q.run] = "running" THEN "owed"
                                          ELSE @]
Served(q) ==
  /\ session' = [session EXCEPT ![q.run] = IF q.to = "finish" THEN "finished"
                                            ELSE IF q.to = "admit" /\ @ = "none" THEN "open" ELSE @]
  /\ agent' = [agent EXCEPT ![q.run] = IF q.to = "dispatch" /\ @ = "none" THEN "running"
                                        ELSE IF q.to = "interrupt" /\ @ = "running" THEN "aborted" ELSE @]
  /\ halted' = [halted EXCEPT ![q.run] = IF q.to = "interrupt" /\ @ = "sent" THEN "done" ELSE @]
Serve(q) ==
  /\ q \in net /\ net' = net \ {q}
  /\ Heard(q) /\ Served(q)
  /\ UNCHANGED <<durable, sealed, released, owed, acked, bounds>>

\* the turn is over: its record is terminal and finishRun is called
AgentEnds(r) ==
  /\ agent[r] = "running"
  /\ agent' = [agent EXCEPT ![r] = "succeeded"] /\ report' = [report EXCEPT ![r] = "owed"]
  /\ UNCHANGED <<durable, memory, net, session, acked, bounds>>

Tells(r, to) == report' = [report EXCEPT ![r] = to]
\* mutant: the reported outcome is stored before the session is finished
FinishRunAtOnce(r) ==
  /\ report[r] = "owed" /\ Tells(r, "told") /\ UNCHANGED net
  /\ \/ Live(r) /\ TerminalizeRun(r, agent[r])
     \/ ~Live(r) /\ box' = box \cup {r} /\ UNCHANGED <<row, marked, halted, mission, wake>>
\* finishRun; a run whose agent ran has its session recorded
FinishRun(r) ==
  /\ report[r] = "owed"
  /\ \/ ~Live(r) /\ Tells(r, "told") /\ box' = box \cup {r}
        /\ UNCHANGED <<row, marked, halted, mission, wake, net>>
     \/ Live(r) /\ Tells(r, "closing")
        /\ net' = net \cup {Request("finish", r, "report")}
        /\ UNCHANGED <<row, marked, halted, mission, wake, box>>
Finished(r) ==
  /\ report[r] = "closed" /\ Tells(r, "told")
  /\ TerminalizeRun(r, agent[r]) /\ UNCHANGED net
\* the finish task parks its failure until the agent's own activation is
\* released or resumed
ReportFails(r) ==
  /\ report[r] \in {"owed", "closing"} /\ Fails /\ Tells(r, "parked")
  /\ UNCHANGED <<durable, halted, net>>
ReportAgain(r) ==
  /\ report[r] = "parked" /\ Tells(r, "owed")
  /\ UNCHANGED <<durable, halted, net, spent>>
Report(r) == (FinishRun(r) \/ Finished(r)) /\ UNCHANGED spent
Reports(r) ==
  /\ Report(r) \/ ReportFails(r) \/ ReportAgain(r)
  /\ UNCHANGED <<cmd, driver, sealed, released, owed, session, agent, acked, clock>>

\* reconcileEffects: the alarm, every command and the resumption drain the outbox
Acknowledge(r) ==
  /\ r \in box /\ box' = box \ {r}
  /\ acked' = IF agent[r] \in Reported THEN acked \cup {r} ELSE acked
  /\ UNCHANGED <<mission, wake, row, marked, memory, net, session, agent, report, bounds>>

Elapse ==
  /\ wake = "set" /\ clock < MaxTick
  /\ wake' = "due" /\ clock' = clock + 1
  /\ UNCHANGED <<mission, row, marked, box, memory, world, spent>>

-----------------------------------------------------------------------------
(* The release of the activation and its end *)

\* releaseForLifecycle; the host repeats a release that failed
Release(c, mode) ==
  /\ At(c, "idle") /\ ~owed /\ released = "no" /\ \A o \in Cmd : cmd[o].op \notin {"suspend", "retirement"}
  /\ Asked
  /\ sealed' = TRUE /\ cmd' = [cmd EXCEPT ![c] = [Idle EXCEPT !.at = "settle", !.op = mode]]
  /\ UNCHANGED <<durable, driver, halted, net, released, failed>>

Halts(r) == row[r].executor /\ halted[r] = "none"
\* every admission was settled
Settled(c) ==
  /\ At(c, "settle") /\ \A o \in Cmd : cmd[o].at \notin {"own", "name"}
  /\ \/ cmd[c].op = "suspend" /\ Moves(c, "drivers") /\ UNCHANGED <<marked, driver, halted, net>>
     \/ /\ cmd[c].op = "retirement" /\ Moves(c, "halt")
        /\ marked' = marked \cup LiveRuns /\ Stops(LiveRuns)
        /\ halted' = [r \in Run |-> IF r \in LiveRuns /\ Halts(r) THEN "sent" ELSE halted[r]]
        /\ net' = net \cup {Request("interrupt", r, "all") : r \in {l \in LiveRuns : Halts(l)}}
  /\ UNCHANGED <<mission, wake, row, box, released, failed>>
HaltedAll(c) ==
  /\ At(c, "halt") /\ \A r \in Run : halted[r] # "sent"
  /\ Moves(c, "drivers") /\ UNCHANGED <<durable, driver, halted, net, released, failed>>
\* mutant: the drivers that were aborted are not joined
JoinedAllAborted(c) ==
  /\ At(c, "drivers")
  /\ \/ cmd[c].op = "suspend" /\ Ends(c) /\ released' = "suspend"
     \/ cmd[c].op = "retirement" /\ Moves(c, "sweep") /\ UNCHANGED released
  /\ UNCHANGED <<durable, driver, halted, net, failed>>
JoinedAll(c) ==
  /\ At(c, "drivers") /\ \A r \in Run : ~Driven(r)
  /\ \/ cmd[c].op = "suspend" /\ Ends(c) /\ released' = "suspend"
     \/ cmd[c].op = "retirement" /\ Moves(c, "sweep") /\ UNCHANGED released
  /\ UNCHANGED <<durable, driver, halted, net, failed>>

\* cancelRun for what no driver ended, then the outbox
Sweep(c) ==
  /\ At(c, "sweep")
  /\ \/ \E r \in LiveRuns : row[r].session
          /\ cmd' = [cmd EXCEPT ![c].at = "swept", ![c].run = r, ![c].did = FALSE]
          /\ net' = net \cup {Request("finish", r, c)}
          /\ UNCHANGED <<durable, halted, released>>
     \/ \E r \in LiveRuns : ~row[r].session
          /\ TerminalizeRun(r, "cancelled") /\ UNCHANGED <<cmd, net, released>>
     \/ /\ LiveRuns = {} /\ box = {} /\ Ends(c) /\ released' = "retirement"
        /\ UNCHANGED <<durable, halted, net>>
  /\ UNCHANGED <<driver, failed>>
Swept(c) ==
  /\ At(c, "swept") /\ cmd[c].did
  /\ TerminalizeRun(cmd[c].run, "cancelled") /\ Moves(c, "sweep")
  /\ UNCHANGED <<driver, net, released, failed>>
\* a call of the release fails, the outbox included: sealed stays
ReleaseFails(c) ==
  /\ cmd[c].at \in {"sweep", "swept"} /\ Fails /\ Ends(c)
  /\ UNCHANGED <<durable, driver, halted, net, released>>

Releasing(c) ==
  /\ Settled(c) \/ HaltedAll(c) \/ JoinedAll(c) \/ Sweep(c) \/ Swept(c)
  /\ UNCHANGED <<sealed, owed, session, agent, acked, report, clock, asks>>
Releases(c) ==
  /\ \/ (\E mode \in {"suspend", "retirement"} : Release(c, mode))
     \/ ReleaseFails(c) /\ UNCHANGED sealed
  /\ UNCHANGED <<owed, session, agent, acked, report, clock>>

\* the activation is gone: what it asked for may still take effect
Fresh ==
  /\ cmd' = [c \in Cmd |-> Idle] /\ driver' = [r \in Run |-> NoDriver]
  /\ halted' = [r \in Run |-> "none"]
  /\ sealed' = FALSE /\ released' = "no" /\ owed' = TRUE
  /\ report' = [r \in Run |-> IF report[r] \in {"closing", "closed"} THEN "parked" ELSE report[r]]
  /\ net' \in {net, {}}
  /\ UNCHANGED <<durable, session, agent, acked, clock>>
EndActivation == released = "suspend" /\ Fresh /\ UNCHANGED spent
Crash == released # "retirement" /\ Asked /\ Fresh /\ UNCHANGED failed

\* mutant: the runs are left to the next occurrence
RestartAlone ==
  /\ owed /\ owed' = FALSE /\ sealed' = FALSE
  /\ UNCHANGED <<durable, cmd, driver, halted, released, world, bounds>>
\* resumeAfterRestart with resumeRuns
Restart ==
  /\ owed /\ owed' = FALSE /\ sealed' = FALSE
  /\ driver' = [r \in Run |-> IF Live(r) /\ ~Driven(r) THEN [NoDriver EXCEPT !.at = "start"] ELSE driver[r]]
  /\ UNCHANGED <<durable, cmd, halted, released, world, bounds>>

-----------------------------------------------------------------------------
(* The automation was launched: it is active and waits for its schedule *)

Init ==
  /\ mission = [state |-> "active", rev |-> 1, digest |-> Home, count |-> 0] /\ wake = "set"
  /\ row = [r \in Run |-> NoRow] /\ marked = {} /\ box = {}
  /\ cmd = [c \in Cmd |-> Idle] /\ driver = [r \in Run |-> NoDriver]
  /\ halted = [r \in Run |-> "none"] /\ sealed = FALSE /\ released = "no" /\ owed = FALSE
  /\ net = {}
  /\ session = [r \in Run |-> "none"] /\ agent = [r \in Run |-> "none"]
  /\ acked = {} /\ report = [r \in Run |-> "no"]
  /\ clock = 0 /\ asks = 0 /\ failed = FALSE

Next ==
  \/ \E r \in Run : DriverStep(r) \/ AgentEnds(r) \/ Reports(r) \/ Acknowledge(r)
  \/ \E c \in Cmd : Admission(c) \/ Continues(c) \/ Command(c) \/ Releasing(c) \/ Releases(c)
  \/ \E q \in net : Serve(q)
  \/ Elapse \/ EndActivation \/ Crash \/ Restart

Spec == Init /\ [][Next]_vars

\* What is under way goes on: drivers and commands, the calls they wait for, an
\* agent's turn and its report, and the host's end of a released activation.
\* One condition is enough for all that does not go on for ever; a sealed
\* activation may refuse one alarm after the other, so admissions have their own.
Onward ==
  \/ \E r \in Run : DriverStep(r) \/ AgentEnds(r) \/ Acknowledge(r)
  \/ \E r \in Run : report[r] # "parked" /\ Reports(r)
  \/ \E c \in Cmd : Continues(c) \/ Releasing(c)
  \/ \E q \in net : Serve(q)
  \/ Restart \/ EndActivation
Fairness ==
  /\ WF_vars(Onward /\ UNCHANGED spent)
  /\ \A c \in Cmd : WF_vars(~At(c, "idle") /\ Admission(c))
FairSpec == Spec /\ Fairness

-----------------------------------------------------------------------------
(* Properties *)

MissionState == [state : {"active", "paused", "completed", "retired"}, rev : Nat,
                 digest : Digest, count : Nat]
RowState == [phase : Phases \cup {"none", "terminal"}, outcome : Outcomes \cup {"none"},
             rev : Nat, session : BOOLEAN, executor : BOOLEAN]
CmdState == [at : {"idle", "authority", "own", "name", "drive", "join", "again", "await",
                   "verify", "closing", "settle", "halt", "drivers", "sweep", "swept"},
             op : {"none", "run", "alarm", "cancel", "edit", "suspend", "retirement"},
             run : Run \cup {<<>>}, to : Digest,
             m : [rev : Nat, digest : Digest, count : Nat], did : BOOLEAN]
DriverState == [at : {"off", "start", "context", "executor", "admit", "readmit", "redo",
                      "dispatch", "describe", "close", "interrupt", "caught"},
                out : Outcomes \cup {"none", "running", "not-found", "automatic", "permanent"},
                did : BOOLEAN, stop : BOOLEAN]
RequestState == [to : {"admit", "finish", "dispatch", "interrupt"}, run : Run,
                 by : Cmd \cup {"driver", "all", "report"}]
\* Every variable has its type.
TypeOK ==
  /\ mission \in MissionState /\ wake \in {"none", "set", "due"} /\ clock \in 0..MaxTick
  /\ row \in [Run -> RowState] /\ marked \subseteq Run /\ box \subseteq Run
  /\ cmd \in [Cmd -> CmdState] /\ driver \in [Run -> DriverState]
  /\ halted \in [Run -> {"none", "sent", "done"}]
  /\ sealed \in BOOLEAN /\ owed \in BOOLEAN /\ released \in {"no", "suspend", "retirement"}
  /\ net \subseteq RequestState
  /\ session \in [Run -> {"none", "open", "finished"}]
  /\ agent \in [Run -> {"none", "running"} \cup Reported] /\ acked \subseteq Run
  /\ report \in [Run -> {"no", "owed", "closing", "closed", "told", "parked"}]
  /\ asks \in 0..MaxAsk /\ failed \in BOOLEAN

\* However manual runs, occurrences of the schedule, edits and restarts meet, an
\* automation has at most one run that is not over (admitRun, line 1459).
OneLive == \A r, s \in LiveRuns : r = s

\* A stop request that was accepted is never followed by a dispatch of its run,
\* not even from another activation (MissionsDO.ts:137 and :1040).
StopHolds ==
  [][\A r \in marked \cap marked' : Request("dispatch", r, "driver") \in net' => Request("dispatch", r, "driver") \in net]_vars

\* A run whose record names an authority session is not over before that session
\* is finished (closeAdmission before every terminalizeRun).
RecordedSessionEnds ==
  \A r \in Run : row[r].phase = "terminal" /\ row[r].session => session[r] = "finished"

\* The agent may forget a run only when its terminal row is durable
\* (agent-vessel.ts:2095).
AckAfterTerminal == \A r \in acked : row[r].phase = "terminal"

\* A release that was answered as ready left no driver and no admission behind,
\* and the release for retirement no run that is not over.
ReleaseVouches ==
  released # "no" =>
    /\ \A r \in Run : ~Driven(r)
    /\ \A c \in Cmd : cmd[c].at \notin {"own", "name"}
    /\ released = "retirement" => LiveRuns = {}

\* the host has not repeated a release that failed
Stranded == sealed /\ released = "no" /\ \A c \in Cmd : cmd[c].op \notin {"suspend", "retirement"}
\* Every run that was admitted comes to its end, over releases, restarts, edits
\* and cancellations (releaseForLifecycle, resumeAfterRestart, cancel), unless a
\* call failed on the way or the end of an activation cut the agent's report off:
\* that report waits for a restart of the agent itself.
RunsEnd == \A r \in Run : Live(r) ~> ~Live(r) \/ failed \/ Stranded \/ report[r] = "parked"

\* A retired automation stays retired ("`retire` permanently stops new runs",
\* skills/automations/SKILL.md:228): refuted, an edit that verifies its plan
\* meanwhile makes it active again.
RetiredStays == [][mission.state = "retired" => mission'.state = "retired"]_vars
\* "`maxRuns` counts admitted runs" (skills/automations/SKILL.md:219): refuted,
\* two admissions that started side by side write the same count.
MaxRunsHolds == Cardinality({r \in Run : row[r].phase # "none" /\ row[r].outcome # "skipped"}) <= MaxRuns
==============================================================================
