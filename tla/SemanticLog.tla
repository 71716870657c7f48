----------------------------- MODULE SemanticLog ------------------------------
(***************************************************************************)
(* The log authority of the semantic workspace as channels use it:         *)
(* initializeLogHead, appendLogEvent and forkLog of                        *)
(* workers/workspace-source/GadWorkspaceDO.ts, each one transaction.       *)
(*                                                                         *)
(* A log is the sequence of the events of its lineage, inherited ones      *)
(* first.  An event stands for its envelope id with its content.  The hash *)
(* chain commits to everything before it, so the hash at a sequence number *)
(* is the prefix up to it.                                                 *)
(***************************************************************************)
EXTENDS Naturals, Sequences, SequencesExt

CONSTANTS Absent, NoParent

Prefix(s, n) == SubSeq(s, 1, n)
RootLog == [parent |-> NoParent, forkSeq |-> 0, events |-> <<>>]
EventsOf(graph, log) == IF graph[log] = Absent THEN <<>> ELSE graph[log].events

Refusal(graph) == [ok |-> FALSE, graph |-> graph]
Success(graph) == [ok |-> TRUE, graph |-> graph]

InitializeLogHead(graph, log) ==
  IF graph[log] = Absent THEN Success([graph EXCEPT ![log] = RootLog])
  ELSE [ok |-> graph[log].parent = NoParent, graph |-> graph]

\* mutant: a batch is appended without looking for what is stored already
AppendBlindly(graph, log, batch) ==
  LET old == IF graph[log] = Absent THEN RootLog ELSE graph[log]
  IN  Success([graph EXCEPT ![log] = [old EXCEPT !.events = @ \o batch]])
\* how much of the batch is a replay of what is stored
Replayed(log, batch) ==
  CHOOSE k \in 0..Len(batch) :
    /\ \A i \in 1..k : batch[i] \in Range(log)
    /\ k < Len(batch) => batch[k + 1] \notin Range(log)
\* what follows the replay, less what is stored already
Remaining(log, batch) ==
  LET kept[i \in 0..Len(batch)] ==
        IF i <= Replayed(log, batch) THEN <<>>
        ELSE IF batch[i] \in Range(log) THEN kept[i - 1] ELSE Append(kept[i - 1], batch[i])
  IN  kept[Len(batch)]
AppendLogEvent(graph, log, batch) ==
  LET old == IF graph[log] = Absent THEN RootLog ELSE graph[log]
      k == Replayed(old.events, batch)
      new == Remaining(old.events, batch)
  IN  IF new # <<>> /\ k > 0 /\ batch[k] # Last(old.events)
        THEN Refusal(graph)
        ELSE Success([graph EXCEPT ![log] = [old EXCEPT !.events = @ \o new]])

ForkLog(graph, from, to, at) ==
  LET inherited == Prefix(graph[from].events, at)
      child == [parent |-> from, forkSeq |-> at, events |-> inherited]
      lineage(l) == <<l.parent, l.forkSeq, Prefix(l.events, l.forkSeq)>>
  IN  IF graph[from] = Absent THEN Refusal(graph)
      ELSE IF at > Len(graph[from].events) THEN Refusal(graph)
      ELSE IF graph[to] = Absent THEN Success([graph EXCEPT ![to] = child])
      ELSE [ok |-> lineage(graph[to]) = lineage(child), graph |-> graph]
=============================================================================
