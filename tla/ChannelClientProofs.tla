------------------------- MODULE ChannelClientProofs -------------------------
(***************************************************************************)
(* What a channel's reader shows, for any number of streams, events and    *)
(* faults: an event once, no cursor beyond what was projected, and no      *)
(* boundary before its replay.  The invariant follows each reader through  *)
(* the page it processes: everything below the event it holds is handled.  *)
(***************************************************************************)
EXTENDS ChannelClient, Integers, TLAPS

AtRest == {"none", "asked", "ended"}
\* all of S was projected
Good(S) == overtaken \/ S \subseteq handled
\* a page that ends with the event last: what is left of it, and what came before
Reads(r, last) ==
  /\ Len(r.list) <= last
  /\ \A i \in 1 .. Len(r.list) : r.list[i] = last - Len(r.list) + i
  /\ r.hold # 0 => r.hold = last - Len(r.list)
  /\ overtaken \/ 1 .. (last - Len(r.list)) \subseteq handled \cup {r.hold}

ReaderOK(r, w) ==
  /\ r.pc \in AtRest => r.list = <<>> /\ r.hold = 0
  /\ r.pc \notin AtRest => w.at \in {"attached", "cut"}
  /\ r.pc = "asked" => Good(1 .. r.since)
  /\ r.pc = "replay" => Reads(r, w.snap)
  /\ r.pc = "repair" => r.trigger # 0 /\ Reads(r, r.trigger - 1)
  /\ r.pc = "trigger" => /\ r.trigger # 0 /\ Good(1 .. r.trigger - 1)
                         /\ r.hold \in {0, r.trigger}
                         /\ \A i \in 1 .. Len(r.list) : r.list[i] = r.trigger
  /\ r.pc = "live" => r.hold <= seen + 1 /\ \A i \in 1 .. Len(r.list) : r.list[i] <= seen + 1

\* an event is projected when its key is stored, and not again
Once == /\ busy \cap handled = {}
        /\ \A s \in Event : shown[s] = IF s \in handled THEN 1 ELSE 0

IInv == TypeOK /\ Once /\ CursorVouches /\ \A g \in Stream : ReaderOK(rd[g], wire[g])

-----------------------------------------------------------------------------
\* The numbers in a reader.
LEMMA ReaderTypes ==
  ASSUME NEW r \in ReaderState
  PROVE  /\ r.hold \in Nat /\ r.trigger \in Nat /\ r.since \in Nat /\ Len(r.list) \in Nat
         /\ r.list \in Seq(Event)
         /\ \A i \in 1 .. Len(r.list) : r.list[i] \in Nat /\ r.list[i] \in Event
<1>1. r.list \in Seq(Event) /\ r.hold \in 0 .. MaxEvent /\ r.trigger \in 0 .. MaxEvent
      /\ r.since \in 0 .. MaxEvent
  BY DEF ReaderState
<1>2. \A i \in 1 .. Len(r.list) : r.list[i] \in Event
  BY <1>1
<1> QED
  BY <1>1, <1>2 DEF Event

\* What a reader knows survives what only adds to the projection.
LEMMA Kept ==
  ASSUME NEW r \in ReaderState, NEW w, NEW x, ReaderOK(r, w),
         handled \subseteq handled', seen \in Nat, seen' \in Nat, seen <= seen',
         overtaken => overtaken', x.snap = w.snap,
         r.pc \notin AtRest => x.at \in {"attached", "cut"}
  PROVE  ReaderOK(r, x)'
<1>2. ASSUME NEW last, Reads(r, last) PROVE Reads(r, last)'
  BY <1>2 DEF Reads
<1>3. ASSUME NEW S, Good(S) PROVE Good(S)'
  BY <1>3 DEF Good
<1>4. ASSUME r.hold <= seen + 1, \A i \in 1 .. Len(r.list) : r.list[i] <= seen + 1
      PROVE  r.hold <= seen' + 1 /\ \A i \in 1 .. Len(r.list) : r.list[i] <= seen' + 1
  BY <1>4, ReaderTypes
<1> QED
  BY <1>2, <1>3, <1>4 DEF ReaderOK, AtRest

LEMMA EndedOK ==
  ASSUME NEW r \in ReaderState, NEW w
  PROVE  Ended(r) \in ReaderState /\ ReaderOK(Ended(r), w)
<1>1. <<>> \in Seq(Event) /\ 0 \in 0 .. MaxEvent
  BY LimitAssumption
<1>2. Ended(r) \in ReaderState /\ Ended(r).pc = "ended" /\ Ended(r).list = <<>> /\ Ended(r).hold = 0
  BY <1>1 DEF Ended, ReaderState
<1> QED
  BY <1>2 DEF ReaderOK, AtRest

LEMMA AbortedOK ==
  ASSUME NEW r \in ReaderState, NEW w, ReaderOK(r, w)
  PROVE  Aborted(r) \in ReaderState /\ ReaderOK(Aborted(r), w)
         /\ (Aborted(r).pc = r.pc \/ Aborted(r).pc = "ended")
<1> DEFINE d == [r EXCEPT !.dying = TRUE]
<1>1. /\ d \in ReaderState /\ d.pc = r.pc /\ d.list = r.list /\ d.hold = r.hold
      /\ d.trigger = r.trigger /\ d.since = r.since
  BY DEF ReaderState
<1>2. ReaderOK(d, w)
  BY <1>1 DEF ReaderOK, Reads
<1>3. Ended(r).pc = "ended"
  BY DEF Ended, ReaderState
<1>4. Aborted(r) \in {Ended(r), r, d}
  BY DEF Aborted
<1> QED
  BY <1>1, <1>2, <1>3, <1>4, EndedOK

\* A step that projects nothing.
LEMMA Beside ==
  ASSUME IInv, TypeOK', UNCHANGED <<seen, handled, shown, overtaken>>, busy' \cap handled = {},
         \A g \in Stream : ReaderOK(rd[g], wire[g])'
  PROVE  IInv'
BY DEF IInv, Once, CursorVouches

\* A step of the channel: the readers stay as they are.
LEMMA ChannelStep ==
  ASSUME IInv, TypeOK', UNCHANGED <<cursor, rd>>,
         \A g \in Stream : \/ wire'[g].snap = wire[g].snap
                              /\ (wire[g].at \in {"attached", "cut"} => wire'[g].at \in {"attached", "cut"})
                           \/ rd[g].pc \in AtRest
  PROVE  IInv'
<1>1. UNCHANGED <<seen, handled, shown, overtaken, busy>>
  BY DEF cursor
<1>2. ASSUME NEW g \in Stream PROVE ReaderOK(rd[g], wire[g])'
  <2>1. ReaderOK(rd[g], wire[g])
    BY DEF IInv
  <2>2. rd[g] = rd'[g]
    OBVIOUS
  <2>3. CASE rd[g].pc \in AtRest
    BY <1>1, <2>1, <2>2, <2>3 DEF ReaderOK, AtRest, Good
  <2>4. CASE rd[g].pc \notin AtRest
    BY <1>1, <2>1, <2>2, <2>4 DEF ReaderOK, AtRest, Good, Reads
  <2> QED
    BY <2>3, <2>4
<1> QED
  BY <1>1, <1>2, Beside DEF IInv, Once

LEMMA AppendedTypes ==
  ASSUME IInv, Appended
  PROVE  /\ len' \in Event /\ len + 1 \in Event /\ wire' \in [Stream -> Wire]
         /\ \A g \in Stream : wire'[g].snap = wire[g].snap /\ wire'[g].at = wire[g].at
<1>1. len \in Event /\ len + 1 \in Event /\ len' = len + 1
  BY LimitAssumption DEF Appended, IInv, TypeOK, Event
<1>2. ASSUME NEW g \in Stream
      PROVE  /\ [wire[g] EXCEPT !.q = Append(@, len + 1)] \in Wire
             /\ wire'[g] = wire[g] \/ wire'[g] = [wire[g] EXCEPT !.q = Append(@, len + 1)]
  <2>1. wire[g] \in Wire
    BY DEF IInv, TypeOK
  <2>2. Append(wire[g].q, len + 1) \in Seq(Event)
    BY <1>1, <2>1 DEF Wire
  <2> QED
    BY <2>1, <2>2 DEF Appended, Wire
<1>3. wire' \in [Stream -> Wire]
  BY <1>2 DEF Appended, IInv, TypeOK
<1> QED
  BY <1>1, <1>2, <1>3 DEF IInv, TypeOK, Wire

LEMMA AppendStep ==
  ASSUME IInv, Append_ PROVE IInv'
<1>1. UNCHANGED <<replaces, own, receipts, rd, active, complete, recovery, cursor, buffers, faults, hosts>>
  BY DEF Append_
<1>2. TypeOK'
  BY <1>1, AppendedTypes DEF Append_, IInv, TypeOK, cursor, buffers
<1> QED
  BY <1>1, <1>2, AppendedTypes, ChannelStep DEF Append_

LEMMA PublishStep ==
  ASSUME IInv, Publish PROVE IInv'
<1>1. UNCHANGED <<replaces, rd, active, complete, recovery, cursor, buffers, faults, hosts>>
  BY DEF Publish
<1>2. own' \in 0 .. MaxOwn
  BY LimitAssumption DEF Publish, IInv, TypeOK
<1>3. receipts' \subseteq Event
  BY AppendedTypes DEF Publish, IInv, TypeOK
<1>4. TypeOK'
  BY <1>1, <1>2, <1>3, AppendedTypes DEF Publish, IInv, TypeOK, cursor, buffers
<1> QED
  BY <1>1, <1>4, AppendedTypes, ChannelStep DEF Publish

LEMMA ReadReplayStep ==
  ASSUME IInv, NEW g \in Stream, ReadReplay(g) PROVE IInv'
<1>1. UNCHANGED <<replaces, len, own, receipts, rd, active, complete, recovery, cursor, buffers, faults, hosts>>
  BY DEF ReadReplay
<1>2. wire[g] \in Wire /\ len \in 0 .. MaxEvent
  BY LimitAssumption DEF IInv, TypeOK, Event
<1>3. [wire[g] EXCEPT !.at = "read", !.snap = len] \in Wire
  BY <1>2 DEF Wire
<1>4. wire' = [wire EXCEPT ![g] = [wire[g] EXCEPT !.at = "read", !.snap = len]]
  BY DEF ReadReplay
<1>5. TypeOK'
  BY <1>1, <1>3, <1>4 DEF IInv, TypeOK, cursor, buffers
<1>6. rd[g].pc \in AtRest
  BY DEF IInv, ReaderOK, ReadReplay
<1>7. \A h \in Stream : h # g => wire'[h] = wire[h]
  BY <1>4 DEF IInv, TypeOK
<1> QED
  BY <1>1, <1>5, <1>6, <1>7, ChannelStep

LEMMA OpenSubscriptionResponseStep ==
  ASSUME IInv, NEW g \in Stream, OpenSubscriptionResponse(g) PROVE IInv'
<1>1. UNCHANGED <<replaces, len, own, receipts, rd, active, complete, recovery, cursor, buffers, faults, hosts>>
  BY DEF OpenSubscriptionResponse
<1>2. ASSUME NEW h \in Stream
      PROVE  /\ wire'[h] \in Wire /\ wire'[h].snap = wire[h].snap
             /\ wire[h].at \in {"attached", "cut"} => wire'[h].at \in {"attached", "cut"}
  <2>1. wire[h] \in Wire
    BY DEF IInv, TypeOK
  <2>2. \/ wire'[h] = wire[h] \/ wire'[h] = [wire[h] EXCEPT !.at = "attached"]
        \/ wire'[h] = [wire[h] EXCEPT !.at = "cut"]
    BY DEF OpenSubscriptionResponse
  <2> QED
    BY <2>1, <2>2 DEF Wire
<1>3. wire' \in [Stream -> Wire]
  BY <1>2 DEF OpenSubscriptionResponse
<1>4. TypeOK'
  BY <1>1, <1>3 DEF IInv, TypeOK, cursor, buffers
<1> QED
  BY <1>1, <1>2, <1>4, ChannelStep

LEMMA CutStep ==
  ASSUME IInv, NEW g \in Stream, Cut(g) PROVE IInv'
<1>1. UNCHANGED <<replaces, len, own, receipts, rd, active, complete, recovery, cursor, buffers, hosts>>
  BY DEF Cut, Fault
<1>2. faults' \in 0 .. MaxFault
  BY LimitAssumption DEF Cut, Fault, IInv, TypeOK
<1>3. PICK n \in 0 .. Len(wire[g].q) :
        wire' = [wire EXCEPT ![g] = [wire[g] EXCEPT !.at = "cut", !.q = SubSeq(wire[g].q, 1, n)]]
  BY DEF Cut
<1>4. wire[g] \in Wire
  BY DEF IInv, TypeOK
<1>5. SubSeq(wire[g].q, 1, n) \in Seq(Event)
  BY <1>4 DEF Wire
<1>6. [wire[g] EXCEPT !.at = "cut", !.q = SubSeq(wire[g].q, 1, n)] \in Wire
  BY <1>4, <1>5 DEF Wire
<1>7. /\ wire' \in [Stream -> Wire]
      /\ \A h \in Stream : wire'[h].snap = wire[h].snap
                           /\ (wire'[h].at = wire[h].at \/ wire'[h].at = "cut")
  BY <1>3, <1>4, <1>6 DEF IInv, TypeOK, Wire
<1>8. TypeOK'
  BY <1>1, <1>2, <1>7 DEF IInv, TypeOK, cursor, buffers
<1> QED
  BY <1>1, <1>7, <1>8, ChannelStep

-----------------------------------------------------------------------------
\* A step of the readers that projects nothing.
LEMMA Settled ==
  ASSUME IInv, TypeOK', UNCHANGED <<seen, handled, shown, overtaken>>, busy' \cap handled = {},
         \A g \in Stream : ReaderOK(rd'[g], wire'[g])
  PROVE  IInv'
<1>1. ASSUME NEW g \in Stream PROVE ReaderOK(rd[g], wire[g])'
  BY DEF ReaderOK, Reads, Good
<1> QED
  BY <1>1, Beside

LEMMA Advanced ==
  ASSUME NEW r \in ReaderState, NEW n \in ReaderState, NEW last \in Nat, Reads(r, last),
         r.hold = 0, r.list # <<>>, n.list = Tail(r.list),
         n.hold = Head(r.list) \/ (n.hold = 0 /\ (overtaken \/ Head(r.list) \in handled))
  PROVE  Reads(n, last)
<1>1. /\ r.list \in Seq(Event) /\ Len(r.list) \in Nat /\ Len(r.list) # 0
      /\ Head(r.list) = r.list[1]
  BY ReaderTypes
<1>2. /\ Len(n.list) = Len(r.list) - 1
      /\ \A i \in 1 .. Len(n.list) : n.list[i] = r.list[i + 1] /\ i + 1 \in 1 .. Len(r.list)
  BY <1>1
<1>9. \A i \in 1 .. Len(r.list) : r.list[i] = last - Len(r.list) + i
  BY DEF Reads
<1>3. Head(r.list) = last - Len(n.list)
  <2>1. 1 \in 1 .. Len(r.list)
    BY <1>1
  <2>2. r.list[1] = last - Len(r.list) + 1
    BY <1>9, <2>1
  <2>3. PICK k \in Nat : k = Len(r.list)
    BY <1>1
  <2>4. Len(n.list) = k - 1 /\ Head(r.list) = last - k + 1
    BY <1>1, <1>2, <2>2, <2>3
  <2> QED
    BY <2>4
<1>4. \A i \in 1 .. Len(n.list) : n.list[i] = last - Len(n.list) + i
  <2>1. TAKE i \in 1 .. Len(n.list)
  <2>2. n.list[i] = r.list[i + 1] /\ i + 1 \in 1 .. Len(r.list)
    BY <1>2
  <2>3. r.list[i + 1] = last - Len(r.list) + (i + 1)
    BY <1>9, <2>2
  <2>4. PICK k \in Nat : k = Len(r.list)
    BY <1>1
  <2>5. Len(n.list) = k - 1
    BY <1>1, <1>2, <2>4
  <2>6. n.list[i] = last - k + (i + 1)
    BY <2>2, <2>3, <2>4
  <2>7. i \in Nat /\ last - k + (i + 1) = last - (k - 1) + i
    BY <2>5
  <2> QED
    BY <2>5, <2>6, <2>7
<1>5. overtaken \/ 1 .. (last - Len(r.list)) \subseteq handled
  BY <1>1 DEF Reads
<1>6. 1 .. (last - Len(n.list)) \subseteq 1 .. (last - Len(r.list)) \cup {Head(r.list)}
  BY <1>1, <1>2, <1>3
<1>7. overtaken \/ 1 .. (last - Len(n.list)) \subseteq handled \cup {n.hold}
  BY <1>5, <1>6
<1>8. Len(n.list) <= last
  BY <1>1, <1>2 DEF Reads
<1> QED
  BY <1>3, <1>4, <1>7, <1>8 DEF Reads

LEMMA NextMessageStep ==
  ASSUME IInv, NEW g \in Stream, NextMessage(g) PROVE IInv'
<1> DEFINE r == rd[g]
           s == Head(rd[g].list)
           skip == ReplayMessageWasHandled(s) \/ (r.pc = "repair" /\ s <= seen)
           n == [r EXCEPT !.list = Tail(r.list), !.hold = IF skip THEN 0 ELSE s]
<1>1. UNCHANGED <<channel, receipts, active, complete, recovery, seen, handled, shown, overtaken,
                  buffers, faults, hosts>>
  BY DEF NextMessage
<1>2. r \in ReaderState /\ wire[g] \in Wire /\ ReaderOK(r, wire[g])
  BY DEF IInv, TypeOK
<1>3. r.list # <<>> /\ r.hold = 0 /\ rd' = [rd EXCEPT ![g] = n]
  BY DEF NextMessage, Hold
<1>4. r.list \in Seq(Event) /\ Len(r.list) \in Nat /\ Len(r.list) # 0 /\ s = r.list[1] /\ s \in Event
      /\ Tail(r.list) \in Seq(Event)
  BY <1>2, <1>3, ReaderTypes
<1>5. n \in ReaderState
  <2>1. (IF skip THEN 0 ELSE s) \in 0 .. MaxEvent
    BY <1>4, LimitAssumption DEF Event
  <2> HIDE DEF skip
  <2> QED
    BY <1>2, <1>4, <2>1 DEF ReaderState
<1>6. busy' = (IF skip THEN busy ELSE busy \cup {s}) 
  BY DEF NextMessage
<1>7. busy' \subseteq Event /\ busy' \cap handled = {}
  BY <1>4, <1>6 DEF IInv, TypeOK, Once, ReplayMessageWasHandled
<1>8. TypeOK'
  BY <1>1, <1>3, <1>5, <1>7 DEF IInv, TypeOK, channel, buffers
<1>9. skip => overtaken \/ s \in handled
  <2>1. CASE s <= seen
    BY <1>4, <2>1 DEF IInv, CursorVouches, TypeOK, Event
  <2> QED
    BY <2>1 DEF ReplayMessageWasHandled
<1>10. /\ n.list = Tail(r.list) /\ n.pc = r.pc /\ n.trigger = r.trigger /\ n.since = r.since
       /\ n.hold = s \/ (n.hold = 0 /\ (overtaken \/ s \in handled))
       /\ n.hold \in {0, s}
  <2> HIDE DEF skip
  <2> QED
    BY <1>2, <1>9 DEF ReaderState
<1>11. wire[g].snap \in Nat /\ (r.trigger # 0 => r.trigger - 1 \in Nat) /\ seen \in Nat
  BY <1>2, ReaderTypes DEF Wire, IInv, TypeOK
<1>12. \A i \in 1 .. Len(n.list) : n.list[i] = r.list[i + 1] /\ i + 1 \in 1 .. Len(r.list)
  BY <1>4, <1>10
<1>13. ReaderOK(n, wire[g])
  <2> HIDE DEF r, s, n, skip
  <2>1. r.pc \notin AtRest
    BY <1>2, <1>3 DEF ReaderOK
  <2>2. ASSUME r.pc = "replay" PROVE Reads(n, wire[g].snap)
    BY <1>2, <1>3, <1>5, <1>10, <1>11, <2>2, Advanced DEF ReaderOK, s, r
  <2>3. ASSUME r.pc = "repair" PROVE Reads(n, r.trigger - 1)
    BY <1>2, <1>3, <1>5, <1>10, <1>11, <2>3, Advanced DEF ReaderOK, s, r
  <2>4. ASSUME r.pc = "trigger"
        PROVE  n.hold \in {0, r.trigger} /\ \A i \in 1 .. Len(n.list) : n.list[i] = r.trigger
    BY <1>2, <1>4, <1>10, <1>12, <2>4 DEF ReaderOK
  <2>5. ASSUME r.pc = "live"
        PROVE  n.hold <= seen + 1 /\ \A i \in 1 .. Len(n.list) : n.list[i] <= seen + 1
    BY <1>2, <1>4, <1>10, <1>11, <1>12, <2>5 DEF ReaderOK
  <2> QED
    BY <1>2, <1>10, <2>1, <2>2, <2>3, <2>4, <2>5 DEF ReaderOK, AtRest
<1>14. ASSUME NEW h \in Stream PROVE ReaderOK(rd'[h], wire'[h])
  <2> HIDE DEF r, s, n, skip
  <2>1. wire'[h] = wire[h] /\ (h = g => rd'[h] = n) /\ (h # g => rd'[h] = rd[h])
    BY <1>1, <1>3 DEF channel, IInv, TypeOK
  <2> QED
    BY <1>13, <2>1 DEF IInv
<1> QED
  BY <1>1, <1>7, <1>8, <1>14, Settled

\* A step that leaves every reader as it is.
LEMMA ReceiptStep ==
  ASSUME IInv, NEW s \in Event, Receipt(s) PROVE IInv'
<1>1. UNCHANGED <<channel, rd, active, complete, recovery, seen, handled, shown, overtaken,
                  buffers, faults, hosts>>
  BY DEF Receipt
<1>2. receipts' \subseteq Event /\ busy' \subseteq Event /\ busy' \cap handled = {}
  BY DEF Receipt, IInv, TypeOK, Once, ReplayMessageWasHandled
<1>3. TypeOK'
  BY <1>1, <1>2 DEF IInv, TypeOK, channel, buffers
<1>4. \A g \in Stream : ReaderOK(rd'[g], wire'[g])
  BY <1>1 DEF IInv, channel
<1> QED
  BY <1>1, <1>2, <1>3, <1>4, Settled

-----------------------------------------------------------------------------
\* Whoever waited for s reads on behind it.
LEMMA ReleasedOK ==
  ASSUME NEW r \in ReaderState, NEW w, NEW s \in Event, ReaderOK(r, w), r.hold = s,
         handled' = handled \cup {s}, seen \in Nat, seen' \in Nat, seen <= seen', overtaken => overtaken'
  PROVE  ReaderOK([r EXCEPT !.hold = 0], w)'
<1>0. PICK n : n = [r EXCEPT !.hold = 0]
  OBVIOUS
<1>1. /\ n.pc = r.pc /\ n.list = r.list /\ n.hold = 0 /\ n.trigger = r.trigger /\ n.since = r.since
  BY <1>0 DEF ReaderState
<1>2. s # 0 /\ r.pc \notin AtRest
  BY DEF ReaderOK, Event
<1>3. ASSUME NEW last, Reads(r, last) PROVE Reads(n, last)'
  BY <1>1, <1>3 DEF Reads
<1>4. Good(1 .. r.trigger - 1) => Good(1 .. r.trigger - 1)'
  BY DEF Good
<1>5. ASSUME r.pc = "live" PROVE ReaderOK(n, w)'
  <2>1. \A i \in 1 .. Len(r.list) : r.list[i] <= seen + 1 /\ r.list[i] \in Nat
    BY <1>5, ReaderTypes DEF ReaderOK
  <2>2. \A i \in 1 .. Len(n.list) : n.list[i] <= seen' + 1
    BY <1>1, <2>1
  <2>3. n.hold <= seen' + 1
    BY <1>1
  <2> QED
    BY <1>1, <1>2, <1>5, <2>2, <2>3 DEF ReaderOK, AtRest
<1>6. ASSUME r.pc # "live" PROVE ReaderOK(n, w)'
  <2>1. r.pc = "replay" => Reads(n, w.snap)'
    BY <1>3 DEF ReaderOK
  <2>2. r.pc = "repair" => r.trigger # 0 /\ Reads(n, r.trigger - 1)'
    BY <1>3 DEF ReaderOK
  <2>3. r.pc = "trigger" => /\ r.trigger # 0 /\ Good(1 .. r.trigger - 1)'
                            /\ \A i \in 1 .. Len(n.list) : n.list[i] = r.trigger
    BY <1>1, <1>4 DEF ReaderOK
  <2>4. w.at \in {"attached", "cut"}
    BY <1>2 DEF ReaderOK
  <2> QED
    BY <1>1, <1>2, <1>6, <2>1, <2>2, <2>3, <2>4 DEF ReaderOK, AtRest
<1>7. ReaderOK(n, w)'
  BY <1>5, <1>6
<1> QED
  BY <1>0, <1>7

\* The cursor moves to an event someone read in order, or to one that overtook.
LEMMA ProcessedStep ==
  ASSUME IInv, NEW s \in Event, Processed(s) PROVE IInv'
<1>1. /\ UNCHANGED <<channel, receipts, active, complete, recovery, buffers, faults, hosts>>
      /\ handled' = handled \cup {s} /\ busy' = busy \ {s} /\ s \notin handled
      /\ shown' = [shown EXCEPT ![s] = shown[s] + 1]
      /\ rd' = Released(s)
  BY DEF Processed, IInv, Once
<1>2. s \in Nat /\ s # 0 /\ seen \in Nat /\ seen' = (IF s > seen THEN s ELSE seen)
      /\ s \in 0 .. MaxEvent /\ seen \in 0 .. MaxEvent
  BY DEF Processed, IInv, TypeOK, Event
<1>3. seen' \in Nat /\ seen <= seen' /\ seen' \in 0 .. MaxEvent
  BY <1>2
<1>4. overtaken => overtaken'
  BY DEF Processed
<1>5. overtaken' \in BOOLEAN
  BY DEF Processed, IInv, TypeOK
<1>6. ASSUME NEW g \in Stream
      PROVE  /\ rd[g] \in ReaderState /\ rd'[g] \in ReaderState /\ wire'[g] = wire[g]
             /\ rd'[g] = IF rd[g].hold = s THEN [rd[g] EXCEPT !.hold = 0] ELSE rd[g]
             /\ ReaderOK(rd[g], wire[g])
  <2>1. rd[g] \in ReaderState /\ ReaderOK(rd[g], wire[g]) /\ 0 \in 0 .. MaxEvent
    BY LimitAssumption DEF IInv, TypeOK
  <2>2. [rd[g] EXCEPT !.hold = 0] \in ReaderState
    BY <2>1 DEF ReaderState
  <2> QED
    BY <1>1, <2>1, <2>2 DEF Released, channel
<1>7. rd' \in [Stream -> ReaderState]
  BY <1>1, <1>6 DEF Released
<1>8. /\ shown' \in [Event -> Nat]
      /\ \A e \in Event : shown'[e] = IF e \in handled' THEN 1 ELSE 0
  BY <1>1 DEF IInv, TypeOK, Once
<1>9. TypeOK'
  BY <1>1, <1>3, <1>5, <1>7, <1>8 DEF IInv, TypeOK, channel, buffers
<1>10. Once'
  BY <1>1, <1>8 DEF IInv, Once
<1>11. CursorVouches'
  <2>1. overtaken \/ 1 .. seen \subseteq handled
    BY DEF IInv, CursorVouches
  <2>2. CASE overtaken
    BY <1>4, <2>2 DEF CursorVouches
  <2>3. CASE ~overtaken /\ s <= seen + 1
    <3>1. 1 .. seen' \subseteq 1 .. seen \cup {s}
      BY <1>2, <2>3
    <3> QED
      BY <1>1, <2>1, <2>3, <3>1 DEF CursorVouches
  <2>4. CASE ~overtaken /\ s > seen + 1 /\ \A g \in Stream : rd[g].hold = s => rd[g].pc = "drain"
    BY <2>4 DEF Processed, CursorVouches
  <2>5. ASSUME ~overtaken, s > seen + 1, NEW g \in Stream, rd[g].hold = s, rd[g].pc # "drain"
        PROVE  1 .. s \subseteq handled \cup {s}
    <3>1. rd[g].pc \in {"replay", "repair", "trigger"}
      <4>1. rd[g].pc \in {"none", "asked", "replay", "repair", "trigger", "drain", "live", "ended"}
        BY <1>6 DEF ReaderState
      <4>2. rd[g].pc \notin AtRest
        BY <1>2, <1>6, <2>5 DEF ReaderOK
      <4>3. rd[g].pc # "live"
        <5>1. rd[g].pc = "live" => rd[g].hold <= seen + 1
          BY <1>6 DEF ReaderOK
        <5> QED
          BY <1>2, <2>5, <5>1
      <4> QED
        BY <2>5, <4>1, <4>2, <4>3 DEF AtRest
    <3>2. CASE rd[g].pc = "trigger"
      <4>1. rd[g].trigger = s /\ 1 .. rd[g].trigger - 1 \subseteq handled
        BY <1>2, <1>6, <2>5, <3>2 DEF ReaderOK, Good
      <4>2. 1 .. s \subseteq 1 .. s - 1 \cup {s}
        BY <1>2
      <4> QED
        BY <4>1, <4>2
    <3>3. ASSUME NEW last, Reads(rd[g], last) PROVE 1 .. s \subseteq handled \cup {s}
      BY <1>2, <2>5, <3>3 DEF Reads
    <3> QED
      BY <1>6, <3>1, <3>2, <3>3 DEF ReaderOK
  <2>6. CASE ~overtaken /\ s > seen + 1 /\ \E g \in Stream : rd[g].hold = s /\ rd[g].pc # "drain"
    <3>1. 1 .. s \subseteq handled \cup {s}
      BY <2>5, <2>6
    <3>2. seen' = s
      BY <1>2, <2>6
    <3> QED
      BY <1>1, <3>1, <3>2 DEF CursorVouches
  <2>7. s <= seen + 1 \/ s > seen + 1
    BY <1>2
  <2> QED
    BY <2>2, <2>3, <2>4, <2>6, <2>7
<1>12. ASSUME NEW g \in Stream PROVE ReaderOK(rd[g], wire[g])'
  <2>1. PICK r \in ReaderState : r = rd[g]
    BY <1>6
  <2>2. PICK w : w = wire[g]
    OBVIOUS
  <2>3. ReaderOK(r, w)
    BY <1>6, <2>1, <2>2
  <2>4. CASE r.hold = s
    <3>1. ReaderOK([r EXCEPT !.hold = 0], w)'
      BY <1>1, <1>2, <1>3, <1>4, <2>3, <2>4, ReleasedOK
    <3>2. rd'[g] = [r EXCEPT !.hold = 0] /\ wire'[g] = w
      BY <1>6, <2>1, <2>2, <2>4
    <3> QED
      BY <3>1, <3>2
  <2>5. CASE r.hold # s
    <3>1. r.pc \notin AtRest => w.at \in {"attached", "cut"}
      BY <2>3 DEF ReaderOK
    <3>2. ReaderOK(r, w)'
      BY <1>1, <1>2, <1>3, <1>4, <2>3, <3>1, Kept
    <3>3. rd'[g] = r /\ wire'[g] = w
      BY <1>6, <2>1, <2>2, <2>5
    <3> QED
      BY <3>2, <3>3
  <2> QED
    BY <2>4, <2>5
<1> QED
  BY <1>9, <1>10, <1>11, <1>12 DEF IInv

-----------------------------------------------------------------------------
\* The events of a page.
LEMMA Page ==
  ASSUME NEW a \in Nat, NEW last \in 0 .. MaxEvent
  PROVE  /\ Seq1(a + 1, last) \in Seq(Event)
         /\ last <= a => Len(Seq1(a + 1, last)) = 0
         /\ a < last => Len(Seq1(a + 1, last)) = last - a
         /\ \A i \in 1 .. Len(Seq1(a + 1, last)) : Seq1(a + 1, last)[i] = a + i
<1>1. PICK k \in Nat : k = (IF last < a + 1 THEN 0 ELSE last - (a + 1) + 1)
  OBVIOUS
<1>2. (last <= a => k = 0) /\ (a < last => k = last - a)
  BY <1>1
<1>3. \A i \in 1 .. k : a + 1 + i - 1 = a + i /\ a + i \in 1 .. MaxEvent
  BY <1>2, LimitAssumption
<1>4. Seq1(a + 1, last) = [i \in 1 .. k |-> a + 1 + i - 1]
  BY <1>1 DEF Seq1
<1>5. Seq1(a + 1, last) \in Seq(Event) /\ Len(Seq1(a + 1, last)) = k
  <2>1. \A i \in 1 .. k : a + 1 + i - 1 \in Event
    BY <1>3 DEF Event
  <2> QED
    BY <1>4, <2>1
<1>6. \A i \in 1 .. k : Seq1(a + 1, last)[i] = a + i
  BY <1>3, <1>4
<1> QED
  BY <1>2, <1>5, <1>6

\* A reader that starts on a page, everything before the page being handled.
LEMMA PageReads ==
  ASSUME NEW n \in ReaderState, NEW a \in Nat, NEW last \in 0 .. MaxEvent,
         n.list = Seq1(a + 1, last), n.hold = 0, Good(1 .. a)
  PROVE  Reads(n, last)
<1>1. \A i \in 1 .. Len(n.list) : n.list[i] = a + i /\ i \in Nat
  BY Page
<1>2. CASE last <= a
  <2>1. Len(n.list) = 0 /\ 1 .. last \subseteq 1 .. a
    BY <1>2, Page
  <2> QED
    BY <2>1 DEF Reads, Good
<1>3. CASE a < last
  <2>1. Len(n.list) = last - a
    BY <1>3, Page
  <2>2. last - Len(n.list) = a /\ Len(n.list) <= last
    BY <2>1
  <2> QED
    BY <1>1, <2>2 DEF Reads, Good
<1> QED
  BY <1>2, <1>3

LEMMA AcknowledgeStep ==
  ASSUME IInv, NEW g \in Stream, Acknowledge(g) PROVE IInv'
<1> DEFINE r == rd[g]
           n == [r EXCEPT !.pc = "replay", !.acked = TRUE, !.list = Seq1(r.since + 1, wire[g].snap)]
<1>1. UNCHANGED <<replaces, len, own, receipts, active, cursor, repairing, gapBuffer, faults, hosts>>
  BY DEF Acknowledge
<1>2. r \in ReaderState /\ wire[g] \in Wire /\ ReaderOK(r, wire[g])
  BY DEF IInv, TypeOK
<1>3. r.pc = "asked" /\ wire[g].at = "attached"
  BY DEF Acknowledge
<1>4. r.since \in Nat /\ wire[g].snap \in 0 .. MaxEvent
  BY <1>2, ReaderTypes DEF Wire
<1>5. /\ n \in ReaderState /\ n.pc = "replay" /\ n.list = Seq1(r.since + 1, wire[g].snap)
      /\ n.hold = r.hold
  <2>1. Seq1(r.since + 1, wire[g].snap) \in Seq(Event)
    BY <1>4, Page
  <2> QED
    BY <1>2, <2>1 DEF ReaderState
<1>6. Reads(n, wire[g].snap) /\ n.pc \notin AtRest
  <2>1. Good(1 .. r.since) /\ r.hold = 0
    BY <1>2, <1>3 DEF ReaderOK, AtRest
  <2> QED
    BY <1>4, <1>5, <2>1, PageReads DEF AtRest
<1>7. ASSUME NEW h \in Stream
      PROVE  /\ wire'[h] \in Wire /\ rd'[h] \in ReaderState
             /\ wire'[h].snap = wire[h].snap
             /\ wire[h].at \in {"attached", "cut"} => wire'[h].at \in {"attached", "cut"}
             /\ h = g => rd'[h] = n
             /\ h # g => \/ rd'[h] = rd[h]
                         \/ rd'[h] = Aborted(rd[h])
  <2>1. wire[h] \in Wire /\ rd[h] \in ReaderState /\ ReaderOK(rd[h], wire[h])
    BY DEF IInv, TypeOK
  <2>2. wire'[h] = wire[h] \/ wire'[h] = [wire[h] EXCEPT !.at = "cut", !.q = <<>>]
    BY DEF Acknowledge
  <2>3. <<>> \in Seq(Event)
    OBVIOUS
  <2>4. /\ wire'[h] \in Wire /\ wire'[h].snap = wire[h].snap
        /\ wire[h].at \in {"attached", "cut"} => wire'[h].at \in {"attached", "cut"}
    BY <2>1, <2>2, <2>3 DEF Wire
  <2>5. (h = g => rd'[h] = n) /\ (h # g => rd'[h] = rd[h] \/ rd'[h] = Aborted(rd[h]))
    BY DEF Acknowledge
  <2>6. Aborted(rd[h]) \in ReaderState
    BY <2>1, AbortedOK
  <2> HIDE DEF n
  <2> QED
    BY <1>5, <2>1, <2>4, <2>5, <2>6
<1>8. wire' \in [Stream -> Wire] /\ rd' \in [Stream -> ReaderState]
  BY <1>7 DEF Acknowledge
<1>9. /\ complete' \in BOOLEAN /\ liveBuffer' \in Seq(Event)
      /\ recovery' \in {"none", "requested", "running", "again"}
  <2>1. /\ complete \in BOOLEAN /\ liveBuffer \in Seq(Event) /\ <<>> \in Seq(Event)
        /\ recovery \in {"none", "requested", "running", "again"}
    BY DEF IInv, TypeOK
  <2>2. complete' \in {complete, FALSE} /\ liveBuffer' \in {liveBuffer, <<>>}
        /\ recovery' \in {recovery, "requested", "none"}
    BY DEF Acknowledge
  <2>3. complete' \in BOOLEAN
    BY <2>1, <2>2, Zenon
  <2> QED
    BY <2>1, <2>2, <2>3
<1>10. TypeOK'
  BY <1>1, <1>8, <1>9 DEF IInv, TypeOK, cursor
<1>11. ASSUME NEW h \in Stream PROVE ReaderOK(rd'[h], wire'[h])
  <2> HIDE DEF n
  <2>1. wire'[h].snap \in Nat /\ rd[h] \in ReaderState /\ ReaderOK(rd[h], wire[h])
    BY <1>7 DEF Wire, IInv, TypeOK
  <2>2. CASE h = g
    BY <1>3, <1>5, <1>6, <1>7, <2>2 DEF ReaderOK
  <2>3. CASE h # g
    <3>1. PICK m : m = rd'[h] /\ ReaderOK(m, wire[h])
      BY <1>7, <2>1, <2>3, AbortedOK
    <3> QED
      BY <1>7, <3>1 DEF ReaderOK
  <2> QED
    BY <2>2, <2>3
<1> QED
  BY <1>1, <1>10, <1>11, Settled DEF cursor, IInv, Once

LEMMA TakeStep ==
  ASSUME IInv, NEW g \in Stream, Take(g) PROVE IInv'
<1> DEFINE r == rd[g]
           s == Head(wire[g].q)
<1>1. UNCHANGED <<replaces, len, own, receipts, active, complete, recovery, cursor, faults, hosts>>
  BY DEF Take
<1>2. r \in ReaderState /\ wire[g] \in Wire /\ ReaderOK(r, wire[g]) /\ seen \in 0 .. MaxEvent
  BY DEF IInv, TypeOK
<1>3. wire[g].q \in Seq(Event) /\ wire[g].q # <<>> /\ s \in Event /\ Tail(wire[g].q) \in Seq(Event)
  BY <1>2 DEF Take, Wire
<1>4. /\ r.pc \in {"live", "drain"} /\ r.list = <<>> /\ r.hold = 0 /\ r.pc \notin AtRest
      /\ wire' = [wire EXCEPT ![g] = [wire[g] EXCEPT !.q = Tail(wire[g].q)]]
  BY DEF Take, Waits, Idle, AtRest
<1>5. [wire[g] EXCEPT !.q = Tail(wire[g].q)] \in Wire
  BY <1>2, <1>3 DEF Wire
<1>6. /\ wire' \in [Stream -> Wire]
      /\ \A h \in Stream : wire'[h].snap = wire[h].snap /\ wire'[h].at = wire[h].at
  BY <1>2, <1>4, <1>5 DEF IInv, TypeOK, Wire
<1>7. s \in Nat /\ s # 0 /\ s - 1 \in 0 .. MaxEvent /\ s \in 0 .. MaxEvent /\ seen \in Nat
  <2>1. s \in 1 .. MaxEvent /\ seen \in 0 .. MaxEvent
    BY <1>2, <1>3 DEF Event
  <2> HIDE DEF s
  <2> QED
    BY <2>1, LimitAssumption
<1>8. ASSUME NEW n \in ReaderState, ReaderOK(n, wire[g]), rd' = [rd EXCEPT ![g] = n],
             gapBuffer' \in Seq(Event), liveBuffer' \in Seq(Event), repairing' \in BOOLEAN
      PROVE  IInv'
  <2>1. TypeOK'
    BY <1>1, <1>6, <1>8 DEF IInv, TypeOK, cursor
  <2>2. ASSUME NEW h \in Stream PROVE ReaderOK(rd'[h], wire'[h])
    <3>1. PICK m : m = rd'[h] /\ ReaderOK(m, wire[h])
      BY <1>8 DEF IInv, TypeOK
    <3> QED
      BY <1>6, <3>1 DEF ReaderOK
  <2> QED
    BY <1>1, <2>1, <2>2, Settled DEF cursor, IInv, Once
<1>9. gapBuffer \in Seq(Event) /\ liveBuffer \in Seq(Event) /\ repairing \in BOOLEAN
      /\ Append(gapBuffer, s) \in Seq(Event) /\ Append(liveBuffer, s) \in Seq(Event)
      /\ rd = [rd EXCEPT ![g] = r]
  BY <1>3 DEF IInv, TypeOK
<1>10. CASE UNCHANGED rd /\ gapBuffer' \in {gapBuffer, Append(gapBuffer, s)}
            /\ liveBuffer' \in {liveBuffer, Append(liveBuffer, s)} /\ repairing' = repairing
  <2> HIDE DEF r, s
  <2>1. rd' = [rd EXCEPT ![g] = r]
    BY <1>9, <1>10
  <2> QED
    BY <1>2, <1>8, <1>9, <1>10, <2>1
<1>11. CASE /\ Gap(s) /\ repairing' = TRUE /\ UNCHANGED <<liveBuffer, gapBuffer>>
            /\ rd' = [rd EXCEPT ![g] = [r EXCEPT !.pc = "repair", !.list = Seq1(seen + 1, s - 1),
                                                  !.trigger = s]]
  <2>1. Seq1(seen + 1, s - 1) \in Seq(Event)
    BY <1>7, Page
  <2>2. PICK n : n = [r EXCEPT !.pc = "repair", !.list = Seq1(seen + 1, s - 1), !.trigger = s]
    OBVIOUS
  <2>3. /\ n \in ReaderState /\ n.pc = "repair" /\ n.list = Seq1(seen + 1, s - 1)
        /\ n.trigger = s /\ n.hold = r.hold
    BY <1>2, <1>7, <2>1, <2>2 DEF ReaderState
  <2>4. Good(1 .. seen)
    BY DEF IInv, CursorVouches, Good
  <2>5. Reads(n, s - 1)
    BY <1>4, <1>7, <2>3, <2>4, PageReads
  <2>6. ReaderOK(n, wire[g])
    BY <1>2, <1>4, <1>7, <2>3, <2>5 DEF ReaderOK, AtRest
  <2> QED
    BY <1>8, <1>9, <1>11, <2>2, <2>3, <2>6
<1>12. CASE /\ ~Gap(s) /\ UNCHANGED <<liveBuffer, gapBuffer, repairing>>
            /\ rd' = [rd EXCEPT ![g] = [r EXCEPT !.pc = "live", !.list = <<s>>]]
  <2>1. PICK n : n = [r EXCEPT !.pc = "live", !.list = <<s>>]
    OBVIOUS
  <2>2. <<s>> \in Seq(Event) /\ Len(<<s>>) = 1 /\ <<s>>[1] = s
    BY <1>3
  <2>3. /\ n \in ReaderState /\ n.pc = "live" /\ n.list = <<s>> /\ n.hold = r.hold
    BY <1>2, <2>1, <2>2 DEF ReaderState
  <2>4. \A i \in 1 .. Len(n.list) : n.list[i] <= seen + 1
    BY <1>7, <1>12, <2>2, <2>3 DEF Gap
  <2>5. 0 <= seen + 1
    BY <1>7
  <2>6. ReaderOK(n, wire[g])
    BY <1>2, <1>4, <2>3, <2>4, <2>5 DEF ReaderOK, AtRest
  <2> QED
    BY <1>8, <1>9, <1>12, <2>1, <2>3, <2>6
<1> QED
  <2> HIDE DEF r, s
  <2> QED
    BY <1>10, <1>11, <1>12 DEF Take, r, s

-----------------------------------------------------------------------------
\* A reader that turns to events held back, whatever they are.
LEMMA ToDrain ==
  ASSUME IInv, NEW g \in Stream, rd[g].pc \notin AtRest, Idle(rd[g]), NEW b \in Seq(Event),
         rd' = [rd EXCEPT ![g] = [rd[g] EXCEPT !.pc = "drain", !.list = b]],
         UNCHANGED <<channel, receipts, active, recovery, cursor, repairing, faults, hosts>>,
         complete' \in BOOLEAN, gapBuffer' \in Seq(Event), liveBuffer' \in Seq(Event)
  PROVE  IInv'
<1>1. PICK n : n = [rd[g] EXCEPT !.pc = "drain", !.list = b]
  OBVIOUS
<1>2. rd[g] \in ReaderState /\ ReaderOK(rd[g], wire[g])
  BY DEF IInv, TypeOK
<1>3. n \in ReaderState /\ n.pc = "drain"
  BY <1>1, <1>2 DEF ReaderState
<1>4. ReaderOK(n, wire[g])
  BY <1>2, <1>3 DEF ReaderOK, AtRest
<1>5. TypeOK'
  BY <1>1, <1>3 DEF IInv, TypeOK, channel, cursor
<1>6. ASSUME NEW h \in Stream PROVE ReaderOK(rd'[h], wire'[h])
  BY <1>1, <1>4 DEF IInv, TypeOK, channel
<1> QED
  BY <1>5, <1>6, Settled DEF cursor, IInv, Once

LEMMA ReadyStep ==
  ASSUME IInv, NEW g \in Stream, Ready(g) PROVE IInv'
<1>1. liveBuffer \in Seq(Event) /\ gapBuffer \in Seq(Event) /\ <<>> \in Seq(Event)
  BY DEF IInv, TypeOK
<1>2. rd[g].pc \notin AtRest /\ complete' \in BOOLEAN
  BY DEF Ready, AtRest
<1> QED
  BY <1>1, <1>2, ToDrain DEF Ready

LEMMA DrainStep ==
  ASSUME IInv, NEW g \in Stream, Drain(g) PROVE IInv'
<1>1. liveBuffer \in Seq(Event) /\ gapBuffer \in Seq(Event) /\ <<>> \in Seq(Event)
      /\ complete \in BOOLEAN
  BY DEF IInv, TypeOK
<1>2. complete' = complete
  BY DEF Drain
<1>3. complete' \in BOOLEAN
  BY <1>1, <1>2, Zenon
<1>4. rd[g].pc \notin AtRest
  BY DEF Drain, AtRest
<1> QED
  BY <1>1, <1>3, <1>4, ToDrain DEF Drain

LEMMA RepairedStep ==
  ASSUME IInv, NEW g \in Stream, Repaired(g) PROVE IInv'
<1> DEFINE r == rd[g]
<1>1. UNCHANGED <<channel, receipts, active, complete, recovery, cursor, gapBuffer, liveBuffer, faults, hosts>>
      /\ repairing' = FALSE
  BY DEF Repaired
<1>2. r \in ReaderState /\ ReaderOK(r, wire[g]) /\ r.pc = "repair" /\ r.list = <<>> /\ r.hold = 0
  BY DEF IInv, TypeOK, Repaired, Idle
<1>3. PICK n : n = [r EXCEPT !.pc = "trigger", !.list = <<r.trigger>>]
  OBVIOUS
<1>4. rd' = [rd EXCEPT ![g] = n]
  BY <1>3 DEF Repaired
<1>5. r.trigger # 0 /\ Reads(r, r.trigger - 1) /\ wire[g].at \in {"attached", "cut"}
  BY <1>2 DEF ReaderOK, AtRest
<1>6. r.trigger \in Event /\ r.trigger \in Nat
  <2>1. r.trigger \in 0 .. MaxEvent
    BY <1>2 DEF ReaderState
  <2> QED
    BY <1>5, <2>1, LimitAssumption DEF Event
<1>7. Good(1 .. r.trigger - 1)
  <2>1. r.trigger - 1 - Len(r.list) = r.trigger - 1
    BY <1>2, <1>6
  <2> QED
    BY <1>2, <1>5, <2>1 DEF Reads, Good
<1>8. /\ n \in ReaderState /\ n.pc = "trigger" /\ n.list = <<r.trigger>> /\ n.trigger = r.trigger
      /\ n.hold = 0
  <2>1. <<r.trigger>> \in Seq(Event)
    BY <1>6
  <2> QED
    BY <1>2, <1>3, <2>1 DEF ReaderState
<1>9. \A i \in 1 .. Len(n.list) : n.list[i] = n.trigger
  BY <1>8
<1>10. ReaderOK(n, wire[g])
  BY <1>5, <1>7, <1>8, <1>9 DEF ReaderOK, AtRest
<1>11. TypeOK'
  BY <1>1, <1>4, <1>8 DEF IInv, TypeOK, channel, cursor
<1>12. ASSUME NEW h \in Stream PROVE ReaderOK(rd'[h], wire'[h])
  BY <1>1, <1>4, <1>10 DEF IInv, TypeOK, channel
<1> QED
  BY <1>1, <1>11, <1>12, Settled DEF cursor, IInv, Once

\* Readers that end, and nothing else of what they read.
LEMMA EndStep ==
  ASSUME IInv,
         \A g \in Stream : rd'[g] = rd[g] \/ rd'[g] = Ended(rd[g]),
         rd' = [g \in Stream |-> rd'[g]],
         UNCHANGED <<channel, receipts, seen, handled, shown, overtaken, gapBuffer, liveBuffer>>,
         busy' \subseteq busy, repairing' \in BOOLEAN, complete' \in BOOLEAN,
         recovery' \in {"none", "requested", "running", "again"},
         active' \in 0 .. MaxFault + MaxHost + 3,
         faults' \in 0 .. MaxFault, hosts' \in 0 .. MaxHost
  PROVE  IInv'
<1>1. ASSUME NEW g \in Stream PROVE rd'[g] \in ReaderState /\ ReaderOK(rd'[g], wire'[g])
  <2>1. rd[g] \in ReaderState /\ ReaderOK(rd[g], wire[g]) /\ wire' = wire
    BY DEF IInv, TypeOK, channel
  <2> QED
    BY <2>1, EndedOK
<1>2. rd' \in [Stream -> ReaderState]
  BY <1>1
<1>3. TypeOK'
  BY <1>2 DEF IInv, TypeOK, channel
<1> QED
  BY <1>1, <1>3, Settled DEF IInv, Once

LEMMA FaultTypes ==
  ASSUME IInv, Fault PROVE faults' \in 0 .. MaxFault /\ hosts' \in 0 .. MaxHost
BY LimitAssumption DEF Fault, IInv, TypeOK

\* the flags a reader's failure sets
LEMMA LossTypes ==
  ASSUME IInv, NEW broken,
         IF Loses(broken) THEN complete' = FALSE /\ recovery' = Requested(recovery)
         ELSE UNCHANGED <<complete, recovery>>
  PROVE  complete' \in BOOLEAN /\ recovery' \in {"none", "requested", "running", "again"}
<1>1. complete \in BOOLEAN /\ recovery \in {"none", "requested", "running", "again"}
  BY DEF IInv, TypeOK
<1>2. complete' \in {complete, FALSE} /\ recovery' \in {recovery, "requested"}
  BY DEF Requested
<1>3. complete' \in BOOLEAN
  BY <1>1, <1>2, Zenon
<1> QED
  BY <1>1, <1>2, <1>3

LEMMA ProcessFailsStep ==
  ASSUME IInv, NEW s \in Event, ProcessFails(s) PROVE IInv'
<1> DEFINE broken == {g \in Stream : rd[g].hold = s}
<1>1. UNCHANGED <<channel, receipts, active, seen, shown, overtaken, gapBuffer, liveBuffer, handled>>
      /\ busy' \subseteq busy
  BY DEF ProcessFails, HandledAfterFailure
<1>2. rd' = [g \in Stream |-> IF g \in broken THEN Ended(rd[g]) ELSE rd[g]]
      /\ repairing' = (repairing /\ \A g \in broken : rd[g].pc # "repair")
  BY DEF ProcessFails
<1>3. complete' \in BOOLEAN /\ recovery' \in {"none", "requested", "running", "again"}
  <2>1. IF Loses(broken) THEN complete' = FALSE /\ recovery' = Requested(recovery)
        ELSE UNCHANGED <<complete, recovery>>
    BY DEF ProcessFails
  <2> HIDE DEF broken
  <2> QED
    BY <2>1, LossTypes
<1>4. repairing' \in BOOLEAN
  BY <1>2
<1>5. active' \in 0 .. MaxFault + MaxHost + 3
  BY <1>1 DEF IInv, TypeOK
<1>6. faults' \in 0 .. MaxFault /\ hosts' \in 0 .. MaxHost
  BY FaultTypes DEF ProcessFails
<1>7. /\ \A g \in Stream : rd'[g] = rd[g] \/ rd'[g] = Ended(rd[g])
      /\ rd' = [g \in Stream |-> rd'[g]]
  BY <1>2
<1> QED
  BY <1>1, <1>3, <1>4, <1>5, <1>6, <1>7, EndStep

LEMMA PageFailsStep ==
  ASSUME IInv, NEW g \in Stream, PageFails(g) PROVE IInv'
<1>1. UNCHANGED <<channel, receipts, active, cursor, gapBuffer, liveBuffer>>
      /\ UNCHANGED <<seen, handled, shown, overtaken, busy>>
  BY DEF PageFails, cursor
<1>2. rd' = [rd EXCEPT ![g] = Ended(rd[g])]
      /\ repairing' = (repairing /\ rd[g].pc # "repair")
  BY DEF PageFails
<1>3. complete' \in BOOLEAN /\ recovery' \in {"none", "requested", "running", "again"}
  BY LossTypes DEF PageFails
<1>4. repairing' \in BOOLEAN
  BY <1>2
<1>5. active' \in 0 .. MaxFault + MaxHost + 3
  BY <1>1 DEF IInv, TypeOK
<1>6. faults' \in 0 .. MaxFault /\ hosts' \in 0 .. MaxHost
  BY FaultTypes DEF PageFails
<1>7. /\ \A h \in Stream : rd'[h] = rd[h] \/ rd'[h] = Ended(rd[h])
      /\ rd' = [h \in Stream |-> rd'[h]]
  BY <1>2 DEF IInv, TypeOK
<1> QED
  BY <1>1, <1>3, <1>4, <1>5, <1>6, <1>7, EndStep

LEMMA StreamEndsStep ==
  ASSUME IInv, NEW g \in Stream, StreamEnds(g) PROVE IInv'
<1>1. UNCHANGED <<channel, receipts, cursor, buffers, faults, hosts>>
      /\ UNCHANGED <<seen, handled, shown, overtaken, busy, repairing, gapBuffer, liveBuffer>>
  BY DEF StreamEnds, cursor, buffers
<1>2. rd' = [rd EXCEPT ![g] = Ended(rd[g])] /\ recovery' = AfterEnd(g)
      /\ complete' = (complete /\ g # active)
  BY DEF StreamEnds
<1>3. complete' \in BOOLEAN
  BY <1>2
<1>4. recovery' \in {"none", "requested", "running", "again"} /\ repairing' \in BOOLEAN
  BY <1>1, <1>2 DEF AfterEnd, IInv, TypeOK
<1>5. active' \in 0 .. MaxFault + MaxHost + 3
  <2>1. active \in 0 .. MaxFault + MaxHost + 3 /\ rd[g] \in ReaderState
    BY DEF IInv, TypeOK
  <2>2. rd[g].prev \in 0 .. MaxFault + MaxHost + 3
    BY <2>1 DEF ReaderState
  <2>3. active' \in {active, rd[g].prev}
    BY DEF StreamEnds
  <2> QED
    BY <2>1, <2>2, <2>3
<1>6. faults' \in 0 .. MaxFault /\ hosts' \in 0 .. MaxHost
  BY <1>1 DEF IInv, TypeOK
<1>7. /\ \A h \in Stream : rd'[h] = rd[h] \/ rd'[h] = Ended(rd[h])
      /\ rd' = [h \in Stream |-> rd'[h]]
  BY <1>2 DEF IInv, TypeOK
<1> QED
  BY <1>1, <1>3, <1>4, <1>5, <1>6, <1>7, EndStep

LEMMA ReconnectStep ==
  ASSUME IInv, Reconnect PROVE IInv'
<1>1. UNCHANGED <<channel, receipts, rd, active, complete, cursor, buffers, faults>>
      /\ UNCHANGED <<seen, handled, shown, overtaken, busy, wire>>
  BY DEF Reconnect, cursor, channel
<1>2. hosts' \in 0 .. MaxHost /\ recovery' = "requested"
  BY LimitAssumption DEF Reconnect, IInv, TypeOK
<1>3. TypeOK'
  BY <1>1, <1>2 DEF IInv, TypeOK, channel, cursor, buffers
<1>4. \A g \in Stream : ReaderOK(rd'[g], wire'[g])
  BY <1>1 DEF IInv
<1> QED
  BY <1>1, <1>3, <1>4, Settled DEF IInv, Once

LEMMA RecoverSubscriptionStep ==
  ASSUME IInv, NEW g \in Stream, RecoverSubscription(g) PROVE IInv'
<1> DEFINE r == rd[g]
<1>1. UNCHANGED <<replaces, len, own, receipts, complete, cursor, buffers, faults, hosts>>
      /\ UNCHANGED <<seen, handled, shown, overtaken, busy>>
  BY DEF RecoverSubscription, cursor
<1>2. /\ r \in ReaderState /\ wire[g] \in Wire /\ ReaderOK(r, wire[g]) /\ r.pc = "none"
      /\ active \in 0 .. MaxFault + MaxHost + 3 /\ seen \in 0 .. MaxEvent
  BY DEF IInv, TypeOK, RecoverSubscription
<1>3. PICK n : n = [r EXCEPT !.pc = "asked", !.prev = active, !.since = seen]
  OBVIOUS
<1>4. PICK w : w = [wire[g] EXCEPT !.at = "asked"]
  OBVIOUS
<1>5. rd' = [rd EXCEPT ![g] = n] /\ wire' = [wire EXCEPT ![g] = w]
  BY <1>3, <1>4 DEF RecoverSubscription
<1>6. /\ n \in ReaderState /\ n.pc = "asked" /\ n.since = seen /\ n.list = <<>> /\ n.hold = 0
  BY <1>2, <1>3 DEF ReaderState, ReaderOK, AtRest
<1>7. w \in Wire
  BY <1>2, <1>4 DEF Wire
<1>8. active' \in 0 .. MaxFault + MaxHost + 3 /\ recovery' = "running"
  <2>1. active' = g /\ g \in 1 .. MaxFault + MaxHost + 3
    BY DEF RecoverSubscription, Stream
  <2> QED
    BY <2>1, LimitAssumption DEF RecoverSubscription
<1>9. TypeOK'
  BY <1>1, <1>5, <1>6, <1>7, <1>8 DEF IInv, TypeOK, cursor, buffers
<1>10. ReaderOK(n, w)
  BY <1>6 DEF ReaderOK, AtRest, Good, IInv, CursorVouches
<1>11. ASSUME NEW h \in Stream PROVE ReaderOK(rd'[h], wire'[h])
  BY <1>5, <1>10 DEF IInv, TypeOK
<1> QED
  BY <1>1, <1>9, <1>11, Settled DEF IInv, Once

-----------------------------------------------------------------------------
LEMMA InitIInv ==
  ASSUME Init PROVE IInv
<1>1. /\ 0 \in 0 .. MaxEvent /\ 0 \in 0 .. MaxFault /\ 0 \in 0 .. MaxHost /\ 0 \in 0 .. MaxOwn
      /\ 1 \in Event /\ 1 \in 0 .. MaxFault + MaxHost + 3 /\ 0 \in 0 .. MaxFault + MaxHost + 3
      /\ <<>> \in Seq(Event)
  BY LimitAssumption DEF Event
<1>2. NoWire \in Wire /\ [NoWire EXCEPT !.at = "asked"] \in Wire
  BY <1>1 DEF NoWire, Wire
<1>3. NoReader \in ReaderState /\ [NoReader EXCEPT !.pc = "asked"] \in ReaderState
  BY <1>1 DEF NoReader, ReaderState
<1>4. wire \in [Stream -> Wire] /\ rd \in [Stream -> ReaderState]
  BY <1>2, <1>3 DEF Init
<1>5. replaces \in BOOLEAN
  BY ReplacesAssumption DEF Init
<1>6. TypeOK
  BY <1>1, <1>4, <1>5 DEF Init, TypeOK
<1>7. ASSUME NEW g \in Stream PROVE ReaderOK(rd[g], wire[g])
  <2>1. rd[g] = NoReader \/ rd[g] = [NoReader EXCEPT !.pc = "asked"]
    BY DEF Init
  <2>2. rd[g].pc \in AtRest /\ rd[g].list = <<>> /\ rd[g].hold = 0 /\ rd[g].since = 0
    BY <2>1 DEF NoReader, AtRest
  <2>3. Good(1 .. rd[g].since)
    BY <2>2 DEF Good
  <2> QED
    BY <2>2, <2>3 DEF ReaderOK, AtRest
<1>8. Once /\ CursorVouches
  BY DEF Init, Once, CursorVouches
<1> QED
  BY <1>6, <1>7, <1>8 DEF IInv

LEMMA NextIInv ==
  ASSUME IInv, [Next]_vars PROVE IInv'
<1>1. CASE UNCHANGED vars
  <2>1. UNCHANGED <<replaces, len, own, wire, receipts, rd, active, complete, recovery, seen,
                    handled, busy, shown, overtaken, repairing, gapBuffer, liveBuffer, faults, hosts>>
    BY <1>1 DEF vars, channel, cursor, buffers
  <2>2. TypeOK'
    BY <2>1 DEF IInv, TypeOK
  <2>3. \A g \in Stream : ReaderOK(rd'[g], wire'[g])
    BY <2>1 DEF IInv
  <2> QED
    BY <2>1, <2>2, <2>3, Settled DEF IInv, Once
<1>2. CASE Append_ \/ Publish \/ Reconnect
  BY <1>2, AppendStep, PublishStep, ReconnectStep
<1>3. ASSUME NEW s \in Event, Receipt(s) \/ Processed(s) \/ ProcessFails(s) PROVE IInv'
  BY <1>3, ReceiptStep, ProcessedStep, ProcessFailsStep
<1>4. ASSUME NEW g \in Stream, Reader(g) PROVE IInv'
  BY <1>4, NextMessageStep, AcknowledgeStep, TakeStep, ReadyStep, RepairedStep, DrainStep,
     StreamEndsStep, RecoverSubscriptionStep DEF Reader
<1>5. ASSUME NEW g \in Stream, Channel(g) \/ Cut(g) \/ PageFails(g) PROVE IInv'
  BY <1>5, ReadReplayStep, OpenSubscriptionResponseStep, CutStep, PageFailsStep DEF Channel
<1> QED
  BY <1>1, <1>2, <1>3, <1>4, <1>5 DEF Next

LEMMA Invariant == Spec => []IInv
BY InitIInv, NextIInv, PTL DEF Spec

\* Only the reader that has nothing left ends its replay.
LEMMA OnlyReady ==
  ASSUME IInv, Next, NEW g \in Stream, rd[g].pc = "replay", rd'[g].pc = "drain"
  PROVE  Idle(rd[g])
<1>1. rd \in [Stream -> ReaderState] /\ rd[g] \in ReaderState
  BY DEF IInv, TypeOK
<1>2. \/ \E s \in Event : Processed(s) \/ ProcessFails(s)
      \/ \E h \in Stream : Reader(h) \/ PageFails(h)
  <2>1. rd' # rd
    BY <1>1
  <2>2. ~Append_ /\ ~Publish /\ ~Reconnect
    BY <2>1 DEF Append_, Publish, Reconnect
  <2>3. \A s \in Event : ~Receipt(s)
    BY <2>1 DEF Receipt
  <2>4. \A h \in Stream : ~Channel(h) /\ ~Cut(h)
    BY <2>1 DEF Channel, ReadReplay, OpenSubscriptionResponse, Cut
  <2> QED
    BY <2>2, <2>3, <2>4 DEF Next
<1>3. Ended(rd[g]).pc # "drain" /\ Aborted(rd[g]).pc # "drain"
  <2>1. ReaderOK(rd[g], wire[g])
    BY DEF IInv
  <2>2. Ended(rd[g]).pc = "ended"
    BY <1>1 DEF Ended, ReaderState
  <2> QED
    BY <1>1, <2>1, <2>2, AbortedOK
<1>4. ASSUME NEW s \in Event, Processed(s) \/ ProcessFails(s) PROVE FALSE
  <2>1. rd'[g] \in {rd[g], [rd[g] EXCEPT !.hold = 0], Ended(rd[g])}
    BY <1>4 DEF Processed, ProcessFails, Released
  <2>2. [rd[g] EXCEPT !.hold = 0].pc = "replay"
    BY <1>1 DEF ReaderState
  <2> QED
    BY <1>3, <2>1, <2>2
<1>5. ASSUME NEW h \in Stream, h # g, Reader(h) \/ PageFails(h) PROVE FALSE
  <2>1. rd'[g] = rd[g] \/ rd'[g] = Aborted(rd[g])
    BY <1>1, <1>5 DEF Reader, PageFails, NextMessage, Acknowledge, Take, Ready, Repaired, Drain,
                      StreamEnds, RecoverSubscription
  <2> QED
    BY <1>3, <2>1
<1>6. ~PageFails(g) /\ ~StreamEnds(g)
  BY <1>1, <1>3 DEF PageFails, StreamEnds
<1>7. ASSUME NextMessage(g) PROVE FALSE
  <2>1. PICK k : rd' = [rd EXCEPT ![g] = [rd[g] EXCEPT !.list = Tail(rd[g].list), !.hold = k]]
    BY <1>7 DEF NextMessage
  <2>2. rd'[g] = [rd[g] EXCEPT !.list = Tail(rd[g].list), !.hold = k]
    BY <1>1, <2>1
  <2> QED
    BY <1>1, <2>2 DEF ReaderState
<1>8. ~Acknowledge(g) /\ ~Take(g) /\ ~Repaired(g) /\ ~Drain(g) /\ ~RecoverSubscription(g)
  BY DEF Acknowledge, Take, Waits, Repaired, Drain, RecoverSubscription
<1>9. CASE Ready(g)
  BY <1>9 DEF Ready
<1> QED
  BY <1>2, <1>4, <1>5, <1>6, <1>7, <1>8, <1>9 DEF Reader

-----------------------------------------------------------------------------
\* The client's state has its types, for any bound on streams and faults.
THEOREM TypeCorrect == Spec => []TypeOK
<1>1. IInv => TypeOK
  BY DEF IInv
<1> QED
  BY <1>1, Invariant, PTL

\* An event is projected at most once, however many streams, repairs and
\* receipts bring it (handleServerMessage and its shared processing).
THEOREM OneProjection == Spec => []ProjectedOnce
<1>1. IInv => ProjectedOnce
  BY DEF IInv, Once, ProjectedOnce
<1> QED
  BY <1>1, Invariant, PTL

\* The cursor a recovery starts from has everything below it projected, as
\* long as no receipt and no buffered event moved it over a gap.
THEOREM CursorTrue == Spec => []CursorVouches
<1>1. IInv => CursorVouches
  BY DEF IInv
<1> QED
  BY <1>1, Invariant, PTL

\* A replay's boundary is announced with its whole snapshot projected.
THEOREM BoundaryTrue == Spec => BoundaryVouches
<1> DEFINE B == \A g \in Stream : rd[g].pc = "replay" /\ rd'[g].pc = "drain" /\ ~overtaken
                                  => 1 .. wire[g].snap \subseteq handled
<1>1. ASSUME IInv, Next PROVE B
  <2> SUFFICES ASSUME NEW g \in Stream, rd[g].pc = "replay", rd'[g].pc = "drain", ~overtaken
               PROVE  1 .. wire[g].snap \subseteq handled
    OBVIOUS
  <2>1. Idle(rd[g])
    BY <1>1, OnlyReady
  <2>2. Len(rd[g].list) = 0 /\ rd[g].hold = 0 /\ wire[g].snap \in Nat
    BY <1>1, <2>1 DEF Idle, IInv, TypeOK, Wire
  <2>3. Reads(rd[g], wire[g].snap)
    BY <1>1 DEF IInv, ReaderOK
  <2>4. wire[g].snap - Len(rd[g].list) = wire[g].snap
    BY <2>2
  <2> QED
    BY <2>2, <2>3, <2>4 DEF Reads
<1> QED
  BY <1>1, Invariant, PTL DEF Spec, BoundaryVouches
=============================================================================
