------------------------------ MODULE FlowDisplay ------------------------------
(***************************************************************************)
(* The live table of a capture (cmd/flow_display.go, cmd/display.go): the  *)
(* goroutines that append records, the heartbeat that refreshes the table, *)
(* and the user who pauses, filters and resizes it.  Collectors launch one *)
(* goroutine per record, so records are appended in any order; the order   *)
(* they came in is left out.                                               *)
(***************************************************************************)
EXTENDS Integers, FiniteSets, SequencesExt, FiniteSetsExt

CONSTANTS
  Captures,       \* kinds of capture: "flow", "packet", or "tls", a packet capture with
                  \* plaintextCaptureEnabled
  KeepCount, WirePacketKeepCount, PlaintextKeepCount,
  DefaultShowCount, LeastShowCount,  \* 30 and 5 in the program
  Records,        \* [capture -> the records it may report]: their time; their type,
                  \* "wire" (has Data), "plaintext" (is a plaintext record) or "other";
                  \* and whether they match the filters
  MaxFlows, MaxShowCount, MaxRegexes   \* bounds

ASSUME DisplayAssumption ==
  /\ Captures \subseteq {"flow", "packet", "tls"}
  /\ {KeepCount, WirePacketKeepCount, PlaintextKeepCount} \subseteq Nat \ {0}
  /\ {DefaultShowCount, LeastShowCount} \subseteq Nat \ {0}
  /\ \A c \in Captures : Records[c] \subseteq
       [time : Nat, type : {"wire", "plaintext", "other"}, match : BOOLEAN]
  /\ {MaxFlows, MaxShowCount, MaxRegexes} \subseteq Nat

VARIABLES
  capture,
  lastFlows, lastWirePackets, lastPlaintextFlows,  \* the buffers, oldest first
  flowIndex,
  appending,     \* the record whose goroutine is in AppendFlow, past the test of paused
  accepted,      \* history: the records appended so far
  heartbeat,     \* "idle", "snapshot" (in getFlows) or "returned"
  snapshot,      \* lfCopy
  seen,          \* history: flowIndex when it was taken
  table,         \* tableData.flows
  paused, showCount,
  regexes        \* number of filters; a record matches all of them or none

buffers == <<lastFlows, lastWirePackets, lastPlaintextFlows>>
appendVars == <<buffers, flowIndex, appending, accepted>>
refreshVars == <<heartbeat, snapshot, seen, table>>
userVars == <<paused, showCount, regexes>>
vars == <<capture, appendVars, refreshVars, userVars>>

None == [index |-> -1]

Init ==
  /\ capture \in Captures
  /\ lastFlows = <<>> /\ lastWirePackets = <<>> /\ lastPlaintextFlows = <<>>
  /\ flowIndex = 0 /\ appending = None /\ accepted = {}
  /\ heartbeat = "idle" /\ snapshot = <<>> /\ seen = 0 /\ table = <<>>
  /\ paused = FALSE /\ showCount = DefaultShowCount /\ regexes = 0

--------------------------------------------------------------------------------
(* Sorting and trimming *)

\* comparePacketFlows
Before(a, b) == a.time < b.time \/ (a.time = b.time /\ a.index < b.index)
InOrder(s) == \A i, j \in DOMAIN s : i < j => Before(s[i], s[j])
SortPacketFlows(S) == CHOOSE s \in SetToSeqs(S) : InOrder(s)

\* sort.Slice by TimeFlowEndMs is not stable: flows that tie may change places.
InTimeOrder(s) == \A i, j \in DOMAIN s : i < j => s[i].time <= s[j].time
Sorted(S) ==
  IF capture = "flow" THEN {s \in SetToSeqs(S) : InTimeOrder(s)} ELSE {SortPacketFlows(S)}

\* The loops that append the rows to keep to a new slice; rows are told apart by their index.
Those(s, Keep) ==
  LET upTo[n \in 0..Len(s)] ==
        IF n = 0 THEN <<>>
        ELSE IF s[n] \in Keep THEN Append(upTo[n - 1], s[n]) ELSE upTo[n - 1]
  IN upTo[Len(s)]

LastOf(s, n) == IF Len(s) > n THEN SubSeq(s, Len(s) - n + 1, Len(s)) ELSE s

\* Mutant: trimmed before it is sorted.
TrimFirst(buf, r, maxLen) == Sorted(ToSet(LastOf(buf, maxLen - 1)) \cup {r})

\* appendToTimeSortedBuffer, and the same at the end of AppendFlow.
AppendSorted(buf, r, maxLen) == {LastOf(s, maxLen) : s \in Sorted(ToSet(buf) \cup {r})}

--------------------------------------------------------------------------------
(* AppendFlow.  It holds the mutex to the end; the user may pause in between. *)

BeginAppend ==
  /\ appending = None /\ ~paused /\ flowIndex < MaxFlows
  /\ \E r \in Records[capture] :
       appending' = [index |-> flowIndex, time |-> r.time, type |-> r.type, match |-> r.match]
  /\ flowIndex' = flowIndex + 1
  /\ UNCHANGED <<capture, buffers, accepted, refreshVars, userVars>>

EndAppend ==
  /\ appending # None
  /\ CASE capture = "tls" /\ appending.type = "plaintext" ->
            /\ lastPlaintextFlows' \in AppendSorted(lastPlaintextFlows, appending, PlaintextKeepCount)
            /\ UNCHANGED <<lastFlows, lastWirePackets>>
       [] capture = "tls" /\ appending.type = "wire" ->
            /\ lastWirePackets' \in AppendSorted(lastWirePackets, appending, WirePacketKeepCount)
            /\ UNCHANGED <<lastFlows, lastPlaintextFlows>>
       [] OTHER ->
            /\ lastFlows' \in AppendSorted(lastFlows, appending, KeepCount)
            /\ UNCHANGED <<lastWirePackets, lastPlaintextFlows>>
  /\ accepted' = accepted \cup {appending} /\ appending' = None
  /\ UNCHANGED <<capture, flowIndex, refreshVars, userVars>>

--------------------------------------------------------------------------------
(* The heartbeat: updateTableAndSuggestions at every frame, paused or not *)

\* packetCaptureFlowSnapshot
Displayed ==
  IF capture = "tls" THEN SortPacketFlows(ToSet(lastWirePackets) \cup ToSet(lastPlaintextFlows))
  ELSE lastFlows

\* Mutant: no refresh while the display is paused.
SnapshotUnlessPaused ==
  /\ heartbeat = "idle" /\ ~paused /\ appending = None
  /\ heartbeat' = "snapshot" /\ snapshot' = Displayed /\ seen' = flowIndex
  /\ UNCHANGED <<capture, appendVars, table, userVars>>

\* getFlows takes the mutex for its copy of the buffers only.
Snapshot ==
  /\ heartbeat = "idle" /\ appending = None
  /\ heartbeat' = "snapshot" /\ snapshot' = Displayed /\ seen' = flowIndex
  /\ UNCHANGED <<capture, appendVars, table, userVars>>

\* Mutant: the rows that left the buffer are put after the others.
MissingLast(lf, rows) ==
  IF capture = "flow" THEN lf \o Those(rows, ToSet(rows) \ ToSet(lf)) ELSE lf

\* Mutant: every row of the table is kept.
KeepRows(lf, rows) == IF capture = "flow" THEN rows \o lf ELSE lf

\* "keep a selected row visible briefly after it leaves the buffer": the rows of the
\* table that left the buffer come before it.
WithMissing(lf, rows) ==
  IF capture = "flow" THEN Those(rows, ToSet(rows) \ ToSet(lf)) \o lf ELSE lf

Matching(s) == IF regexes > 0 THEN Those(s, {r \in ToSet(s) : r.match}) ELSE s

\* trimFlowsToShowCount; it sorts packets once more.
Trimmed(s) ==
  IF capture # "flow" /\ Len(s) > showCount THEN LastOf(SortPacketFlows(ToSet(s)), showCount)
  ELSE LastOf(s, showCount)

\* What getFlows returns of a copy of the buffers and the rows of the table.
Rows(lf, rows) == Trimmed(Matching(WithMissing(lf, rows)))

\* The rest of getFlows, with the filters and the count as they are now.
Publish ==
  /\ heartbeat = "snapshot" /\ heartbeat' = "idle"
  /\ table' = Rows(snapshot, table)
  /\ UNCHANGED <<capture, snapshot, seen, appendVars, userVars>>

\* captureEnded may be set at any moment.
HeartbeatReturns ==
  /\ heartbeat = "idle" /\ heartbeat' = "returned"
  /\ UNCHANGED <<capture, snapshot, seen, table, appendVars, userVars>>

--------------------------------------------------------------------------------
(* The user *)

Pause(p) ==
  /\ paused' = p
  /\ UNCHANGED <<capture, showCount, regexes, appendVars, refreshVars>>

\* Ctrl-Space or the button; ESC, or a row that is gone: resetSelection.
TogglePause == Pause(~paused)
ResetSelection == Pause(FALSE)

\* A row with a payload to show: selectData.
SelectRow == (\E r \in ToSet(table) : r.type \in {"wire", "plaintext"}) /\ Pause(TRUE)

ShowMore ==
  /\ showCount < MaxShowCount /\ showCount' = showCount + 1
  /\ UNCHANGED <<capture, paused, regexes, appendVars, refreshVars>>

ShowLess ==
  /\ showCount > LeastShowCount /\ showCount' = showCount - 1
  /\ UNCHANGED <<capture, paused, regexes, appendVars, refreshVars>>

AddRegex ==
  /\ regexes < MaxRegexes /\ regexes' = regexes + 1
  /\ UNCHANGED <<capture, paused, showCount, appendVars, refreshVars>>

\* Backspace, or a click on the filter.
RemoveRegex ==
  /\ regexes > 0 /\ regexes' = regexes - 1
  /\ UNCHANGED <<capture, paused, showCount, appendVars, refreshVars>>

Next ==
  \/ BeginAppend \/ EndAppend
  \/ Snapshot \/ Publish \/ HeartbeatReturns
  \/ TogglePause \/ ResetSelection \/ SelectRow
  \/ ShowMore \/ ShowLess \/ AddRegex \/ RemoveRegex

Spec == Init /\ [][Next]_vars

\* Goroutines run; the mutex is handed to the heartbeat when it has starved (SF).
FairSpec ==
  Spec /\ WF_vars(EndAppend) /\ SF_vars(Snapshot) /\ WF_vars(Publish)

--------------------------------------------------------------------------------
(* Properties *)

Visible(r) == capture = "tls" => r.type # "other"
Kept(r) ==
  CASE capture = "tls" /\ r.type = "plaintext" -> PlaintextKeepCount
    [] capture = "tls" /\ r.type = "wire" -> WirePacketKeepCount
    [] OTHER -> KeepCount

\* The records, of those in S, that are at least as late as r.
NotBefore(r, S) == {a \in S : Visible(a) /\ a # r /\ a.time >= r.time}

\* Rows are in the order of time and each record has one, although records arrive out of
\* order and the rows put before the buffer left it at different moments.
TableInOrder ==
  /\ InTimeOrder(table)
  /\ capture # "flow" => InOrder(table)
  /\ Cardinality(ToSet(table)) = Len(table)

\* Without a filter, a record appended before a refresh is in the table after it, unless
\* as many rows as are shown, or kept of its kind, are at least as late.
NewestShown ==
  [][heartbeat = "snapshot" /\ heartbeat' = "idle" /\ regexes = 0 =>
       \A r \in accepted :
         \/ r.index >= seen \/ ~Visible(r) \/ r \in ToSet(table')
         \/ Cardinality(NotBefore(r, ToSet(table'))) >= Min({showCount, Kept(r)})]_vars

\* "Table refresh is paused": once the rows have caught up with the buffers, a refresh
\* changes nothing until a record, a filter or a count does.
RefreshSettles == LET shown == Rows(Displayed, table) IN Rows(Displayed, shown) = shown

\* An appended record gets a row, paused or not, unless as many as are shown or kept are
\* at least as late, a filter is on, or the capture ends.
AppendedIsShown ==
  \A i \in 0..(MaxFlows - 1) :
    (\E r \in accepted : r.index = i /\ Visible(r))
      ~> \/ \E r \in ToSet(table) : r.index = i
         \/ \E r \in accepted : r.index = i
              /\ Cardinality(NotBefore(r, accepted)) >= Min({showCount, Kept(r)})
         \/ regexes > 0 \/ heartbeat = "returned"
================================================================================
