---------------------------- MODULE FlowCaptureProofs ----------------------------
(* The two outputs of a flow capture agree, and a capture with a UI keeps to its *)
(* limits, for any limits, channel size and number of records.                   *)
EXTENDS FlowCapture, TLAPS

Seen(n) == Inserted \cup refused = 1..n

\* Where the loop is tells how far each output is.
Progress ==
  /\ pc \in {"create", "listen", "loop", "size", "time", "delete"} => Len(json) = taken /\ Seen(taken)
  /\ pc = "insert" => taken > 0 /\ Len(json) = taken - 1 /\ Seen(taken - 1)
  /\ pc = "write" => taken > 0 /\ Len(json) = taken - 1 /\ Seen(taken)

\* In the foreground only the record whose size is about to be tested may pass the limit.
WithinLimit ==
  ~background =>
    /\ pc # "delete"
    /\ pc \in {"create", "listen", "loop", "insert", "write", "time"} => Len(json) <= SizeLimit

\* The two halves of TypeOK.
Flags ==
  /\ background \in BOOLEAN /\ late \in BOOLEAN /\ diskFull \in BOOLEAN
  /\ captureEnded \in BOOLEAN /\ stopReceived \in BOOLEAN
Values ==
  /\ pc \in Places
  /\ ui \in {"none", "starting", "running", "ended"} /\ db \in {"open", "nil"}
  /\ sent \in Nat /\ taken \in Nat
  /\ rows \in Seq(Nat) /\ refused \subseteq Nat /\ json \in Seq(Nat)
  /\ agents \in {"running", "deleted", "left"}
  /\ exited \in {"no", "main", "signal", "fatal", "panic"}

\* The types in two halves, for provers that like one of them each.
LEMMA TypeHalves == TypeOK <=> Flags /\ Values
  BY Zenon DEF TypeOK, Flags, Values

Inv == TypeOK /\ Progress /\ OutputsAgree /\ WithinLimit /\ ForegroundStopsAtLimit

\* The start.
LEMMA InitInv == Init => Inv
<1> SUFFICES ASSUME Init PROVE Inv
  OBVIOUS
<1> USE CaptureAssumption DEF Init
<1>1. TypeOK
  <2>1. Flags
    BY Zenon DEF Flags
  <2>2. Values
    BY DEF Values, Places
  <2>3. QED
    BY <2>1, <2>2, Zenon DEF TypeOK, Flags, Values
<1>2. Inserted = {} /\ Len(json) = 0
  BY DEF Inserted
<1>3. QED
  BY <1>1, <1>2 DEF Inv, Progress, Seen, OutputsAgree, WithinLimit, ForegroundStopsAtLimit

\* What a record adds to the table.
LEMMA RowAdded ==
  ASSUME TypeOK, taken \in Nat, rows' = Append(rows, taken)
  PROVE  /\ rows' \in Seq(Nat) /\ Inserted' = Inserted \cup {taken}
         /\ Len(rows') = Len(rows) + 1 /\ rows'[Len(rows) + 1] = taken
         /\ \A i \in DOMAIN rows : rows'[i] = rows[i]
<1> USE DEF TypeOK
<1>1. /\ rows' \in Seq(Nat) /\ Len(rows') = Len(rows) + 1 /\ rows'[Len(rows) + 1] = taken
      /\ \A i \in 1..Len(rows) : rows'[i] = rows[i]
  OBVIOUS
<1>2. DOMAIN rows = 1..Len(rows) /\ DOMAIN rows' = 1..(Len(rows) + 1) /\ Len(rows) \in Nat
  BY <1>1
<1>3. Inserted' = {rows'[i] : i \in DOMAIN rows'}
  BY DEF Inserted
<1>4. Inserted' = Inserted \cup {taken}
  <2>1. ASSUME NEW x \in Inserted' PROVE x \in Inserted \cup {taken}
    <3>1. PICK i \in 1..(Len(rows) + 1) : x = rows'[i]
      BY <1>2, <1>3
    <3>2. CASE i = Len(rows) + 1
      BY <3>1, <3>2, <1>1
    <3>3. CASE i \in 1..Len(rows)
      BY <3>1, <3>3, <1>1, <1>2 DEF Inserted
    <3>4. QED
      BY <3>2, <3>3, <1>2
  <2>2. ASSUME NEW x \in Inserted PROVE x \in Inserted'
    <3>1. PICK i \in 1..Len(rows) : x = rows[i]
      BY <1>2 DEF Inserted
    <3>2. i \in DOMAIN rows' /\ rows'[i] = x
      BY <3>1, <1>1, <1>2
    <3>3. QED
      BY <3>2, <1>3
  <2>3. taken \in Inserted'
    BY <1>1, <1>2, <1>3
  <2>4. QED
    BY <2>1, <2>2, <2>3
<1>5. QED
  BY <1>1, <1>2, <1>4

\* The database takes the record in hand, refuses it, or is not there.
LEMMA InsertInv == ASSUME Inv, Insert PROVE Inv'
<1> USE CaptureAssumption DEF Inv, agentVars
<1>1. CASE db = "nil" /\ exited' = "panic" /\ UNCHANGED <<pc, rows, refused>>
  BY <1>1 DEF Insert, TypeOK, Places, Progress, Seen, Inserted, OutputsAgree, WithinLimit,
              ForegroundStopsAtLimit
<1>2. CASE /\ db = "open" /\ Goto("write") /\ UNCHANGED exited
           /\ \/ rows' = Append(rows, taken) /\ UNCHANGED refused
              \/ refused' = refused \cup {taken} /\ UNCHANGED rows
  <2>1. /\ pc = "insert" /\ pc' = "write" /\ taken > 0 /\ Len(json) = taken - 1 /\ Seen(taken - 1)
        /\ taken \in Nat /\ taken' = taken /\ json' = json /\ background' = background
        /\ captureEnded' = captureEnded
    BY <1>2 DEF Insert, At, Goto, Progress, TypeOK
  <2>2. Inserted' \cup refused' = Inserted \cup refused \cup {taken}
    BY <1>2, <2>1, RowAdded DEF Inserted
  <2>3. Seen(taken)'
    BY <2>1, <2>2 DEF Seen
  <2>4. taken \notin Inserted \cup refused /\ (\A x \in Inserted : x < taken)
    BY <2>1 DEF Seen
  <2>5. TypeOK'
    <3>1. Flags'
      BY TypeHalves, Zenon DEF Insert, Flags
    <3>2. rows' \in Seq(Nat)
      BY <1>2, <2>1, RowAdded DEF TypeOK
    <3>3. Values'
      BY <1>2, <2>1, <3>2 DEF Insert, TypeOK, Values, Places
    <3>4. QED
      BY <3>1, <3>3, Zenon DEF TypeOK, Flags, Values
  <2>6. \A i, j \in DOMAIN rows' : i < j => rows'[i] < rows'[j]
    <3>1. CASE UNCHANGED rows
      BY <3>1 DEF OutputsAgree
    <3>2. CASE rows' = Append(rows, taken)
      <4>1. /\ Len(rows') = Len(rows) + 1 /\ rows'[Len(rows) + 1] = taken
            /\ \A i \in DOMAIN rows : rows'[i] = rows[i]
            /\ DOMAIN rows = 1..Len(rows) /\ DOMAIN rows' = 1..(Len(rows) + 1) /\ Len(rows) \in Nat
        BY <3>2, <2>1, RowAdded DEF TypeOK
      <4>2. \A i \in DOMAIN rows : rows[i] < taken
        BY <2>4 DEF Inserted
      <4>3. \A i, j \in DOMAIN rows : i < j => rows[i] < rows[j]
        BY DEF OutputsAgree
      <4>4. SUFFICES ASSUME NEW i \in DOMAIN rows', NEW j \in DOMAIN rows', i < j
                     PROVE rows'[i] < rows'[j]
        OBVIOUS
      <4>5. i \in DOMAIN rows
        BY <4>1, <4>4
      <4>6. CASE j \in DOMAIN rows
        BY <4>1, <4>3, <4>4, <4>5, <4>6
      <4>7. CASE j = Len(rows) + 1
        BY <4>1, <4>2, <4>5, <4>7
      <4>8. QED
        BY <4>1, <4>6, <4>7
    <3>3. QED
      BY <1>2, <3>1, <3>2
  <2>7. Inserted' \cap refused' = {}
    <3>1. Inserted \cap refused = {}
      BY DEF OutputsAgree
    <3>2. CASE rows' = Append(rows, taken) /\ UNCHANGED refused
      BY <3>1, <3>2, <2>1, <2>4, RowAdded
    <3>3. CASE refused' = refused \cup {taken} /\ UNCHANGED rows
      BY <3>1, <3>3, <2>4 DEF Inserted
    <3>4. QED
      BY <1>2, <3>2, <3>3
  <2>8. OutputsAgree'
    <3>1. \A i \in DOMAIN json' : json'[i] = i
      BY <2>1 DEF OutputsAgree
    <3>2. Inserted' \cup refused' = 1..(Len(json') + 1)
      BY <2>1, <2>3 DEF Seen
    <3>3. QED
      BY <3>1, <3>2, <2>1, <2>6, <2>7 DEF OutputsAgree
  <2>9. QED
    BY <2>1, <2>3, <2>5, <2>8 DEF Progress, Seen, WithinLimit, ForegroundStopsAtLimit
<1>3. QED
  BY <1>1, <1>2 DEF Insert

\* The file gets the record in hand, or the write fails and the loop ends.
LEMMA WriteInv == ASSUME Inv, Write PROVE Inv'
<1> USE CaptureAssumption DEF Inv, agentVars, endVars
<1>1. /\ pc = "write" /\ taken > 0 /\ Len(json) = taken - 1 /\ Seen(taken) /\ taken \in Nat
      /\ Inserted' = Inserted /\ refused' = refused /\ taken' = taken /\ background' = background
      /\ captureEnded' = captureEnded /\ rows' = rows
  BY DEF Write, At, Progress, TypeOK, Inserted
<1>2. CASE Goto("size") /\ json' = Append(json, taken) /\ UNCHANGED diskFull
  <2>1. Len(json') = taken /\ json' \in Seq(Nat) /\ (\A i \in DOMAIN json' : json'[i] = i)
    BY <1>1, <1>2 DEF TypeOK, OutputsAgree
  <2>2. TypeOK'
    BY <1>2, <2>1 DEF Write, TypeOK, Places, Goto
  <2>3. OutputsAgree'
    BY <1>1, <2>1 DEF OutputsAgree, Seen
  <2>4. ~background => captureEnded = FALSE /\ Len(json') <= SizeLimit + 1
    BY <1>1, <2>1 DEF ForegroundStopsAtLimit, WithinLimit, TypeOK
  <2>5. QED
    BY <1>1, <1>2, <2>1, <2>2, <2>3, <2>4 DEF Goto, Progress, Seen, WithinLimit, ForegroundStopsAtLimit
<1>3. CASE Goto("returned") /\ diskFull' = TRUE /\ UNCHANGED json
  <2>1. TypeOK'
    BY <1>3 DEF Write, TypeOK, Places, Goto
  <2>2. OutputsAgree'
    BY <1>1, <1>3 DEF Goto, OutputsAgree, Seen
  <2>3. QED
    BY <1>1, <1>3, <2>1, <2>2 DEF Goto, Progress, Seen, WithinLimit, ForegroundStopsAtLimit
<1>4. QED
  BY <1>2, <1>3 DEF Write

\* Steps that write neither output.
LEMMA OtherInv ==
  ASSUME Inv, UNCHANGED <<background, outputVars>>, TypeOK', Progress', WithinLimit',
         pc # "returned" => pc \notin {"write"} \/ pc' = "write",
         pc = "returned" => pc' = "returned",
         ~background' => (captureEnded' => pc' = "returned")
  PROVE  Inv'
<1>1. Inserted' = Inserted /\ refused' = refused /\ json' = json /\ rows' = rows
  BY DEF outputVars, Inserted
<1>2. OutputsAgree'
  BY <1>1 DEF Inv, OutputsAgree
<1>3. ForegroundStopsAtLimit'
  BY <1>1 DEF Inv, ForegroundStopsAtLimit, outputVars
<1>4. QED
  BY <1>2, <1>3 DEF Inv

\* The other steps of the collector.
LEMMA CollectorInv ==
  ASSUME Inv, Create \/ Listen \/ Take \/ CheckSize \/ CheckTime \/ DeleteAgents
  PROVE  Inv'
<1> USE CaptureAssumption DEF At, Goto
<1>1. UNCHANGED <<background, outputVars>> /\ Inserted' = Inserted
  BY DEF Create, Listen, Take, CheckSize, CheckTime, DeleteAgents, outputVars, Inserted
<1>2. TypeOK'
  <2>1. Flags'
    BY TypeHalves, Zenon DEF Inv, Flags, Create, Listen, Take, CheckSize, CheckTime, DeleteAgents,
                             EndCapture, outputVars, agentVars, endVars
  <2>2. Values'
    BY TypeHalves DEF Inv, Values, Places, Create, Listen, Take, CheckSize, CheckTime, DeleteAgents,
           EndCapture, StopUI, outputVars, agentVars, endVars
  <2>3. QED
    BY <2>1, <2>2, Zenon DEF TypeOK, Flags, Values
<1>3. Progress'
  BY <1>1 DEF Inv, TypeOK, Progress, Seen, Create, Listen, Take, CheckSize, CheckTime, DeleteAgents,
              EndCapture, outputVars, agentVars, endVars
<1>4. WithinLimit'
  BY <1>1 DEF Inv, TypeOK, WithinLimit, ForegroundStopsAtLimit, Create, Listen, Take, CheckSize,
              CheckTime, DeleteAgents, EndCapture, outputVars, agentVars, endVars
<1>5. ~background' => (captureEnded' => pc' = "returned")
  BY <1>1 DEF Inv, TypeOK, WithinLimit, ForegroundStopsAtLimit, Create, Listen, Take, CheckSize,
              CheckTime, DeleteAgents, EndCapture, outputVars, agentVars, endVars
<1>6. pc \notin {"write", "returned"}
  BY DEF Create, Listen, Take, CheckSize, CheckTime, DeleteAgents
<1>7. QED
  BY <1>1, <1>2, <1>3, <1>4, <1>5, <1>6, OtherInv

\* The UI, the signal, the agents and the clock.
LEMMA WorldInv ==
  ASSUME Inv,
         StartUI \/ UserQuits \/ SigTerm \/ SignalExit \/ MainReturns \/ Send \/ TimePasses
           \/ UNCHANGED vars
  PROVE  Inv'
<1> USE DEF StartUI, UserQuits, SigTerm, SignalExit, MainReturns, Send, TimePasses, vars,
            agentVars, outputVars, endVars
<1>1. UNCHANGED <<background, outputVars, pc, taken, captureEnded>> /\ Inserted' = Inserted
  BY DEF Inserted
<1>2. TypeOK'
  <2>1. Flags'
    BY TypeHalves, Zenon DEF Inv, Flags
  <2>2. Values'
    BY TypeHalves DEF Inv, Values, Places
  <2>3. QED
    BY <2>1, <2>2, Zenon DEF TypeOK, Flags, Values
<1>3. Progress' /\ WithinLimit' /\ (~background' => (captureEnded' => pc' = "returned"))
  BY <1>1 DEF Inv, Progress, Seen, WithinLimit, ForegroundStopsAtLimit
<1>4. QED
  BY <1>1, <1>2, <1>3, OtherInv

\* The inductive invariant.
LEMMA InvHolds == Spec => []Inv
<1>1. Inv /\ [Next]_vars => Inv'
  <2> SUFFICES ASSUME Inv, [Next]_vars PROVE Inv'
    OBVIOUS
  <2>1. CASE Insert
    BY <2>1, InsertInv
  <2>2. CASE Write
    BY <2>2, WriteInv
  <2>3. CASE Create \/ Listen \/ Take \/ CheckSize \/ CheckTime \/ DeleteAgents
    BY <2>3, CollectorInv
  <2>4. CASE StartUI \/ UserQuits \/ SigTerm \/ SignalExit \/ MainReturns \/ Send \/ TimePasses
               \/ UNCHANGED vars
    BY <2>4, WorldInv
  <2>5. QED
    BY <2>1, <2>2, <2>3, <2>4 DEF Next, Collector
<1>2. QED
  BY <1>1, InitInv, PTL DEF Spec

\* The file and the table hold what was acknowledged, without a gap, and differ by at
\* most the record in hand.
THEOREM OutputsCorrect == Spec => []OutputsAgree
<1>1. Inv => OutputsAgree
  BY DEF Inv
<1>2. QED
  BY <1>1, InvHolds, PTL

\* A capture with a UI writes at most one record past its limit, and none once it ended.
THEOREM LimitCorrect == Spec => []ForegroundStopsAtLimit
<1>1. Inv => ForegroundStopsAtLimit
  BY DEF Inv
<1>2. QED
  BY <1>1, InvHolds, PTL

\* The state of a flow capture keeps its types.
THEOREM FlowTypeCorrect == Spec => []TypeOK
<1>1. Inv => TypeOK
  BY DEF Inv
<1>2. QED
  BY <1>1, InvHolds, PTL
================================================================================
