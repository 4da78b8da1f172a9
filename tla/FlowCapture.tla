------------------------------ MODULE FlowCapture ------------------------------
(***************************************************************************)
(* A capture of flows (cmd/flow_capture.go): the collector goroutine, the  *)
(* limits of cmd/root.go, and the ways the process ends.  Records are      *)
(* numbered in the order the agents have them acknowledged; all have the   *)
(* same size.  The goroutine the loop launches for the display of each     *)
(* record is in FlowDisplay.                                               *)
(***************************************************************************)
EXTENDS Integers, Sequences

CONSTANTS ChanSize,   \* capacity of flowPackets (100 in the program)
          SizeLimit,  \* maxBytes, in records
          MaxFlows    \* bound: records the agents report

ASSUME CaptureAssumption == ChanSize \in Nat \ {0} /\ SizeLimit \in Nat /\ MaxFlows \in Nat

VARIABLES
  background,    \* the collector runs in the main goroutine, without a UI
  pc,            \* where startFlowCollector is
  ui,            \* the tview application
  db,            \* what initFlowDB returned: "open" or "nil"
  late,          \* more than maxTime has passed since the process started
  sent,          \* records acknowledged: pushed in the channel
  taken,         \* of them received by the loop
  rows,          \* records inserted in the table "flow", in order
  refused,       \* records the database did not take
  json,          \* records written to the text file, in order
  diskFull,      \* a write to the file has failed
  agents,        \* the daemon set: "running", "deleted", or "left" when that failed
  captureEnded, stopReceived,
  exited         \* what has ended the process, or "no"

agentVars == <<sent, agents>>
outputVars == <<rows, refused, json, diskFull>>
endVars == <<captureEnded, stopReceived, exited>>
vars == <<background, pc, ui, db, late, taken, agentVars, outputVars, endVars>>

Init ==
  /\ background \in BOOLEAN
  /\ pc = "create" /\ ui = (IF background THEN "none" ELSE "starting") /\ db = "nil"
  /\ late = FALSE /\ sent = 0 /\ taken = 0
  /\ rows = <<>> /\ refused = {} /\ json = <<>> /\ diskFull = FALSE
  /\ agents = "running" /\ captureEnded = FALSE /\ stopReceived = FALSE /\ exited = "no"

--------------------------------------------------------------------------------
(* startFlowCollector *)

At(p) == pc = p /\ exited = "no"
Goto(p) == pc' = p

\* Either file cannot be created: log.Fatalf.  The table cannot be: no database.
Create ==
  /\ At("create")
  /\ \/ Goto("listen") /\ db' \in {"open", "nil"} /\ UNCHANGED exited
     \/ exited' = "fatal" /\ UNCHANGED <<pc, db>>
  /\ UNCHANGED <<background, ui, late, taken, agentVars, outputVars, captureEnded, stopReceived>>

\* StartCollector; the port may be in use.
Listen ==
  /\ At("listen") /\ (Goto("loop") \/ Goto("returned"))
  /\ UNCHANGED <<background, ui, db, late, taken, agentVars, outputVars, endVars>>

\* A record taken once stopReceived is set is dropped.
Take ==
  /\ At("loop") /\ taken < sent
  /\ taken' = taken + 1
  /\ Goto(IF stopReceived THEN "returned" ELSE "insert")
  /\ UNCHANGED <<background, ui, db, late, agentVars, outputVars, endVars>>

\* Mutant: a record the database refuses is not written to the file either.
InsertOrSkip ==
  /\ At("insert")
  /\ \/ db = "open" /\ rows' = Append(rows, taken) /\ Goto("write") /\ UNCHANGED refused
     \/ db = "open" /\ refused' = refused \cup {taken} /\ Goto("size") /\ UNCHANGED rows
  /\ UNCHANGED <<background, ui, db, late, taken, json, diskFull, agentVars, endVars>>

\* queryFlowDB: an error is logged and the loop goes on; without a database it panics.
Insert ==
  /\ At("insert")
  /\ \/ /\ db = "open" /\ Goto("write")
        /\ \/ rows' = Append(rows, taken) /\ UNCHANGED refused
           \/ refused' = refused \cup {taken} /\ UNCHANGED rows
        /\ UNCHANGED exited
     \/ db = "nil" /\ exited' = "panic" /\ UNCHANGED <<pc, rows, refused>>
  /\ UNCHANGED <<background, ui, db, late, taken, json, diskFull, agentVars, captureEnded, stopReceived>>

\* f.Write; an error ends the loop without onLimitReached.
Write ==
  /\ At("write")
  /\ \/ Goto("size") /\ json' = Append(json, taken) /\ UNCHANGED diskFull
     \/ Goto("returned") /\ diskFull' = TRUE /\ UNCHANGED json
  /\ UNCHANGED <<background, ui, db, late, taken, rows, refused, agentVars, endVars>>

\* app.Stop does nothing before app.Run has made the screen.
StopUI == IF ui = "running" THEN "ended" ELSE ui

\* onLimitReached, the first time it is called: it returns true in the foreground only.
EndCapture ==
  /\ captureEnded' = TRUE /\ ui' = StopUI
  /\ Goto(IF background THEN "delete" ELSE "returned")

\* Mutant: the limit is compared with the records taken before this one.
CheckSizeBefore ==
  /\ At("size")
  /\ IF Len(json) - 1 > SizeLimit /\ ~captureEnded THEN EndCapture
     ELSE Goto("time") /\ UNCHANGED <<ui, captureEnded>>
  /\ UNCHANGED <<background, db, late, taken, agentVars, outputVars, stopReceived, exited>>

CheckSize ==
  /\ At("size")
  /\ IF Len(json) > SizeLimit /\ ~captureEnded THEN EndCapture
     ELSE Goto("time") /\ UNCHANGED <<ui, captureEnded>>
  /\ UNCHANGED <<background, db, late, taken, agentVars, outputVars, stopReceived, exited>>

\* Mutant: the background collector returns at its limit, like the other.
CheckTimeReturns ==
  /\ At("time")
  /\ IF late /\ ~captureEnded THEN captureEnded' = TRUE /\ ui' = StopUI /\ Goto("returned")
     ELSE Goto("loop") /\ UNCHANGED <<ui, captureEnded>>
  /\ UNCHANGED <<background, db, late, taken, agentVars, outputVars, stopReceived, exited>>

CheckTime ==
  /\ At("time")
  /\ IF late /\ ~captureEnded THEN EndCapture
     ELSE Goto("loop") /\ UNCHANGED <<ui, captureEnded>>
  /\ UNCHANGED <<background, db, late, taken, agentVars, outputVars, stopReceived, exited>>

\* The rest of onLimitReached in the background: DeleteDaemonSet, once; a failure is
\* logged.  Going on at "time" is going on after either limit, as the capture has ended.
DeleteAgents ==
  /\ At("delete") /\ Goto("time")
  /\ agents' \in {"deleted", "left"}
  /\ UNCHANGED <<background, ui, db, late, taken, sent, outputVars, endVars>>

Collector == Create \/ Listen \/ Take \/ Insert \/ Write \/ CheckSize \/ CheckTime \/ DeleteAgents

--------------------------------------------------------------------------------
(* The UI, the end of the process, and the world *)

\* app.Run: the screen comes up, or errAdvancedDisplay is set and it returns.
StartUI ==
  /\ exited = "no" /\ ui = "starting" /\ ui' \in {"running", "ended"}
  /\ UNCHANGED <<background, pc, db, late, taken, agentVars, outputVars, endVars>>

UserQuits ==
  /\ exited = "no" /\ ui = "running" /\ ui' = "ended"
  /\ UNCHANGED <<background, pc, db, late, taken, agentVars, outputVars, endVars>>

SigTerm ==
  /\ exited = "no" /\ ~stopReceived /\ stopReceived' = TRUE
  /\ UNCHANGED <<background, pc, ui, db, late, taken, agentVars, outputVars, captureEnded, exited>>

\* There is no packet capture to stop or flush: os.Exit.
SignalExit ==
  /\ exited = "no" /\ stopReceived /\ exited' = "signal"
  /\ UNCHANGED <<background, pc, ui, db, late, taken, agentVars, outputVars, captureEnded, stopReceived>>

\* Mutant: the collector's return does not end the process in the foreground.
MainWaits ==
  /\ exited = "no" /\ background /\ pc = "returned" /\ exited' = "main"
  /\ UNCHANGED <<background, pc, ui, db, late, taken, agentVars, outputVars, captureEnded, stopReceived>>

\* runFlowCapture returns, wherever the collector goroutine is.
MainReturns ==
  /\ exited = "no" /\ (IF background THEN pc = "returned" ELSE ui = "ended")
  /\ exited' = "main"
  /\ UNCHANGED <<background, pc, ui, db, late, taken, agentVars, outputVars, captureEnded, stopReceived>>

\* The server is never closed: it takes records until the process ends.
Send ==
  /\ exited = "no" /\ pc \notin {"create", "listen"} /\ agents # "deleted"
  /\ sent - taken < ChanSize /\ sent < MaxFlows
  /\ sent' = sent + 1
  /\ UNCHANGED <<background, pc, ui, db, late, taken, agents, outputVars, endVars>>

TimePasses ==
  /\ exited = "no" /\ ~late /\ late' = TRUE
  /\ UNCHANGED <<background, pc, ui, db, taken, agentVars, outputVars, endVars>>

Next ==
  \/ Collector \/ StartUI \/ UserQuits \/ SigTerm \/ SignalExit \/ MainReturns
  \/ Send \/ TimePasses

Spec == Init /\ [][Next]_vars

\* The goroutines run.  Nothing makes the agents, the user or a SIGTERM act.
FairSpec ==
  Spec /\ WF_vars(Collector) /\ WF_vars(StartUI) /\ WF_vars(MainReturns) /\ WF_vars(SignalExit)

--------------------------------------------------------------------------------
(* Properties *)

Places == {"create", "listen", "loop", "insert", "write", "size", "time", "delete", "returned"}

TypeOK ==
  /\ background \in BOOLEAN /\ pc \in Places
  /\ ui \in {"none", "starting", "running", "ended"} /\ db \in {"open", "nil"}
  /\ late \in BOOLEAN /\ sent \in Nat /\ taken \in Nat
  /\ rows \in Seq(Nat) /\ refused \subseteq Nat /\ json \in Seq(Nat) /\ diskFull \in BOOLEAN
  /\ agents \in {"running", "deleted", "left"}
  /\ captureEnded \in BOOLEAN /\ stopReceived \in BOOLEAN
  /\ exited \in {"no", "main", "signal", "fatal", "panic"}

Inserted == {rows[i] : i \in DOMAIN rows}

\* The file holds what was acknowledged from the first record on, in order, with no
\* gap; and so does the table, but for the records it refused.  At any moment,
\* that of an exit included, they differ by at most the record in hand.
OutputsAgree ==
  /\ \A i \in DOMAIN json : json[i] = i
  /\ \A i, j \in DOMAIN rows : i < j => rows[i] < rows[j]
  /\ Inserted \cap refused = {}
  /\ \/ Inserted \cup refused = 1..Len(json)
     \/ Inserted \cup refused = 1..(Len(json) + 1) /\ pc \in {"write", "returned"}

\* A capture with a UI keeps to its limits: the file has at most the record that passed
\* maxBytes more than that, and nothing is written once the capture has ended.
ForegroundStopsAtLimit ==
  ~background => Len(json) <= SizeLimit + 1 /\ (captureEnded => pc = "returned")

\* A record that comes after maxTime ends the capture: the process ends by itself, or in
\* the background gets to delete the agents.  It does not if writing fails, or if the UI
\* was not up yet: then app.Stop does nothing.
LateRecordEndsCapture ==
  (late /\ pc = "loop" /\ taken < sent /\ ui # "starting")
    ~> (exited # "no" \/ diskFull \/ agents # "running")

\* In the background a capture that has reached its limit waits for "netobserv copy": the
\* process does not end by itself, and what the agents have had acknowledged is written,
\* past the limits too, unless a SIGTERM comes or the outputs cannot be written.
AcknowledgedIsWritten ==
  \A n \in 1..MaxFlows :
    (background /\ sent >= n /\ pc = "loop")
      ~> (Len(json) >= n \/ stopReceived \/ diskFull \/ exited = "panic")
================================================================================
