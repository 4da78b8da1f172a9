------------------------------ MODULE MetricGraphs -----------------------------
(***************************************************************************)
(* A capture of metrics (cmd/metric_capture.go, cmd/metric_display.go):    *)
(* the collector's ticks, one goroutine per graph and query, and the user  *)
(* interface, which empties and refills the slice graphs while these run.  *)
(* There is no lock: every read and write of graphs is a step of its own,  *)
(* except that updateData, the appends of updateGraphs, and getGraphs are   *)
(* one step each.  Expressions and time ranges are model values.           *)
(***************************************************************************)
EXTENDS Integers, Sequences, FiniteSets, Bags

CONSTANTS Panels,      \* panels.all: for each panel, the expressions it shows
          Durations,   \* the time ranges
          MaxSelected, \* bound: custom panels
          MaxWorkers,  \* bound: queries under way
          FollowRaces  \* bound: go on once a write has come too late (see raced)

Expressions == UNION {{Panels[p][i] : i \in DOMAIN Panels[p]} : p \in DOMAIN Panels}

ASSUME MetricAssumption ==
  /\ Panels \in Seq(Seq(Expressions)) /\ Panels # <<>>
  /\ \A p \in DOMAIN Panels : Panels[p] # <<>>
  /\ MaxSelected \in Nat /\ MaxWorkers \in Nat /\ FollowRaces \in BOOLEAN

VARIABLES
  background,
  graphs,      \* [title: of the plot, promQL: asked, data: the query the data answers]
  current,     \* the panel displayed
  selected,    \* selectedPanels, which replace it
  duration,    \* selectedDuration
  paused,
  tasks,       \* what the event handler of the UI has left to do
  filling,     \* updateGraphs has emptied graphs and appends to it
  workers,     \* the goroutines of queryGraph: a bag of records
  collector,   \* "start", "loop" or "returned"; the client is saved after "start"
  late,        \* more than maxTime has passed
  captureEnded,
  exited,      \* what has ended the process, or "no"
  raced        \* history: a worker wrote to graphs that were emptied after its check

uiVars == <<current, selected, duration, paused, tasks, filling>>
endVars == <<captureEnded, exited>>
vars == <<background, graphs, uiVars, workers, collector, late, endVars, raced>>

None == [promQL |-> "none", range |-> "none"]
Running == exited = "no" /\ (raced => FollowRaces)

\* What updateGraphs shows.
Shown == IF selected # <<>> THEN selected ELSE Panels[current]

\* The process ends, and with it what it has in memory.
Ends(how) ==
  /\ Running /\ exited' = how
  /\ graphs' = <<>> /\ workers' = EmptyBag /\ tasks' = <<>> /\ filling' = FALSE
  /\ UNCHANGED <<background, current, selected, duration, paused, collector, late, captureEnded, raced>>

EmptyGraph(q) == [title |-> q, promQL |-> q, data |-> None]

Init ==
  /\ background \in BOOLEAN
  /\ current = 1 /\ selected = <<>> /\ duration \in Durations
  /\ graphs = [i \in DOMAIN Panels[1] |-> EmptyGraph(Panels[1][i])]
  /\ paused = FALSE /\ tasks = <<>> /\ filling = FALSE
  /\ workers = EmptyBag /\ collector = "start" /\ late = FALSE
  /\ captureEnded = FALSE /\ exited = "no" /\ raced = FALSE

--------------------------------------------------------------------------------
(* The queries *)

NewWorker(i) == [index |-> i, pc |-> "read", query |-> None, stale |-> FALSE]

\* queryGraphs: a goroutine for each graph there is now (within the bound).
Launched(gs) ==
  IF BagCardinality(workers) + Len(gs) > MaxWorkers THEN workers
  ELSE workers (+) SetToBag({NewWorker(i) : i \in DOMAIN gs})

Becomes(w, ws) == workers' = (workers (-) SetToBag({w})) (+) SetToBag(ws)

\* graphs[index] panics when the slice is shorter by now.
OutOfRange(w) == w.index > Len(graphs)
Panic == Ends("panic")

WorkerOnly == UNCHANGED <<background, graphs, uiVars, collector, late, endVars, raced>>

\* queryGraph and queryProm, until the request is sent.
Read(w) ==
  /\ w.pc = "read"
  /\ IF OutOfRange(w) THEN Panic
     ELSE /\ Becomes(w, {[w EXCEPT !.pc = "asked",
                                   !.query = [promQL |-> graphs[w.index].promQL, range |-> duration]]})
          /\ WorkerOnly

\* Mutant: the answer is not compared with the graph it is for.
AnyGraph(w) == ~paused /\ ~OutOfRange(w)

\* Mutant: off by one, the last graph takes no answer.
NotLast(w) == ~paused /\ w.index < Len(graphs) /\ graphs[w.index].promQL = w.query.promQL

\* Mutant: answers are taken while paused.
EvenPaused(w) == ~OutOfRange(w) /\ graphs[w.index].promQL = w.query.promQL

\* appendMetrics: "skip if paused ... or when graph array changed in between".
Accepts(w) ==
  ~paused /\ ~OutOfRange(w) /\ graphs[w.index].promQL = w.query.promQL

Answer(w) ==
  /\ w.pc = "asked"
  /\ Becomes(w, IF Accepts(w) THEN {[w EXCEPT !.pc = "query"]} ELSE {})
  /\ WorkerOnly

\* An error comes without a matrix, which appendMetrics skips.
Fail(w) == w.pc = "asked" /\ Becomes(w, {}) /\ WorkerOnly

Store(graph, w) ==
  /\ graphs' = [graphs EXCEPT ![w.index] = graph]
  /\ raced' = (raced \/ w.stale)
  /\ UNCHANGED <<background, uiVars, collector, late, endVars>>

\* graphs[index].Query = *query
WriteQuery(w) ==
  /\ w.pc = "query"
  /\ IF OutOfRange(w) THEN Panic
     ELSE /\ Store([graphs[w.index] EXCEPT !.promQL = w.query.promQL], w)
          /\ Becomes(w, {[w EXCEPT !.pc = "data"]})

\* updateData
WriteData(w) ==
  /\ w.pc = "data"
  /\ IF OutOfRange(w) THEN Panic
     ELSE Store([graphs[w.index] EXCEPT !.data = w.query], w) /\ Becomes(w, {})

Work(i) ==
  /\ Running
  /\ \E w \in BagToSet(workers) :
        w.index = i /\ (Read(w) \/ Answer(w) \/ Fail(w) \/ WriteQuery(w) \/ WriteData(w))

--------------------------------------------------------------------------------
(* startMetricCollector *)

\* newClient; an error is fatal.
Connect ==
  /\ collector = "start"
  /\ \/ /\ Running /\ collector' = "loop"
        /\ UNCHANGED <<background, graphs, uiVars, workers, late, endVars, raced>>
     \/ Ends("fatal")

\* Mutant: a paused collector skips its tick, the limit with it.
TickUnlessPaused ==
  /\ Running /\ collector = "loop" /\ ~paused
  /\ workers' = IF background THEN workers ELSE Launched(graphs)
  /\ captureEnded' = (captureEnded \/ late)
  /\ collector' = (IF late /\ ~captureEnded /\ ~background THEN "returned" ELSE "loop")
  /\ UNCHANGED <<background, graphs, uiVars, late, exited, raced>>

\* In the background the queries are run here, one after the other, and only logged.
\* onLimitReached, the first time it is called, returns true in the foreground.
Tick ==
  /\ Running /\ collector = "loop"
  /\ workers' = IF background THEN workers ELSE Launched(graphs)
  /\ captureEnded' = (captureEnded \/ late)
  /\ collector' = (IF late /\ ~captureEnded /\ ~background THEN "returned" ELSE "loop")
  /\ UNCHANGED <<background, graphs, uiVars, late, exited, raced>>

--------------------------------------------------------------------------------
(* The user interface *)

\* updateScreen, as it calls getMetricTop and getGraphs: an update that makes no query
\* (getGraphs ends it, and is not repeated here), or when paused getGraphs alone.
Screen(stopped) == IF stopped THEN <<"plot">> ELSE <<"update">>

Idle == Running /\ ~background /\ ~captureEnded /\ tasks = <<>>
Handle(ts) ==
  /\ tasks' = ts
  /\ UNCHANGED <<background, graphs, filling, workers, collector, late, endVars, raced>>

Next1 == (current % Len(Panels)) + 1
Prev1 == ((current + Len(Panels) - 2) % Len(Panels)) + 1

CyclePanel ==
  /\ Idle /\ selected = <<>> /\ current' \in {Next1, Prev1}
  /\ Handle(<<"query">> \o Screen(paused)) /\ UNCHANGED <<selected, duration, paused>>

\* defaultPanelsIndex is the first panel.
ResetPanels ==
  /\ Idle /\ selected # <<>> /\ selected' = <<>> /\ current' = 1
  /\ Handle(<<"query">> \o Screen(paused)) /\ UNCHANGED <<duration, paused>>

\* The modal: adding a panel, removing one (which updates nothing), "Reset", "Save".
AddPanel ==
  /\ Idle /\ Len(selected) < MaxSelected
  /\ \E q \in Expressions \ {selected[i] : i \in DOMAIN selected} : selected' = Append(selected, q)
  /\ Handle(<<"query">>) /\ UNCHANGED <<current, duration, paused>>
RemovePanel ==
  /\ Idle
  /\ \E i \in DOMAIN selected :
        selected' = SubSeq(selected, 1, i - 1) \o SubSeq(selected, i + 1, Len(selected))
  /\ Handle(<<>>) /\ UNCHANGED <<current, duration, paused>>
ResetSelection ==
  /\ Idle /\ selected' = <<>>
  /\ Handle(<<"update">>) /\ UNCHANGED <<current, duration, paused>>
SaveSelection ==
  /\ Idle /\ Handle(<<"query">> \o Screen(paused)) /\ UNCHANGED <<current, selected, duration, paused>>

ChangeDuration ==
  /\ Idle /\ duration' \in Durations
  /\ Handle(<<"query">>) /\ UNCHANGED <<current, selected, paused>>

\* The + and - of the count, and the panels button.
RefreshScreen ==
  /\ Idle /\ Handle(Screen(paused)) /\ UNCHANGED <<current, selected, duration, paused>>

TogglePause ==
  /\ Idle /\ paused' = ~paused
  /\ Handle(Screen(~paused)) /\ UNCHANGED <<current, selected, duration>>

TaskOnly == UNCHANGED <<background, current, selected, duration, paused, collector, late, endVars, raced>>

\* The history of a worker: it has passed its check, and graphs are emptied now.
Marked(w) == [w EXCEPT !.stale = w.pc \in {"query", "data"}]

\* updateGraphs: graphs = []Graph{}
Clear ==
  /\ Running /\ tasks # <<>> /\ Head(tasks) # "plot" /\ ~filling
  /\ graphs' = <<>> /\ filling' = TRUE
  /\ workers' = BagOfAll(Marked, workers)
  /\ UNCHANGED tasks /\ TaskOnly

\* The appends, getGraphs, and go queryGraphs once there is a client.
Fill ==
  /\ Running /\ filling
  /\ graphs' = [i \in DOMAIN Shown |-> EmptyGraph(Shown[i])]
  /\ workers' = IF Head(tasks) = "query" /\ collector # "start" THEN Launched(graphs') ELSE workers
  /\ filling' = FALSE /\ tasks' = Tail(tasks)
  /\ TaskOnly

\* getGraphs: the plots are made anew, with the titles of the queries there are.
Plot ==
  /\ Running /\ tasks # <<>> /\ Head(tasks) = "plot"
  /\ graphs' = [i \in DOMAIN graphs |-> [graphs[i] EXCEPT !.title = graphs[i].promQL]] /\ tasks' = Tail(tasks)
  /\ UNCHANGED <<filling, workers>> /\ TaskOnly

--------------------------------------------------------------------------------
(* The end *)

TimePasses ==
  /\ Running /\ ~late /\ late' = TRUE
  /\ UNCHANGED <<background, graphs, uiVars, workers, collector, endVars, raced>>

\* app.Run returns after app.Stop; in the background the command returns with the
\* collector, which it does not after its limit.
MainReturns == ~background /\ captureEnded /\ Ends("returned")
UserQuits == ~background /\ Ends("quit")

\* There is no capture file to flush: os.Exit, wherever the rest is.
SigTerm == Ends("quit")

User ==
  \/ CyclePanel \/ ResetPanels \/ AddPanel \/ RemovePanel \/ ResetSelection \/ SaveSelection
  \/ ChangeDuration \/ RefreshScreen \/ TogglePause
Interface == Clear \/ Fill \/ Plot
Collector == Connect \/ Tick

Next ==
  \/ \E i \in 1..MaxWorkers : Work(i)
  \/ Collector \/ User \/ Interface \/ TimePasses \/ SigTerm
  \/ MainReturns \/ UserQuits

Spec == Init /\ [][Next]_vars

\* The goroutines run, and the ticker ticks.  Nothing makes the user or Thanos act.
FairSpec ==
  /\ Spec /\ WF_vars(Collector) /\ WF_vars(Interface)
  /\ WF_vars(MainReturns)
  /\ \A i \in 1..MaxWorkers : WF_vars(Work(i))

--------------------------------------------------------------------------------
(* Properties *)

Asked == [promQL : Expressions, range : Durations]
Graph == [title : Expressions, promQL : Expressions, data : Asked \cup {None}]

TypeOK ==
  /\ background \in BOOLEAN /\ graphs \in Seq(Graph)
  /\ current \in DOMAIN Panels /\ selected \in Seq(Expressions) /\ duration \in Durations
  /\ paused \in BOOLEAN /\ filling \in BOOLEAN /\ tasks \in Seq({"query", "update", "plot"})
  /\ IsABag(workers)
  /\ BagToSet(workers) \subseteq
       [index : Nat, pc : {"read", "asked", "query", "data"},
        query : Asked \cup {None}, stale : BOOLEAN]
  /\ collector \in {"start", "loop", "returned"} /\ late \in BOOLEAN
  /\ captureEnded \in BOOLEAN
  /\ exited \in {"no", "returned", "quit", "fatal", "panic"} /\ raced \in BOOLEAN

Own(g) == g.promQL = g.title /\ (g.data = None \/ g.data.promQL = g.title)

\* The check of appendMetrics does what it is there for, but for the window between it
\* and the writes: as long as no write came after the slice was emptied in that window,
\* every plot has the query and the data of its title, whatever the order of the answers.
AnswersFindTheirGraph == raced \/ \A i \in DOMAIN graphs : Own(graphs[i])

\* "Skip if ... graph array changed in between" (metric_display.go:379): an answer is
\* not written over a graph of another query.
StaleAnswersSkipped == \A i \in DOMAIN graphs : Own(graphs[i])

\* A paused display comes to a standstill: once the answers taken before are written, no
\* answer changes a graph, though the ticks go on and the user may still empty them all.
Untouched == \A i \in DOMAIN graphs \cap DOMAIN graphs' : graphs'[i].data = graphs[i].data
PausedStandsStill == <>[]paused => <>[][Untouched]_vars

Quiet == Running /\ ~raced /\ ~paused /\ tasks = <<>>
Answered(i) == \E w \in BagToSet(workers) : w.index = i /\ Answer(w)
Settled(i) ==
  i \in DOMAIN graphs => graphs[i].data = [promQL |-> graphs[i].promQL, range |-> duration]

\* When the user leaves the display alone, and Thanos keeps answering the query of a
\* graph, that graph ends up with the answer for its expression and the time range
\* chosen last, and keeps it: answers for an earlier range, and those the last redraw
\* threw away, do not last.
GraphsSettle == \A i \in 1..MaxWorkers : (<>[]Quiet /\ []<><<Answered(i)>>_vars) => <>[]Settled(i)

\* The limit in time is tested on every tick, paused or not, answers or not: the
\* capture ends by itself.
EndsInTime == (late /\ collector = "loop") ~> (captureEnded \/ exited # "no" \/ (raced /\ ~FollowRaces))
================================================================================
