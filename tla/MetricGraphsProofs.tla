--------------------------- MODULE MetricGraphsProofs ----------------------------
(* Answers find their graph, for any panels, time ranges and number of queries. *)
EXTENDS MetricGraphs, TLAPS

Places == {"read", "asked", "query", "data"}
Worker == [index : Nat \ {0}, pc : Places, query : Asked \cup {None}, stale : BOOLEAN]

Typed ==
  /\ graphs \in Seq(Graph) /\ current \in DOMAIN Panels
  /\ selected \in Seq(Expressions) /\ duration \in Durations
  /\ \A w \in BagToSet(workers) : w \in Worker /\ (w.pc # "read" => w.query \in Asked)

\* What a worker relies on between its check and its writes.
Placed(w) ==
  (w.pc \in {"query", "data"} /\ w.stale = FALSE) =>
    w.index \in DOMAIN graphs /\ graphs[w.index].title = w.query.promQL

InPlace ==
  /\ \A i \in DOMAIN graphs : Own(graphs[i])
  /\ \A w \in BagToSet(workers) : Placed(w)

Inv == Typed /\ (filling => graphs = <<>>) /\ (raced \/ InPlace)

--------------------------------------------------------------------------------
(* Bags: who is in them *)

\* A bag with the elements of a set put in.
LEMMA BagAdd == ASSUME NEW B, NEW S PROVE BagToSet(B (+) SetToBag(S)) = BagToSet(B) \cup S
  BY DEF BagToSet, SetToBag, (+)

\* A bag with the elements of a set taken out.
LEMMA BagTake == ASSUME NEW B, NEW S PROVE BagToSet(B (-) SetToBag(S)) \subseteq BagToSet(B)
  BY DEF BagToSet, SetToBag, (-)

\* The bag of the marked workers.
LEMMA BagMark == ASSUME NEW B PROVE BagToSet(BagOfAll(Marked, B)) = {Marked(w) : w \in BagToSet(B)}
  BY DEF BagToSet, BagOfAll

\* The empty bag.
LEMMA BagEmpty == BagToSet(EmptyBag) = {}
  BY DEF BagToSet, EmptyBag, SetToBag

\* A step of one worker leaves the others and what it becomes.
LEMMA BecomesIn ==
  ASSUME NEW w, NEW ws, Becomes(w, ws)
  PROVE  BagToSet(workers)' \subseteq BagToSet(workers) \cup ws
<1>1. BagToSet(workers)' = BagToSet((workers (-) SetToBag({w})) (+) SetToBag(ws))
  BY DEF Becomes
<1>2. QED
  BY <1>1, BagAdd, BagTake

\* New workers have nothing placed yet.
LEMMA LaunchedIn ==
  ASSUME NEW gs \in Seq(Graph), workers' = Launched(gs) \/ workers' = workers
  PROVE  \A w \in BagToSet(workers)' :
            w \in BagToSet(workers) \/ (w \in Worker /\ w.pc = "read")
<1>1. BagToSet(workers)' \subseteq BagToSet(workers) \cup {NewWorker(i) : i \in DOMAIN gs}
  <2>1. CASE workers' = workers
    BY <2>1
  <2>2. CASE workers' = workers (+) SetToBag({NewWorker(i) : i \in DOMAIN gs})
    BY <2>2, BagAdd
  <2>3. QED
    BY <2>1, <2>2 DEF Launched
<1>2. \A i \in DOMAIN gs : NewWorker(i) \in Worker /\ NewWorker(i).pc = "read"
  <2> SUFFICES ASSUME NEW i \in DOMAIN gs PROVE NewWorker(i) \in Worker /\ NewWorker(i).pc = "read"
    OBVIOUS
  <2>1. i \in Nat \ {0}
    OBVIOUS
  <2>2. QED
    BY <2>1 DEF NewWorker, Worker, Places
<1>3. QED
  BY <1>1, <1>2

--------------------------------------------------------------------------------
(* The steps *)

\* Graphs made of a sequence of expressions are their own.
LEMMA EmptyGraphs ==
  ASSUME NEW s \in Seq(Expressions)
  PROVE  LET gs == [i \in DOMAIN s |-> EmptyGraph(s[i])] IN
         gs \in Seq(Graph) /\ \A i \in DOMAIN gs : Own(gs[i])
<1>1. \A i \in DOMAIN s : EmptyGraph(s[i]) \in Graph /\ Own(EmptyGraph(s[i]))
  BY DEF EmptyGraph, Graph, Own
<1>2. [i \in 1..Len(s) |-> EmptyGraph(s[i])] \in Seq(Graph)
  BY <1>1
<1>3. QED
  BY <1>1, <1>2

\* What the panels show is a sequence of expressions.
LEMMA ShownTyped == ASSUME Typed PROVE Shown \in Seq(Expressions)
  BY MetricAssumption DEF Typed, Shown

\* The start.
LEMMA InitInv == Init => Inv
<1> SUFFICES ASSUME Init PROVE Inv
  OBVIOUS
<1>1. 1 \in DOMAIN Panels /\ Panels[1] \in Seq(Expressions)
  BY MetricAssumption
<1>2. graphs \in Seq(Graph) /\ \A i \in DOMAIN graphs : Own(graphs[i])
  BY <1>1, EmptyGraphs DEF Init
<1>3. BagToSet(workers) = {}
  BY BagEmpty DEF Init
<1>4. Typed
  BY <1>1, <1>2, <1>3 DEF Init, Typed
<1>5. QED
  BY <1>2, <1>3, <1>4 DEF Init, Inv, InPlace

\* The end of the process leaves nothing to misplace.
LEMMA EndsInv == ASSUME Inv, NEW how, Ends(how) PROVE Inv'
<1>1. graphs' = <<>> /\ BagToSet(workers)' = {} /\ UNCHANGED <<current, selected, duration>>
  BY BagEmpty DEF Ends
<1>2. Typed'
  BY <1>1 DEF Inv, Typed
<1>3. InPlace'
  BY <1>1 DEF InPlace
<1>4. QED
  BY <1>1, <1>2, <1>3 DEF Inv

\* Steps that leave the graphs, and add workers that have read nothing.
LEMMA QuietInv ==
  ASSUME Inv, UNCHANGED <<graphs, filling, raced>>, current' \in DOMAIN Panels,
         selected' \in Seq(Expressions), duration' \in Durations,
         \A w \in BagToSet(workers)' : w \in BagToSet(workers) \/ (w \in Worker /\ w.pc = "read")
  PROVE  Inv'
<1>1. Typed'
  BY DEF Inv, Typed
<1>2. InPlace => InPlace'
  <2> SUFFICES ASSUME InPlace PROVE InPlace'
    OBVIOUS
  <2>1. \A w \in BagToSet(workers)' : Placed(w)'
    BY DEF InPlace, Placed
  <2>2. QED
    BY <2>1 DEF InPlace
<1>3. QED
  BY <1>1, <1>2 DEF Inv

\* A worker that does not write.
LEMMA ThinkInv ==
  ASSUME Inv, NEW w \in BagToSet(workers), Read(w) \/ Answer(w) \/ Fail(w)
  PROVE  Inv'
<1>0. w \in Worker /\ (w.pc # "read" => w.query \in Asked)
  BY DEF Inv, Typed
<1>1. CASE Ends("panic")
  BY <1>1, EndsInv
<1>2. ASSUME NEW v \in Worker, v.pc # "read" => v.query \in Asked, Placed(v),
             Becomes(w, {v}) \/ Becomes(w, {}), WorkerOnly
      PROVE  Inv'
  <2>1. \A x \in BagToSet(workers)' : x \in BagToSet(workers) \/ x = v
    BY <1>2, BecomesIn
  <2>2. UNCHANGED <<graphs, filling, raced, current, selected, duration>>
    BY <1>2 DEF WorkerOnly, uiVars
  <2>3. Typed'
    BY <1>2, <2>1, <2>2 DEF Inv, Typed
  <2>4. InPlace => InPlace'
    <3> SUFFICES ASSUME InPlace PROVE InPlace'
      OBVIOUS
    <3>1. \A x \in BagToSet(workers)' : Placed(x)'
      BY <1>2, <2>1, <2>2 DEF InPlace, Placed
    <3>2. QED
      BY <2>2, <3>1 DEF InPlace
  <2>5. QED
    BY <2>2, <2>3, <2>4 DEF Inv
<1>3. CASE Fail(w)
  <2>1. Becomes(w, {}) /\ WorkerOnly
    BY <1>3 DEF Fail
  <2>2. \A x \in BagToSet(workers)' : x \in BagToSet(workers)
    BY <2>1, BecomesIn
  <2>3. UNCHANGED <<graphs, filling, raced, current, selected, duration>>
    BY <2>1 DEF WorkerOnly, uiVars
  <2>4. QED
    BY <2>2, <2>3, QuietInv DEF Inv, Typed
<1>4. CASE Read(w) /\ ~Ends("panic")
  <2> DEFINE v == [w EXCEPT !.pc = "asked",
                            !.query = [promQL |-> graphs[w.index].promQL, range |-> duration]]
  <2>1. Becomes(w, {v}) /\ WorkerOnly /\ ~OutOfRange(w)
    BY <1>4 DEF Read, Panic
  <2>2. graphs[w.index] \in Graph
    BY <1>0, <2>1 DEF OutOfRange, Inv, Typed, Worker
  <2>3. v \in Worker /\ v.pc = "asked" /\ v.query \in Asked
    BY <1>0, <2>2 DEF Inv, Typed, Worker, Places, Asked, Graph
  <2>4. QED
    BY <1>2, <2>1, <2>3 DEF Placed
<1>5. CASE Answer(w)
  <2> DEFINE v == [w EXCEPT !.pc = "query"]
  <2>1. CASE Becomes(w, {}) /\ WorkerOnly
    <3>1. \A x \in BagToSet(workers)' : x \in BagToSet(workers)
      BY <2>1, BecomesIn
    <3>2. UNCHANGED <<graphs, filling, raced, current, selected, duration>>
      BY <2>1 DEF WorkerOnly, uiVars
    <3>3. QED
      BY <3>1, <3>2, QuietInv DEF Inv, Typed
  <2>2. CASE Accepts(w) /\ Becomes(w, {v}) /\ WorkerOnly
    <3>1. w.index \in DOMAIN graphs /\ graphs[w.index].promQL = w.query.promQL
      BY <1>0, <2>2 DEF Accepts, OutOfRange, Inv, Typed, Worker
    <3>2. v \in Worker /\ v.query = w.query /\ v.index = w.index /\ v.query \in Asked
      BY <1>0, <1>5 DEF Answer, Worker, Places
    <3>3. \A x \in BagToSet(workers)' : x \in BagToSet(workers) \/ x = v
      BY <2>2, BecomesIn
    <3>4. UNCHANGED <<graphs, filling, raced, current, selected, duration>>
      BY <2>2 DEF WorkerOnly, uiVars
    <3>5. Typed'
      BY <3>2, <3>3, <3>4 DEF Inv, Typed
    <3>6. InPlace => InPlace'
      <4> SUFFICES ASSUME InPlace PROVE InPlace'
        OBVIOUS
      <4>1. Placed(v)'
        BY <3>1, <3>2, <3>4 DEF InPlace, Placed, Own
      <4>2. \A x \in BagToSet(workers)' : Placed(x)'
        BY <3>3, <3>4, <4>1 DEF InPlace, Placed
      <4>3. QED
        BY <3>4, <4>2 DEF InPlace
    <3>7. QED
      BY <3>4, <3>5, <3>6 DEF Inv
  <2>3. QED
    BY <1>5, <2>1, <2>2 DEF Answer
<1>6. QED
  BY <1>1, <1>3, <1>4, <1>5

\* A worker that writes: to the graph of its title, or late, which raced records.
LEMMA StoreInv ==
  ASSUME Inv, NEW w \in BagToSet(workers), w.pc \in {"query", "data"}, ~OutOfRange(w),
         NEW g \in Graph, g.title = graphs[w.index].title, Store(g, w),
         w.stale = FALSE /\ ~raced => Own(g),
         \A x \in BagToSet(workers)' :
            x \in BagToSet(workers) \/ (/\ x \in Worker /\ x.query \in Asked /\ x.index = w.index
                                        /\ x.query = w.query /\ x.stale = w.stale)
  PROVE  Inv'
<1>0. w \in Worker /\ w.query \in Asked /\ graphs \in Seq(Graph)
  BY DEF Inv, Typed
<1>1. w.index \in 1..Len(graphs) /\ DOMAIN graphs = 1..Len(graphs)
  BY <1>0 DEF OutOfRange, Worker
<1>2. /\ UNCHANGED <<filling, current, selected, duration>>
      /\ graphs' = [graphs EXCEPT ![w.index] = g] /\ raced' = (raced \/ w.stale)
  BY DEF Store, uiVars
<1>3. /\ graphs' \in Seq(Graph) /\ DOMAIN graphs' = DOMAIN graphs
      /\ \A i \in DOMAIN graphs : graphs'[i] = IF i = w.index THEN g ELSE graphs[i]
  BY <1>0, <1>1, <1>2
<1>4. Typed'
  BY <1>2, <1>3 DEF Inv, Typed
<1>5. filling' => graphs' = <<>>
  BY <1>1, <1>2 DEF Inv
<1>6. ASSUME ~raced, w.stale = FALSE PROVE InPlace'
  <2>1. InPlace
    BY <1>6 DEF Inv
  <2>2. \A i \in DOMAIN graphs : graphs'[i].title = graphs[i].title
    BY <1>3
  <2>3. \A i \in DOMAIN graphs' : Own(graphs'[i])
    BY <2>1, <1>3, <1>6 DEF InPlace
  <2>4. \A x \in BagToSet(workers) : Placed(x)'
    BY <2>1, <2>2, <1>3 DEF InPlace, Placed
  <2>5. \A x \in BagToSet(workers)' : Placed(x)'
    BY <2>4, <1>6 DEF Placed
  <2>6. QED
    BY <2>3, <2>5 DEF InPlace
<1>7. raced' \/ InPlace'
  <2>1. w.stale \in BOOLEAN
    BY <1>0 DEF Worker
  <2>2. CASE raced \/ w.stale
    BY <2>2, <1>2, Zenon
  <2>3. CASE ~(raced \/ w.stale)
    BY <2>1, <2>3, <1>6, Zenon
  <2>4. QED
    BY <2>2, <2>3, Zenon
<1>8. QED
  BY <1>4, <1>5, <1>7, Zenon DEF Inv

\* graphs[index].Query = *query keeps a graph whose title is that of the query its own.
LEMMA WriteQueryInv ==
  ASSUME Inv, NEW w \in BagToSet(workers), WriteQuery(w), ~OutOfRange(w)
  PROVE  Inv'
<1> DEFINE g == [graphs[w.index] EXCEPT !.promQL = w.query.promQL]
           v == [w EXCEPT !.pc = "data"]
<1>0. w \in Worker /\ graphs \in Seq(Graph)
  BY DEF Inv, Typed
<1>1. w.pc = "query" /\ w.query \in Asked /\ Store(g, w) /\ Becomes(w, {v})
  BY DEF WriteQuery, Inv, Typed
<1>2. w.index \in DOMAIN graphs /\ graphs[w.index] \in Graph
  BY <1>0 DEF OutOfRange, Worker
<1>3. g \in Graph /\ g.title = graphs[w.index].title
  BY <1>1, <1>2 DEF Graph, Asked
<1>4. w.stale = FALSE /\ ~raced => Own(g)
  BY <1>1, <1>2 DEF Inv, InPlace, Placed, Own, Graph
<1>5. v \in Worker /\ v.query = w.query /\ v.index = w.index /\ v.stale = w.stale
  BY <1>0 DEF Worker, Places
<1>6. \A x \in BagToSet(workers)' : x \in BagToSet(workers) \/ x = v
  BY <1>1, BecomesIn
<1> HIDE DEF g, v
<1>7. \A x \in BagToSet(workers)' :
         x \in BagToSet(workers) \/ (/\ x \in Worker /\ x.query \in Asked /\ x.index = w.index
                                     /\ x.query = w.query /\ x.stale = w.stale)
  BY <1>1, <1>5, <1>6
<1>8. w.pc \in {"query", "data"}
  BY <1>1
<1>9. QED
  BY <1>1, <1>3, <1>4, <1>7, <1>8, StoreInv, Zenon

\* updateData gives a graph the data of its title.
LEMMA WriteDataInv ==
  ASSUME Inv, NEW w \in BagToSet(workers), WriteData(w), ~OutOfRange(w)
  PROVE  Inv'
<1> DEFINE g == [graphs[w.index] EXCEPT !.data = w.query]
<1>0. w \in Worker /\ graphs \in Seq(Graph)
  BY DEF Inv, Typed
<1>1. w.pc = "data" /\ w.query \in Asked /\ Store(g, w) /\ Becomes(w, {})
  BY DEF WriteData, Inv, Typed
<1>2. w.index \in DOMAIN graphs /\ graphs[w.index] \in Graph
  BY <1>0 DEF OutOfRange, Worker
<1>3. g \in Graph /\ g.title = graphs[w.index].title
  BY <1>1, <1>2 DEF Graph, Asked
<1>4. w.stale = FALSE /\ ~raced => Own(g)
  BY <1>1, <1>2 DEF Inv, InPlace, Placed, Own, Graph
<1>5. \A x \in BagToSet(workers)' : x \in BagToSet(workers)
  BY <1>1, BecomesIn
<1> HIDE DEF g
<1>6. \A x \in BagToSet(workers)' :
         x \in BagToSet(workers) \/ (/\ x \in Worker /\ x.query \in Asked /\ x.index = w.index
                                     /\ x.query = w.query /\ x.stale = w.stale)
  BY <1>5
<1>7. w.pc \in {"query", "data"}
  BY <1>1
<1>8. QED
  BY <1>1, <1>3, <1>4, <1>6, <1>7, StoreInv, Zenon

\* The two writes of appendMetrics, or the panic of an index out of range.
LEMMA WriteInv ==
  ASSUME Inv, NEW w \in BagToSet(workers), WriteQuery(w) \/ WriteData(w)
  PROVE  Inv'
<1>1. CASE OutOfRange(w)
  BY <1>1, EndsInv DEF WriteQuery, WriteData, Panic
<1>2. CASE ~OutOfRange(w)
  BY <1>2, WriteQueryInv, WriteDataInv
<1>3. QED
  BY <1>1, <1>2

\* updateGraphs empties the slice: whoever is past its check is late from now on.
LEMMA ClearInv == ASSUME Inv, Clear PROVE Inv'
<1>1. graphs' = <<>> /\ UNCHANGED <<raced, current, selected, duration>>
  BY DEF Clear, TaskOnly
<1>2. BagToSet(workers)' = {Marked(w) : w \in BagToSet(workers)}
  BY BagMark DEF Clear
<1>3. ASSUME NEW w \in BagToSet(workers)
      PROVE  /\ Marked(w) \in Worker /\ (Marked(w).pc # "read" => Marked(w).query \in Asked)
             /\ Marked(w).pc \in {"query", "data"} => Marked(w).stale = TRUE
  <2>1. w \in Worker /\ (w.pc # "read" => w.query \in Asked)
    BY DEF Inv, Typed
  <2>2. (w.pc \in {"query", "data"}) \in BOOLEAN
    OBVIOUS
  <2> DEFINE b == w.pc \in {"query", "data"}
  <2>3. Marked(w) = [w EXCEPT !.stale = b]
    BY Zenon DEF Marked
  <2>4. w.pc \in {"query", "data"} => b = TRUE
    OBVIOUS
  <2>5. b \in BOOLEAN
    OBVIOUS
  <2> HIDE DEF b
  <2>6. Marked(w) \in Worker /\ Marked(w).pc = w.pc /\ Marked(w).query = w.query /\ Marked(w).stale = b
    BY <2>1, <2>3, <2>5 DEF Worker
  <2>7. QED
    BY <2>1, <2>4, <2>6
<1>4. \A w \in BagToSet(workers)' :
        /\ w \in Worker /\ (w.pc # "read" => w.query \in Asked)
        /\ w.pc \in {"query", "data"} => w.stale = TRUE
  BY <1>2, <1>3
<1>5. Typed'
  BY <1>1, <1>4 DEF Inv, Typed
<1>6. InPlace'
  BY <1>1, <1>4 DEF InPlace, Placed
<1>7. QED
  BY <1>1, <1>5, <1>6 DEF Inv

\* updateGraphs fills it: nobody has been accepted while it was empty.
LEMMA FillInv == ASSUME Inv, Fill PROVE Inv'
<1>1. /\ graphs = <<>> /\ filling' = FALSE
      /\ graphs' = [i \in DOMAIN Shown |-> EmptyGraph(Shown[i])]
      /\ UNCHANGED <<raced, current, selected, duration>>
  BY DEF Inv, Fill, TaskOnly
<1>2. graphs' \in Seq(Graph) /\ \A i \in DOMAIN graphs' : Own(graphs'[i])
  BY <1>1, ShownTyped, EmptyGraphs DEF Inv
<1>3. \A w \in BagToSet(workers)' : w \in BagToSet(workers) \/ (w \in Worker /\ w.pc = "read")
  BY <1>2, LaunchedIn DEF Fill
<1>4. Typed'
  BY <1>1, <1>2, <1>3 DEF Inv, Typed
<1>5. InPlace => InPlace'
  <2> SUFFICES ASSUME InPlace PROVE InPlace'
    OBVIOUS
  <2>1. \A w \in BagToSet(workers) : ~(w.pc \in {"query", "data"} /\ w.stale = FALSE)
    BY <1>1 DEF InPlace, Placed
  <2>2. QED
    BY <1>2, <1>3, <2>1 DEF InPlace, Placed
<1>6. QED
  BY <1>1, <1>4, <1>5 DEF Inv

\* getGraphs: a graph that is its own keeps its title.
LEMMA PlotInv == ASSUME Inv, Plot PROVE Inv'
<1>1. /\ graphs' = [i \in DOMAIN graphs |-> [graphs[i] EXCEPT !.title = graphs[i].promQL]]
      /\ UNCHANGED <<filling, workers, raced, current, selected, duration>>
  BY DEF Plot, TaskOnly
<1>2. graphs \in Seq(Graph)
  BY DEF Inv, Typed
<1>3. \A i \in DOMAIN graphs : [graphs[i] EXCEPT !.title = graphs[i].promQL] \in Graph
  <2> SUFFICES ASSUME NEW i \in DOMAIN graphs
               PROVE  [graphs[i] EXCEPT !.title = graphs[i].promQL] \in Graph
    OBVIOUS
  <2>1. graphs[i] \in Graph
    BY <1>2
  <2>2. QED
    BY <2>1 DEF Graph
<1>4. graphs' \in Seq(Graph) /\ DOMAIN graphs' = DOMAIN graphs
  <2>1. DOMAIN graphs = 1..Len(graphs) /\ Len(graphs) \in Nat
    BY <1>2
  <2>2. QED
    BY <1>1, <1>3, <2>1
<1>5. Typed'
  BY <1>1, <1>4 DEF Inv, Typed
<1>6. InPlace => InPlace'
  <2> SUFFICES ASSUME InPlace PROVE InPlace'
    OBVIOUS
  <2>1. \A i \in DOMAIN graphs : graphs'[i] = graphs[i]
    <3> SUFFICES ASSUME NEW i \in DOMAIN graphs PROVE graphs'[i] = graphs[i]
      OBVIOUS
    <3>1. graphs[i] \in Graph /\ graphs[i].promQL = graphs[i].title
      BY <1>2 DEF InPlace, Own
    <3>2. [graphs[i] EXCEPT !.title = graphs[i].promQL] = graphs[i]
      BY <3>1 DEF Graph
    <3>3. QED
      BY <1>1, <3>2
  <2>2. QED
    BY <1>1, <1>4, <2>1 DEF InPlace, Placed
<1>7. filling' => graphs' = <<>>
  BY <1>1, <1>2, <1>4 DEF Inv
<1>8. QED
  BY <1>1, <1>5, <1>6, <1>7 DEF Inv

\* The user.
LEMMA UserInv == ASSUME Inv, User PROVE Inv'
<1>1. UNCHANGED <<graphs, filling, raced, workers>>
  BY DEF User, CyclePanel, ResetPanels, AddPanel, RemovePanel, ResetSelection, SaveSelection,
         ChangeDuration, RefreshScreen, TogglePause, Handle
<1>2. selected' \in Seq(Expressions)
  <2>1. selected \in Seq(Expressions)
    BY DEF Inv, Typed
  <2>2. CASE RemovePanel
    <3>1. PICK i \in DOMAIN selected :
            selected' = SubSeq(selected, 1, i - 1) \o SubSeq(selected, i + 1, Len(selected))
      BY <2>2 DEF RemovePanel
    <3>2. SubSeq(selected, 1, i - 1) \in Seq(Expressions)
      BY <2>1
    <3>3. SubSeq(selected, i + 1, Len(selected)) \in Seq(Expressions)
      BY <2>1
    <3>4. QED
      BY <3>1, <3>2, <3>3
  <2>3. CASE AddPanel
    <3>1. PICK q \in Expressions : selected' = Append(selected, q)
      BY <2>3 DEF AddPanel
    <3>2. QED
      BY <2>1, <3>1
  <2>4. CASE ResetPanels \/ ResetSelection
    <3>1. selected' = <<>>
      BY <2>4 DEF ResetPanels, ResetSelection
    <3>2. QED
      BY <3>1
  <2>5. CASE CyclePanel \/ SaveSelection \/ ChangeDuration \/ RefreshScreen \/ TogglePause
    BY <2>1, <2>5 DEF CyclePanel, SaveSelection, ChangeDuration, RefreshScreen, TogglePause
  <2>6. QED
    BY <2>2, <2>3, <2>4, <2>5 DEF User
<1>3. current' \in DOMAIN Panels
  <2>1. Len(Panels) \in Nat \ {0} /\ DOMAIN Panels = 1..Len(Panels) /\ current \in 1..Len(Panels)
    BY MetricAssumption DEF Inv, Typed
  <2>2. Next1 \in 1..Len(Panels)
    BY <2>1 DEF Next1
  <2>3. Prev1 \in 1..Len(Panels)
    BY <2>1 DEF Prev1
  <2>4. CASE CyclePanel
    BY <2>1, <2>2, <2>3, <2>4 DEF CyclePanel
  <2>5. CASE ResetPanels
    <3>1. current' = 1
      BY <2>5 DEF ResetPanels
    <3>2. QED
      BY <2>1, <3>1
  <2>6. CASE UNCHANGED current
    BY <2>1, <2>6
  <2>7. QED
    BY <2>4, <2>5, <2>6 DEF User, AddPanel, RemovePanel, ResetSelection, SaveSelection,
                            ChangeDuration, RefreshScreen, TogglePause
<1>4. duration' \in Durations
  BY DEF Inv, Typed, User, CyclePanel, ResetPanels, AddPanel, RemovePanel, ResetSelection,
         SaveSelection, ChangeDuration, RefreshScreen, TogglePause
<1>5. QED
  BY <1>1, <1>2, <1>3, <1>4, QuietInv

\* The collector and the clock.
LEMMA TickInv == ASSUME Inv, Collector \/ TimePasses \/ UNCHANGED vars PROVE Inv'
<1>1. CASE Ends("fatal")
  BY <1>1, EndsInv
<1>2. CASE ~Ends("fatal")
  <2>1. UNCHANGED <<graphs, filling, raced, current, selected, duration>>
    BY <1>2 DEF Collector, Connect, Tick, TimePasses, vars, uiVars
  <2>2. workers' = Launched(graphs) \/ workers' = workers
    BY <1>2 DEF Collector, Connect, Tick, TimePasses, vars
  <2>3. graphs \in Seq(Graph)
    BY DEF Inv, Typed
  <2>4. \A w \in BagToSet(workers)' : w \in BagToSet(workers) \/ (w \in Worker /\ w.pc = "read")
    BY <2>2, <2>3, LaunchedIn
  <2>5. QED
    BY <2>1, <2>4, QuietInv DEF Inv, Typed
<1>3. QED
  BY <1>1, <1>2

\* The inductive invariant.
LEMMA InvHolds == Spec => []Inv
<1>1. Inv /\ [Next]_vars => Inv'
  <2> SUFFICES ASSUME Inv, [Next]_vars PROVE Inv'
    OBVIOUS
  <2>1. ASSUME NEW i \in 1..MaxWorkers, Work(i) PROVE Inv'
    BY <2>1, ThinkInv, WriteInv DEF Work
  <2>2. CASE User
    BY <2>2, UserInv
  <2>3. CASE Interface
    BY <2>3, ClearInv, FillInv, PlotInv DEF Interface
  <2>4. CASE Collector \/ TimePasses \/ UNCHANGED vars
    BY <2>4, TickInv
  <2>5. CASE SigTerm \/ MainReturns \/ UserQuits
    BY <2>5, EndsInv DEF SigTerm, MainReturns, UserQuits
  <2>6. QED
    BY <2>1, <2>2, <2>3, <2>4, <2>5 DEF Next
<1>2. QED
  BY <1>1, InitInv, PTL DEF Spec

\* For any panels, time ranges and number of queries under way, in whatever order the
\* answers come: unless a worker wrote to a slice that was emptied after its check, every
\* plot has the query and the data of its title.
THEOREM AnswersCorrect == Spec => []AnswersFindTheirGraph
<1>1. Inv => AnswersFindTheirGraph
  BY DEF Inv, InPlace, AnswersFindTheirGraph
<1>2. QED
  BY <1>1, InvHolds, PTL
================================================================================
