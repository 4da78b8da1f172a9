# A TLA+ verification of netobserv-cli

netobserv-cli captures network flows, packets or metrics of a Kubernetes cluster.
A bash plug-in (`commands/netobserv`, `scripts/functions.sh`) deploys eBPF agents and a
collector pod; the collector is a Go program (`cmd/`) that receives the agents' records
over gRPC, shows them in a terminal UI and writes them to files. This directory holds
TLA+ models of that program, the TLC runs that check them and TLAPS proofs about them.

## Inventory

| component | state it keeps | operations | what is hard | what makes it correct |
|---|---|---|---|---|
| plaintext/packet matching (`packet_capture_wire_buffer.go`, `_filters.go`, `wire_payload.go`) | none (pure) | `scorePlaintextWireMatch`, `bestWireMatchWithAmbiguityLocked`, `minAnnotationScore` | sums of tiers and bonuses, missing data, ties | a full tuple is never overruled; a rivalled packet is never picked |
| wire packet buffer (`wirePacketBuffer`) | buffered packets, pending plaintext, under `b.mu` | `Enqueue`, `HandlePlaintext`, `Close`, `flushLoop` | two goroutines, expiry against late plaintext, a full buffer, shutdown | pcap order, each record exported once, the pcapng and JSONL files agree |
| packet capture lifecycle (`packet_capture.go`, `root.go`) | the pcapng writer, `activeNgw`, `activePacketStop`, `keylogOffset` under `ngwMu`; `captureEnded`, `stopReceived` without a lock | `startPacketCollector` and its deferred calls, the SIGTERM handler, UI exit, `watchTLSKeylog` | five goroutines on one buffered writer, exits at any moment | nothing is announced or exited before it is on disk; a capture ends |
| flow capture (`flow_capture.go`, `flow_db.go`) | JSON file, SQLite table, byte and time limits | collector loop, `onLimitReached` | limits are tested only when a flow arrives; background mode; each output may fail | file and table hold the same flows, the foreground stops at its limits, the background loses nothing |
| flow display (`flow_display.go`, `display.go`) | `lastFlows`, `lastWirePackets`, `lastPlaintextFlows`, pause flag, under `mutex` | `AppendFlow`, trimming, pause, update goroutine | goroutine per record, so no order; drops while paused; rows kept from the last table | rows in order and once each, the latest records shown, an appended record shown |
| metric capture (`metric_capture.go`, `metric_display.go`, `prom.go`) | `graphs`, `selectedPanels`, no lock | `queryGraphs`, `appendMetrics`, `updateData`, `updateGraphs` | query results arriving after the graphs changed, a check and a write without a lock | a result is shown in its own graph, the last choice wins, series aligned |
| capture script (`commands/netobserv`, `scripts/functions.sh`) | the namespace and what is deployed in it, local output | set-up, follow, copy, stop, cleanup, flow filters | two users, a trap that runs after every failure, under `set -e` itself | a refused session spares the other's capture; nothing is left, nothing is lost uncopied |
| TLS configuration (`tlsresolver`, `collector_tls.go`) | the ConfigMap between the init container and the collector | `Resolve`, `buildCollectorTLSConfig` | a profile that can be resolved in part only; three conversions | the collector has what the profile says and defaults for the rest |
| cluster client, options, formatting, mocks, `main.go` | globals read at start | parsing, text layout | nothing concurrent | not worth a model |

How they interact: the agents' records reach the collector goroutine through the channel
`flowPackets`. A wire packet goes to `Enqueue`, a plaintext record to `HandlePlaintext`
when its tuple is verified and otherwise straight to the JSONL file; both also go to the
display in a goroutine of their own. The buffer writes to the pcapng writer, which the TLS
keylog watcher, the SIGTERM handler and the collector's deferred calls share with it. The
end of a capture calls `onLimitReached`, which stops the UI or deletes the agents; a
SIGTERM or the end of the UI calls `stopActivePacketCapture` and waits.

## Modules

Written so far; each module's comments name the code it stands for, and
`PROJECT.json` maps each definition to its lines.

* **WireMatch** (constant-level): a wire packet and a plaintext record as the fields the
  scoring reads, every compatibility rule, the four tiers of scores, the time and payload
  bonuses, the capture-filter hints, the minimum score. Invalid addresses and unreadable
  ports are `NoAddr` and `NoPort`; times are seconds; a packet's frame is the length of its
  TCP payload (-1 for no TCP). **WireMatchProofs** proves what the scores mean for all of them.
* **BestMatchScan**: the loop of `bestWireMatchWithAmbiguityLocked`, a packet a step, which
  keeps two scores of N. It shows that the scan computes `Unrivalled`, the definition
  WirePacketBuffer uses. **PureFunctionsProofs** proves it for every N.
* **WirePacketBuffer**: the buffer. State: the two slices (each split in the part a running
  loop has kept and the part it has not looked at: `remaining := b.packets[:0]` in the code),
  both output files, `b.mu`, the place and time of its holder, the collector goroutine and
  `flushLoop`. Each loop iteration is an action; so the invariants hold in the middle of the
  loops as well. `MCWirePacketBuffer` gives small sets of packets and records.
* **CaptureLedger**: what the buffer promises of its output files, with no buffer in it.
  `LedgerRefinement` checks that WirePacketBuffer implements it.
* **WirePacketBufferProofs**: type correctness, the order of the pcapng file, what is
  exported, once and in agreement, and the refinement.
* **PacketCapture**: the lifecycle. A pc for `startPacketCollector` through its deferred
  calls, the NgWriter with `Begin`/`End` of each method call, the SIGTERM handler and the main
  goroutine as two "stoppers", the watcher, and `flushLoop` reduced to writing. Packets and DSB
  blocks share the one `bufio.Writer`: `buffered` and `onDisk` count the packets (with the
  section header), `dsb` lists the DSB blocks given to the writer, `dsbOnDisk` says how many of
  them are in the file and `flushedDsb` how many there were at the end of the deferred `Flush`;
  each write stays in the buffer or pushes out what was there. The
  deferred `Flush` takes no lock. `raced` records that two goroutines have been in the writer at
  once; what such a `Flush`, or a later push, then does is undefined, and the model lets any
  part of the blocks reach the file, stay or vanish (`Garbled`). **PacketCaptureProofs** proves
  that nothing is announced or exited too early. `MCPacketCapture` names the sets of options.
* **FlowCapture**: `startFlowCollector` a call at a time (insert, write, the two limits),
  `onLimitReached`, the start and end of the UI, SIGTERM, and what may fail: files, table,
  port, insert, write, the deletion of the agents. Records are numbered, and the text file
  and the table are the sequences of the numbers they hold. **FlowCaptureProofs**.
* **FlowStore** (constant-level): the columns and the values of the INSERT of a flow, with
  `!=` on interfaces as Go evaluates it on what `json.Unmarshal` makes of a record.
* **FlowDisplay**: the buffers behind `mutex`, the appending goroutine between its test of
  `paused` and its end, the heartbeat between its copy of the buffers and its table, and the
  user's pause, selection, filters and count. A record is a time, a kind and whether it
  matches the filters. The sort of flows is not stable, so a tie is a choice.
  **FlowDisplayProofs** proves its three safety properties.
* **MetricGraphs**: the slice `graphs`, a bag of query goroutines with the place each is at
  (`read` its graph, `asked`, past the check and before the `query` or the `data` is
  written), the ticks, and the event handler, whose updates empty and refill the slice in
  two steps (`Clear`, `Fill`) as a list of `tasks`. **MetricGraphsProofs**.
* **SeriesAlignment** (constant-level): `updateData`'s placing of shorter series on the axis
  of the longest; a value is named by its time. What the code does right is a small part
  (`ShorterSeriesInPlace`); the rest is among the disagreements below.
* **TLSProfile** (constant-level): from the APIServer's profile through `ComposeTLSConfig`,
  `ConfigToEnvMap` and `tlsprofile.Apply` to the settings of the collector.
* **CaptureSession**: sessions of the script that share a namespace. A pc per user, one place per
  command that changes the script's variables or the cluster; `Fail` leads from each of them to
  the trap, `BreakOff` ends the trap early, and the commands `stop`, `copy` and `cleanup` are new
  processes of a user whose session is over. The check for the namespace, the refusal (its message
  and `skipCleanup`) and the trap are separate steps, and a `kubectl get` that fails is taken for
  an absent namespace, as in a pipe without `pipefail`. The namespace, the daemon set and the pod
  are named by the user who made them, or applied them last. **CaptureSessionProofs**.
* **PureFunctions**: the inputs of the constant-level modules and of the scan, one a state,
  with the sets of inputs as constants: **MCFunctions** gives small ones, so that one run
  checks all of them, and **PureFunctionsProofs** proves them for any.

How they compose: FlowCapture and PacketCapture each model a collector with its own end;
the goroutine per record that they launch is the appending of FlowDisplay, and what
PacketCapture calls the buffer is WirePacketBuffer, whose choice of a packet is
BestMatchScan over the scores of WireMatch. MetricGraphs writes what SeriesAlignment draws.

Operators named as mutants in a comment (`...Late`, `...Forgets`) are plausible bugs of the
definition below them; each property of a passing run is violated with one of them in place.

## Runs

| run | what it asks | bounds |
|---|---|---|
| `functions` | `EvidenceNeeded` over every record x packet, `TierDecides` over pairs of packets without payload | 3 addresses, 2 ports and none, 3 times, 3 payload lengths, port and peer filters; enough for every tier, direction and both signs of the time difference |
| | `ScanFindsUnrivalled` over every vector of scores | 3 packets, 6 scores, margin 1; the proof removes the bound |
| | `FlowsFit`: the statement of each flow fits its values | each key that a switch tests: absent, zero, or set (36 kinds of flow) |
| | `SeriesInPlace`: of an answer whose first series is the longest, a shorter one that is drawn, and only starts late or ends early, is drawn at its times | up to 3 series of up to 4 of 4 times, 2 colors |
| | `ProfilesHonoured`; `ConfigMapConcrete`: a version and suites, below TLS 1.2 only for the profile Old or a custom profile of that version | every type of profile; a custom one with any version, or none, and any set of 4 kinds of suites and 3 groups |
| `wire_buffer` | order, exactly-once, agreement of the files, connection, limit, Close, ledger | 3 packets, 2 records, 2 places in the buffer, window 2, reports up to time 2: the third packet can overflow, expire or meet a record already waiting |
| `wire_buffer_any` | memory of competing connections; expiry as liveness | 2 packets of 2 connections, 1 record that fits both or names one |
| `packet_capture` | `CompletionAfterFlush`, `StopWaits`, `SecretsInOrder` for all 8 sets of options | 3 packets, channel 1, size limit 2, 2 pieces of key log: the limit, the deadline and both stoppers can meet, and the watcher can write before, during and after the deferred `Flush` |
| `packet_live` | a capture ends; a stopper exits | 2 packets, no key log (the watcher takes no part in ending) |
| `packet_exit` | violated: no exit with blocks still buffered | 3 packets |
| `packet_lock` | violated: one goroutine in the writer | key log on |
| `flow_capture` | the two outputs agree at any exit; the foreground stops at its limit; a late record ends it; the background writes what was acknowledged | 5 records, channel 2, limit 2: the limit can be met with records behind it in the channel, before and after the deadline |
| `flow_display` | rows in order and once; the latest shown; a quiet table is stable; an appended record is shown | 3 records of 2 times and each kind, buffers of 2, 1 and 2, tables of 2 or 3 rows, 1 filter, for all three kinds of capture: a record can arrive late, tie, overflow its buffer and outlive it in the table |
| `metric_graphs` | answers find their graph; a paused display rests; a display left alone settles; the end in time | 2 panels that share an expression at different places, 1 custom panel, 2 time ranges, 2 queries under way: an answer can find its index gone, taken by another expression, or by the same one |
| `metric_race` | violated: a stale answer is skipped | same, going on after a race |
| `capture_session` | what a session that saw the namespace spares, what a finished trap leaves, copy before deletion, TLS agents after their ConfigMap | 2 users, each one session with any settings and any number of commands after it; the proofs remove the bound |

`wire_buffer_any` sets `TrustAnyTuple`, which the program does not: there
`handlePlaintextRecord` hands over complete kernel tuples only. It is the buffer's own
contract for any caller, the one its unit tests drive (`packet_capture_correlation_test.go`);
the code for records with a missing endpoint is in the buffer and is checked there.

Deadlock is checked in `capture_session`, whose users can always start another command. The
other models really stop (the capture is over, or its bounded input is used up).

Bounds that stop a behaviour rather than an input: in `metric_graphs`, `MaxWorkers` keeps
a round of queries from starting while it would exceed two, and with `FollowRaces` false a
behaviour ends where a write has come after the slice was emptied; `metric_race` goes on
from there, and is why `AnswersFindTheirGraph` and `EndsInTime` except it.

**Disagreements found** (the three violation runs; details under "findings" in
`PROJECT.json`):

* a SIGTERM between `clearActivePacketWriter` and the deferred `Flush` loses the buffered
  blocks;
* that `Flush` takes no lock while the key log watcher may be writing;
* an answer that passed the check of `appendMetrics` is written over a graph of another
  panel when the panel is switched before the write.

Others, which the models follow the code in and which no run is about:

* a flow capture does not end at its maximum time when no flow arrives, although the script
  announces that it "ends automatically in $maxTime" (`commands/netobserv:283`): the limit is
  tested after a record only (`flow_capture.go:118`). `LateRecordEndsCapture` is about the rest;
* nothing stops that watcher when a capture ends: a block of secrets it writes after the
  deferred `Flush` is counted by `keylogOffset`, stays in the buffer and never reaches the file,
  although whoever called `stopActivePacketCapture` has waited "for pending plaintext, PCAP and
  file flushes". `CompletionAfterFlush` and `StopWaits` are therefore about the packets and the
  blocks from before the end of that `Flush`, and promise them only when the two goroutines
  have not met in the writer, which takes `--tls-keylog`;
* only the first value of a shorter series is looked up among the timestamps kept "to compare
  all series on the same basis"; the ones after it follow at consecutive places. So of a
  series with a gap, usual for `topk` and `> 0` queries, the values after the gap are drawn at
  times that are not theirs. `SeriesInPlace` says nothing of such a series;
* "no matching timestamp found, skip this series" is decided by `start == 0`, which a series
  that starts with the axis and ends before it has as well; and the `break` there leaves the
  loop over all series, so the ones after it are not drawn either;
* between the sight of the namespace and `skipCleanup="true"` stands a `printf` to stderr; when
  it fails, or a signal comes, the trap deletes the capture that was just seen. `SeenIsSpared`
  excepts that trap, and nothing else such a session does;
* a session that fails before it asks for the namespace (no `yq`, an incompatible version:
  `functions.sh:398`) runs the trap with `skipCleanup` false and deletes whatever capture is
  there, as does one that took a failing `kubectl get` for an absent namespace, and one of two
  sessions that both asked before either had created it;
* a session in the background whose set-up fails leaves its objects, and later sessions are
  refused until someone calls `cleanup`. So does a trap whose copy fails (`broken`);
* `onExit` ends in `exit 0`: a set-up that failed reports success if the trap comes to its end;
* partial and legacy plaintext records never reach the heuristics that the program's README
  (lines 155-157) describes, as `handlePlaintextRecord` only lets complete kernel tuples in;
* the time bonus has two scales, so the farther of two packets on opposite sides of an
  event may score higher, against the comment at `packet_capture_wire_buffer.go:594`;
* series of equal length that begin at different times are drawn one over the other, and the
  timestamps of each series longer than those before it are appended to one list, so the axis
  is that of the longest only when it comes first;
* the key `DNSErrno` is spelled `DnsErrno` in the table, whose column is NULL in every row;
* without the table, `initFlowDB` returns nil and the first flow panics;
* after a change of panel, `updateScreen` redraws the top of the screen, which empties the
  graphs once more without a query: the data waits for the answers on their way or a tick;
* of a TLS profile that allows less than TLS 1.3 with suites of TLS 1.3 only, the collector
  offers Go's default suites below 1.3. `ProfilesHonoured` is about the others.

## Fairness

WirePacketBuffer: weak fairness of the loop steps and of time (a goroutine that can run
does); strong fairness of taking `b.mu`, because `sync.Mutex` hands the lock to a waiter
that has starved for 1 ms and a `time.Ticker` keeps firing. Nothing makes `Close` happen.
PacketCapture: strong fairness of the collector's steps, the stoppers and the ends of writes
for the same reason, and of the branch of `select` that ends the loop, because Go chooses
among ready cases at random; weak fairness of the timer and of taking from the channel.
Once `onLimitReached` has called `app.Stop`, the UI returns (weak fairness of
`captureEnded /\ Ask("main")`). No fairness on the agents, on SIGTERM, on the user, or on a
new writer call by the watcher or `flushLoop`.

FlowCapture: weak fairness of the collector goroutine, of the main goroutine's return, of
`app.Run` and of the SIGTERM handler; each is a goroutine that can run. `Take` waits for a
record, and none need come. FlowDisplay: weak fairness of the appending goroutine and of the
refresh; strong fairness of the copy of the buffers, which needs `mutex`. MetricGraphs: weak
fairness of the ticks, of the event handler's tasks, of the return of `app.Run`, and of the
goroutines at each index, which may be spent on failed requests: `GraphsSettle` asks for
answers as its premise, since Thanos owes none.

## Proofs

All for arbitrary constants, under the modules' named assumptions on them.

* `TypeCorrect`: `Spec => []TypeOK` of WirePacketBuffer. Lemmas give the types of what
  annotation and export produce (`OverlaidTuples`, `UnmatchedTuples`, `AnnotateType`, ...).
* `PacketsInOrder`: `Spec => []PcapInArrivalOrder`. The order alone is not inductive. While
  expiry runs over the buffer, what it keeps lands before what it has not looked at, so a
  young packet kept before an old one written would overtake it; `AgeInv` says the buffer
  is sorted by age, which holds because the collector is the only goroutine that enqueues
  and so stamps packets in the order it appends them, and `ControlInv` says who can be
  where in the critical section. `OrderInv` is their conjunction and is inductive.
* What the buffer exports. `StepEffect` says that every step, of the
  ten or so places in the loops, does one of six things to the files and slices: it moves
  packets and records between the parts of a slice, takes in a packet, writes one, receives a
  record, exports one alone, or attaches one to a packet. The invariants are proved over those:
  `OnceInv` (`ExportedOnce`) has each record's ID in one place and below the count received,
  and each packet's number in one; `FreshInv` says that the packet `Enqueue` holds is not
  annotated yet; with these no ID can be given twice and an export cannot touch a packet that
  was exported before (`FilesAgree`). `VerifiedInv` says that only verified records wait,
  which holds because `handlePlaintextRecord` exports others at once: `AnnotationsNameConnections`
  assumes `TrustAnyTuple = FALSE`, as the program is, and rests on `ConnectionCorrect`.
  `CloseInv` follows the loops of `Close` until both slices are empty (`CloseFlushes`).
  `RememberInv` (`CompetitorsStayRemembered`) adds what a record is to know during a critical
  section, before its holder has looked at it again. `BufferIsBounded` needs the stage of the
  lock's holder, and `AmbiguityStays` that an ambiguous record is not matched by any loop.
* `LedgerRefined`: `Spec => LedgerRefinement`; each of the six effects is a step of
  CaptureLedger or a stutter, under the invariants above.
* `ScanCorrect`: `Spec => []ScanFindsUnrivalled` of BestMatchScan, from `ScanInv`;
  `ScansFindUnrivalled` is the same of the run's module.
* `CompletionCorrect`, `StopCorrect`: `[]CompletionAfterFlush` and `[]StopWaits` of
  PacketCapture. `CaptureInv` counts packets as long as no two goroutines have met in the writer:
  what was taken from the channel is on disk, in the writer's buffer, held, or in the hand of
  exactly one goroutine (`Conserved`), which needs to know who is inside the writer (`Locked`);
  then each deferred call empties one of these (`Drained`, `Flushed`, `Closed`). A capture whose
  file could not be created counts nothing, and the proof shows that nobody can wait for it
  (`Failed`). `RaceInv` says that only the deferred `Flush` and the watcher can meet, so that a
  capture without the key log keeps its count (`ClosedIsSaved`), and `DsbInv` that a DSB block
  is never taken out of the file again.
* `SecretsCorrect`: `[]SecretsInOrder`, of the blocks given to the writer; what the watcher has
  read starts at `keylogOffset` although it let go of the lock, because no other goroutine moves
  the offset (`SecretsInv`). `CaptureTypeCorrect` uses it: without the order the offset might
  leave Nat.
* `OutputsCorrect`, `LimitCorrect` (FlowCapture): `[]OutputsAgree` and
  `[]ForegroundStopsAtLimit` for any channel and limit. The invariant counts by place: the file
  holds what was taken except for the record in hand, and the size exceeds the limit only
  between a write and its test, or in the background.
* `CleanupCorrect`, `CopyCorrect`, `TLSOrderCorrect`, `RefusalCorrect` (CaptureSession): its four
  properties for any number of users. The invariant says what of a user's can be in the cluster at
  each place of the script (`Deleted`), that nothing outlives its namespace (`Emptied`), that the
  trap is off only while options are parsed and once a refusal has set `skipCleanup` (`Refused`),
  and that a collector past its start has written its ConfigMap (`Configured`).
* `AnswersCorrect` (MetricGraphs): `[]AnswersFindTheirGraph` for any panels and any number
  of goroutines. The property says nothing of the goroutines; the invariant adds what each
  relies on between its check and its writes: unless the slice was emptied since (`stale`),
  its graph is there and has the title it asked for (`Placed`). Emptying the slice marks all
  that are past the check, filling it finds none, and a write keeps the title; lemmas say
  who is in a bag after a step.
* `RowsInOrder`, `ShowsNewest`, `RefreshTwiceSettles` (FlowDisplay): `[]TableInOrder`,
  `NewestShown` and `[]RefreshSettles` for any records, buffer sizes and table size. The invariant
  (`Inv`, `InvHolds`) says that a record's index is its own (`Numbered`); that each buffer has
  the last records of its kind, and a full one at that where a record is missing from it
  (`Latest`): without the second half a late arrival that is older than a dropped record would
  be kept while it is not; and that between the copy and the table the rows of the table that
  are not in the copy stand before it (`Copied`), although records are appended meanwhile. The
  rest is about the operators: what the loop of `getFlows` keeps (`ThoseKept`, `ThoseCat`, by
  induction on the rows), what a cut keeps (`LastOfKept`, `LastOfCat`), and that a finite set
  can be sorted at all (`CanSort`), on which `SortPacketFlows`, a choice of a sorted sequence,
  depends. `RefreshTwice` needs no invariant: it holds of any table and copy.
* `EvidenceCorrect`, `TierCorrect`: what `EvidenceNeeded` and `TierDecides` say, for every
  record and packet, and `EvidenceIsNeeded`, `TierIsDecisive`: of the run's module;
  `ConnectionCorrect`: a full tuple names its connection (`NamesConnection`). They rest on
  `TierOfRecord`: a packet that no
  known field of the record contradicts scores in the tier of what the record knows, at or
  above that tier's base. It follows that the test `bestScore < minAnnotationScore` in
  `tryAnnotateLocked` never decides anything: each packet that scores at all passes it.
* `FlowsAlwaysFit`: any value `json.Unmarshal` can give a key differs from the untyped 0 the
  switches compare it with, so both take every section, and the full statement fits.
* `ProfilesAreHonoured`, `ConfigMapIsConcrete` (a version below TLS 1.2 comes from the profile Old
  or from the custom profile itself, never from a default): from what `Compose` makes of each
  field (`ComposedFields`), for each type of profile.
* `SeriesStayInPlace`: for answers of any size whose first series is the longest, and their
  series without a gap. What the first loop computes is a recursive function; `ScannedAxis`
  gives it explicitly and proves that by induction on the number of series. The prover has no
  induction scheme for an operator, so the induction is over the set of counterexamples, which
  has a least element (`LeastNatural`, from the library's theorems on well-founded relations).
  On an ascending axis the first time that matches is the series' own (`FoundPlace`), and the
  place of its first value is then that of all (`AlignedAt`).

Only model-checked: the ten properties that need fairness, as TLAPS does not prove
liveness or ENABLED: `PacketsEventuallyWritten` and `PlaintextEventuallyExported` of the buffer,
`CaptureEnds` and `StoppersExit` of PacketCapture, `LateRecordEndsCapture` and
`AcknowledgedIsWritten` of FlowCapture, `AppendedIsShown` of FlowDisplay, `PausedStandsStill`,
`GraphsSettle` and `EndsInTime` of MetricGraphs. Each invariant and each action property of a
passing run is the statement of a theorem.

## Not modelled

* Errors of the pcapng writer, the disk or base64, and records that do not parse: the code
  logs them and goes on, so a packet may be missing; the properties are about well-formed
  records and a writer that works while its file is open. The bytes of a block are left out: a
  block is in the file or not, so a block torn by two goroutines in the writer counts as lost.
* The text of annotations, Kubernetes fields copied to a record, panels and columns.
* Parsing of addresses, ports and frames: what each makes of its input is a value.
* The channel of `flowPackets` after the capture ends: its records are dropped.
* FlowDisplay: columns, suggestions, focus, the payload panel and the table's cursor (a row is
  selected by the user here, while tview may also move the selection itself). The order in
  which records came is left out, as the goroutine per record loses it.
* MetricGraphs: the focus of a plot and its legend, labels, the points per graph (the count
  changes the screen only), and the background's queries, which are only logged.
  `updateData`'s three writes are one step and so are the appends of `updateGraphs`; a race
  inside them is another face of the one `metric_race` shows.
* PacketCapture takes the UI to be up when the limit is reached; FlowCapture models what
  happens when it is not (`app.Stop` does nothing, and is not called again).
* Data races on single words (`paused`, `captureEnded`) are single reads and writes.
* CaptureSession: what `parse_args` does to the manifest, the JSON that `buildJSON` makes of the
  copied file (a second copy appends to it), output as YAML, end-to-end mode, and the objects that
  come and go with the namespace (service, account, monitor, dashboard). A collector that was
  made in a terminating namespace does not start; `kubectl apply` of agents fails in one.
* `prom.go` (an HTTP client), `config.go` (YAML), `mocks.go`, formatting: no state that two
  steps could disagree about.
* The components marked `not_modelled` in `PROJECT.json`.

## Plan

Done: matching, buffer, lifecycle of packet captures, flow capture and store, flow display,
metrics, TLS profile, the sessions of the script, and the proofs of all that is safety. Left:

1. **FlowFilters**: the rule array that `parse_args` edits, against "each option changes the
   last filter", and the text of `buildJSON`.
