----------------------------- MODULE PacketCapture -----------------------------
(***************************************************************************)
(* The life of a packet capture (cmd/packet_capture.go): the collector     *)
(* goroutine startPacketCollector with its deferred calls, the goroutines  *)
(* that write to the same pcapng writer, and the two ways the process ends *)
(* (the SIGTERM handler of cmd/root.go, the return of the main goroutine). *)
(* The wire buffer is reduced to the number of packets it holds back; see  *)
(* WirePacketBuffer for what it does with them.                            *)
(***************************************************************************)
EXTENDS Integers, FiniteSets, Sequences

CONSTANTS
  Options,     \* the sets of options a capture may be started with, of
               \* "background" (the collector runs in the main goroutine),
               \* "correlate" (plaintextCaptureEnabled: packets go through the
               \* wire buffer) and "keylog" (--tls-keylog is given)
  ChanSize,    \* capacity of flowPackets (100 in the program)
  SizeLimit,   \* maxBytes, in packets
  MaxPackets,  \* bound: packets the agents report
  MaxSecrets   \* bound: bytes the key log file gets

ASSUME OptionAssumption == Options \subseteq SUBSET {"background", "correlate", "keylog"}
ASSUME LimitAssumption ==
  /\ ChanSize \in Nat \ {0}
  /\ {SizeLimit, MaxPackets, MaxSecrets} \subseteq Nat

VARIABLES
  options,      \* those it was started with
  pc,           \* where startPacketCollector is
  completed,    \* its local variable
  serverUp,     \* the gRPC server accepts records
  sent,         \* packets the agents have had acknowledged
  queue,        \* of them in the flowPackets channel
  held,         \* of them in the wire buffer
  taken,        \* received from the channel
  buffered,     \* packets in the writer's bufio.Writer (the header counts as one)
  onDisk,       \* of them in the file
  dsbOnDisk,    \* DSB blocks in the file, of those in dsb
  raced,        \* two goroutines have been in the writer at once
  fileOpen,
  ngwMu,        \* who holds it
  inside,       \* the goroutines executing a method of the NgWriter
  registered,   \* activeNgw # nil
  stopSet,      \* activePacketStop # nil
  cancelled,    \* ctx is cancelled
  done,         \* done is closed
  deadline,     \* deadline.C has fired
  captureEnded,
  stopReceived,
  stopper,      \* where the goroutines that end the process are
  exited,       \* the process has ended, by the hand of
  watcher,      \* watchTLSKeylog
  secrets,      \* pieces in the key log file
  keylogOffset, \* of them embedded, to the program's knowledge
  reading,      \* the pieces <<from, to>> the watcher has read
  dsb,          \* the pieces in the DSB blocks the writer was given
  flushedDsb    \* how many there were at the end of the deferred Flush

blockVars == <<buffered, onDisk, dsbOnDisk>>
writerVars == <<blockVars, raced, fileOpen, ngwMu, inside>>
activeVars == <<registered, stopSet, cancelled, done>>
agentVars == <<serverUp, sent>>
packetVars == <<queue, held, taken>>
endVars == <<captureEnded, stopReceived, stopper, exited>>
keylogVars == <<watcher, secrets, keylogOffset, reading, dsb, flushedDsb>>
vars == <<options, pc, completed, deadline, writerVars, activeVars, agentVars, packetVars, endVars, keylogVars>>

Stoppers == {"signal", "main"}
Goroutines == {"collector", "flusher", "watcher", "signal"}

Init ==
  /\ options \in Options
  /\ pc = "create" /\ completed = FALSE /\ deadline = FALSE
  /\ serverUp = FALSE /\ sent = 0 /\ queue = 0 /\ held = 0 /\ taken = 0
  /\ buffered = 0 /\ onDisk = 0 /\ dsbOnDisk = 0
  /\ fileOpen = FALSE /\ ngwMu = "free" /\ inside = {} /\ raced = FALSE
  /\ registered = FALSE /\ stopSet = FALSE /\ cancelled = FALSE /\ done = FALSE
  /\ captureEnded = FALSE /\ stopReceived = FALSE
  /\ stopper = [s \in Stoppers |-> "idle"] /\ exited = "no"
  /\ watcher = "none" /\ secrets \in 0..MaxSecrets /\ keylogOffset = 0
  /\ reading = <<0, 0>> /\ dsb = <<>> /\ flushedDsb = 0

--------------------------------------------------------------------------------
(* The NgWriter.  A method call begins and ends; ngwMu is held in between by *)
(* every caller but the collector's deferred Flush.                          *)

Enter(g) == inside' = inside \cup {g} /\ raced' = (raced \/ inside # {})
Leave(g) == inside' = inside \ {g} /\ UNCHANGED raced

Begin(g) == ngwMu = "free" /\ ngwMu' = g /\ Enter(g) /\ UNCHANGED <<blockVars, fileOpen>>
End(g) == ngwMu' = "free" /\ Leave(g) /\ UNCHANGED fileOpen

\* What is in the bufio.Writer goes to the file.
PushedOut == buffered' = 0 /\ onDisk' = onDisk + buffered /\ dsbOnDisk' = Len(dsb)

\* bufio.Writer is not made for two goroutines at once: bytes get lost, torn, or
\* stay behind, of which these are the outcomes in whole blocks.
Garbled ==
  /\ buffered' \in 0..buffered /\ onDisk' \in onDisk..(onDisk + buffered)
  /\ dsbOnDisk' \in dsbOnDisk..Len(dsb')

FlushedOut == IF raced THEN Garbled ELSE PushedOut

\* A packet written stays in the bufio.Writer, or pushes out what was there.
EndWrite(g) ==
  /\ End(g)
  /\ \/ buffered' = buffered + 1 /\ UNCHANGED <<onDisk, dsbOnDisk>>
     \/ buffered' = 1 /\ onDisk' = onDisk + buffered /\ dsbOnDisk' = Len(dsb)

\* So does a DSB block, itself among what stays; once the file is closed nothing
\* goes out.
WriteSecrets(piece) ==
  /\ dsb' = Append(dsb, piece) /\ keylogOffset' = keylogOffset + (piece[2] - piece[1])
  /\ UNCHANGED blockVars \/ (fileOpen /\ FlushedOut)

--------------------------------------------------------------------------------
(* startPacketCollector *)

Goto(p) == pc' = p
Only(p) == pc = p /\ exited = "no"

\* createOutputFile and NewNgWriter, which writes the section header; either may
\* fail, and the deferred calls made so far run.
Create ==
  /\ Only("create")
  /\ \/ /\ Goto("register") /\ fileOpen' = TRUE /\ buffered' = 1
     \/ /\ Goto("closeFile") /\ UNCHANGED <<fileOpen, buffered>>
  /\ UNCHANGED <<options, completed, deadline, onDisk, dsbOnDisk, raced, ngwMu, inside, activeVars,
                 agentVars, packetVars, endVars, keylogVars>>

Register ==
  /\ Only("register") /\ ngwMu = "free" /\ Goto("setStop")
  /\ registered' = TRUE
  /\ UNCHANGED <<options, completed, deadline, stopSet, cancelled, done, writerVars, agentVars,
                 packetVars, endVars, keylogVars>>

SetStop ==
  /\ Only("setStop") /\ ngwMu = "free" /\ Goto(IF "keylog" \in options THEN "embed" ELSE "listen")
  /\ stopSet' = TRUE
  /\ UNCHANGED <<options, completed, deadline, registered, cancelled, done, writerVars, agentVars,
                 packetVars, endVars, keylogVars>>

\* embedTLSKeylog: what the file holds now, if anything; then go watchTLSKeylog.
Embed ==
  /\ Only("embed") /\ Goto("listen") /\ watcher = "none" /\ watcher' = "idle"
  /\ IF secrets = 0 THEN UNCHANGED <<dsb, keylogOffset, blockVars>>
     ELSE ngwMu = "free" /\ WriteSecrets(<<0, secrets>>)
  /\ UNCHANGED <<options, completed, deadline, secrets, reading, flushedDsb, raced, fileOpen, ngwMu,
                 inside, activeVars, agentVars, packetVars, endVars>>

\* StartCollector fails when the port is taken.
Listen ==
  /\ Only("listen")
  /\ \/ Goto("loop") /\ serverUp' = TRUE
     \/ Goto("drain") /\ UNCHANGED serverUp
  /\ UNCHANGED <<options, completed, deadline, sent, writerVars, activeVars, packetVars, endVars, keylogVars>>

\* Mutant: the deadline is only looked at when a packet arrives.
EndLoopOnPacket ==
  /\ Only("loop") /\ (cancelled \/ (deadline /\ queue > 0))
  /\ completed' = TRUE /\ Goto("closeServer")
  /\ UNCHANGED <<options, deadline, writerVars, activeVars, agentVars, packetVars, endVars, keylogVars>>

\* The cases of the select that end the capture.
EndLoop ==
  /\ Only("loop") /\ (cancelled \/ deadline)
  /\ completed' = TRUE /\ Goto("closeServer")
  /\ UNCHANGED <<options, deadline, writerVars, activeVars, agentVars, packetVars, endVars, keylogVars>>

TakePacket ==
  /\ Only("loop") /\ queue > 0
  /\ queue' = queue - 1 /\ taken' = taken + 1
  /\ Goto("handle")
  /\ UNCHANGED <<options, completed, deadline, held, writerVars, activeVars, agentVars, endVars, keylogVars>>

\* handleWirePacket: Enqueue, once flushLoop is out of the buffer; without the
\* buffer the packet is "held" until it is written.
Hold ==
  /\ Only("handle") /\ "flusher" \notin inside
  /\ held' = held + 1
  /\ Goto("write")
  /\ UNCHANGED <<options, completed, deadline, queue, taken, writerVars, activeVars, agentVars, endVars,
                 keylogVars>>

\* Enqueue writes the packets that expire or overflow, writePacketData the one
\* packet there is ...
BeginPacket ==
  /\ Only("write") /\ held > 0 /\ Begin("collector") /\ Goto("writing")
  /\ held' = held - 1
  /\ UNCHANGED <<options, completed, deadline, queue, taken, activeVars, agentVars, endVars, keylogVars>>

EndPacket ==
  /\ Only("writing") /\ EndWrite("collector") /\ Goto("write")
  /\ UNCHANGED <<options, completed, deadline, activeVars, agentVars, packetVars, endVars, keylogVars>>

\* ... and then totalBytes > maxBytes ends the capture.
CheckSize ==
  /\ Only("write") /\ ("correlate" \in options \/ held = 0)
  /\ IF taken > SizeLimit THEN completed' = TRUE /\ Goto("closeServer")
     ELSE Goto("loop") /\ UNCHANGED completed
  /\ UNCHANGED <<options, deadline, writerVars, activeVars, agentVars, packetVars, endVars, keylogVars>>

\* The deferred calls, last first: collector.Close drops what is still queued ...
CloseServer ==
  /\ Only("closeServer") /\ Goto("drain")
  /\ serverUp' = FALSE
  /\ UNCHANGED <<options, completed, deadline, sent, writerVars, activeVars, packetVars, endVars, keylogVars>>

\* ... wireBuf.Close writes the packets one by one, once flushLoop is out ...
LockDrain ==
  /\ Only("drain") /\ "flusher" \notin inside /\ Goto("drainNext")
  /\ UNCHANGED <<options, completed, deadline, writerVars, activeVars, agentVars, packetVars, endVars,
                 keylogVars>>

\* Mutant: Close writes one packet more than there are.
BeginDrainBlindly ==
  /\ Only("drainNext") /\ Begin("collector") /\ Goto("drainWrite")
  /\ held' = held - 1
  /\ UNCHANGED <<options, completed, deadline, queue, taken, activeVars, agentVars, endVars, keylogVars>>

BeginDrain ==
  /\ Only("drainNext") /\ held > 0 /\ Begin("collector") /\ Goto("drainWrite")
  /\ held' = held - 1
  /\ UNCHANGED <<options, completed, deadline, queue, taken, activeVars, agentVars, endVars, keylogVars>>

EndDrain ==
  /\ Only("drainWrite") /\ EndWrite("collector") /\ Goto("drainNext")
  /\ UNCHANGED <<options, completed, deadline, activeVars, agentVars, packetVars, endVars, keylogVars>>

\* ... clearActivePacketWriter ...
Clear ==
  /\ Only("drainNext") /\ held = 0 /\ ngwMu = "free"
  /\ Goto("flush")
  /\ registered' = FALSE /\ stopSet' = FALSE
  /\ UNCHANGED <<options, completed, deadline, cancelled, done, writerVars, agentVars, packetVars,
                 endVars, keylogVars>>

\* ... ngw.Flush, without the lock ...
BeginFlush ==
  /\ Only("flush") /\ Goto("flushing")
  /\ Enter("collector")
  /\ UNCHANGED <<options, completed, deadline, blockVars, fileOpen, ngwMu, activeVars, agentVars,
                 packetVars, endVars, keylogVars>>

\* Mutant: there is no deferred Flush.
EndFlushNothing ==
  /\ Only("flushing") /\ Goto("closeFile")
  /\ Leave("collector")
  /\ flushedDsb' = Len(dsb)
  /\ UNCHANGED <<options, completed, deadline, blockVars, fileOpen, ngwMu, activeVars, agentVars,
                 packetVars, endVars, watcher, secrets, keylogOffset, reading, dsb>>

EndFlush ==
  /\ Only("flushing") /\ Goto("closeFile")
  /\ Leave("collector")
  /\ UNCHANGED <<options, completed, deadline, fileOpen, ngwMu, activeVars, agentVars, packetVars,
                 endVars, watcher, secrets, keylogOffset, reading, dsb>>
  /\ FlushedOut /\ flushedDsb' = Len(dsb)

\* ... plaintextLog.Close and f.Close ...
CloseFile ==
  /\ Only("closeFile") /\ Goto("announce")
  /\ fileOpen' = FALSE
  /\ UNCHANGED <<options, completed, deadline, blockVars, raced, ngwMu, inside, activeVars, agentVars,
                 packetVars, endVars, keylogVars>>

\* ... onLimitReached, if completed: it stops the UI, or deletes the agents ...
Announce ==
  /\ Only("announce") /\ Goto("closeDone")
  /\ captureEnded' = completed
  /\ UNCHANGED <<options, completed, deadline, stopReceived, stopper, exited, writerVars, activeVars,
                 agentVars, packetVars, keylogVars>>

\* Mutant: done is closed only when the capture completed.
CloseDoneIfCompleted ==
  /\ Only("closeDone") /\ Goto("returned")
  /\ done' = completed /\ cancelled' = TRUE
  /\ UNCHANGED <<options, completed, deadline, registered, stopSet, writerVars, agentVars, packetVars,
                 endVars, keylogVars>>

\* ... close(done), and cancel.
CloseDone ==
  /\ Only("closeDone") /\ Goto("returned")
  /\ done' = TRUE /\ cancelled' = TRUE
  /\ UNCHANGED <<options, completed, deadline, registered, stopSet, writerVars, agentVars, packetVars,
                 endVars, keylogVars>>

Collector ==
  \/ Create \/ Register \/ SetStop \/ Embed \/ Listen
  \/ Hold \/ BeginPacket \/ EndPacket \/ CheckSize
  \/ CloseServer \/ LockDrain \/ BeginDrain \/ EndDrain \/ Clear \/ BeginFlush \/ EndFlush
  \/ CloseFile \/ Announce \/ CloseDone

--------------------------------------------------------------------------------
(* Ending the process *)

Moves(s, from, to) ==
  /\ exited = "no" /\ stopper[s] = from
  /\ stopper' = [stopper EXCEPT ![s] = to]

\* SIGTERM; or the UI returns, because the user quits, the terminal fails, or
\* onLimitReached stopped it.
Ask(s) ==
  /\ Moves(s, "idle", "asking")
  /\ s = "main" => "background" \notin options
  /\ stopReceived' = (stopReceived \/ s = "signal")
  /\ UNCHANGED <<options, pc, completed, deadline, captureEnded, exited, writerVars, activeVars, agentVars,
                 packetVars, keylogVars>>

\* stopActivePacketCapture reads activePacketStop, and calls it if there is one.
CallStop(s) ==
  /\ ngwMu = "free"
  /\ Moves(s, "asking", IF stopSet THEN "waiting" ELSE "unstopped")
  /\ cancelled' = (cancelled \/ stopSet)
  /\ UNCHANGED <<options, pc, completed, deadline, captureEnded, stopReceived, exited, registered, stopSet,
                 done, writerVars, agentVars, packetVars, keylogVars>>

\* Mutant: the stop function does not wait for done.
StopReturnsAtOnce(s) ==
  /\ cancelled /\ Moves(s, "waiting", "stopped")
  /\ UNCHANGED <<options, pc, completed, deadline, captureEnded, stopReceived, exited, writerVars,
                 activeVars, agentVars, packetVars, keylogVars>>

StopReturns(s) ==
  /\ done /\ Moves(s, "waiting", "stopped")
  /\ UNCHANGED <<options, pc, completed, deadline, captureEnded, stopReceived, exited, writerVars, activeVars,
                 agentVars, packetVars, keylogVars>>

\* flushActivePacketWriter: flush the registered writer, if there is one.
BeginSignalFlush ==
  /\ Moves("signal", "unstopped", "flushing")
  /\ ngwMu = "free" /\ ngwMu' = "signal"
  /\ IF registered THEN Enter("signal") ELSE UNCHANGED <<inside, raced>>
  /\ UNCHANGED <<options, pc, completed, deadline, captureEnded, stopReceived, exited, blockVars, fileOpen,
                 activeVars, agentVars, packetVars, keylogVars>>

EndSignalFlush ==
  /\ Moves("signal", "flushing", "flushed") /\ End("signal")
  /\ UNCHANGED <<options, pc, completed, deadline, captureEnded, stopReceived, exited, activeVars, agentVars,
                 packetVars, keylogVars>>
  /\ IF registered THEN FlushedOut ELSE UNCHANGED blockVars

\* os.Exit, or the main goroutine returns: nothing else of the program runs on.
Exit(s) ==
  /\ exited = "no" /\ exited' = s
  /\ \/ stopper[s] \in {"stopped", "flushed"}
     \/ s = "main" /\ stopper[s] = "unstopped"
     \/ s = "main" /\ "background" \in options /\ pc = "returned"
  /\ UNCHANGED <<options, pc, completed, deadline, captureEnded, stopReceived, stopper, writerVars, activeVars,
                 agentVars, packetVars, keylogVars>>

Stop(s) == CallStop(s) \/ StopReturns(s) \/ Exit(s)

--------------------------------------------------------------------------------
(* The other goroutines, and the world *)

\* flushLoop writes a packet whose window has passed.
BeginExpire ==
  /\ exited = "no" /\ "correlate" \in options /\ held > 0 /\ Begin("flusher")
  /\ pc \notin {"write", "writing", "drainNext", "drainWrite"}  \* these hold b.mu
  /\ held' = held - 1
  /\ UNCHANGED <<options, pc, completed, deadline, queue, taken, activeVars, agentVars, endVars, keylogVars>>

EndExpire ==
  /\ exited = "no" /\ "flusher" \in inside /\ EndWrite("flusher")
  /\ UNCHANGED <<options, pc, completed, deadline, activeVars, agentVars, packetVars, endVars, keylogVars>>

\* watchTLSKeylog: a tick, the offset read under the lock, the file without it ...
ReadSecrets ==
  /\ exited = "no" /\ watcher = "idle" /\ ngwMu = "free"
  /\ IF stopReceived THEN watcher' = "returned" /\ UNCHANGED reading
     ELSE /\ secrets > keylogOffset
          /\ watcher' = "read" /\ reading' = <<keylogOffset, secrets>>
  /\ UNCHANGED <<options, pc, completed, deadline, secrets, keylogOffset, dsb, flushedDsb, writerVars,
                 activeVars, agentVars, packetVars, endVars>>

\* ... and the DSB block written under it again.
BeginSecrets ==
  /\ exited = "no" /\ watcher = "read" /\ Begin("watcher")
  /\ watcher' = "write"
  /\ UNCHANGED <<options, pc, completed, deadline, secrets, keylogOffset, reading, dsb, flushedDsb,
                 activeVars, agentVars, packetVars, endVars>>

\* Mutant: the offset is not advanced.
EndSecretsAgain ==
  /\ exited = "no" /\ watcher = "write" /\ End("watcher")
  /\ watcher' = "idle" /\ reading' = <<0, 0>>
  /\ dsb' = Append(dsb, reading) /\ UNCHANGED <<keylogOffset, blockVars>>
  /\ UNCHANGED <<options, pc, completed, deadline, secrets, flushedDsb, activeVars, agentVars, packetVars,
                 endVars>>

\* Once the file is closed the writer may fail, and fails from then on.
EndSecrets ==
  /\ exited = "no" /\ watcher = "write" /\ End("watcher")
  /\ watcher' = "idle" /\ reading' = <<0, 0>>
  /\ \/ WriteSecrets(reading)
     \/ ~fileOpen /\ UNCHANGED <<dsb, keylogOffset, blockVars>>
  /\ UNCHANGED <<options, pc, completed, deadline, secrets, flushedDsb, activeVars, agentVars, packetVars,
                 endVars>>

\* An agent's record is acknowledged once it is in the channel.
Send ==
  /\ exited = "no" /\ serverUp /\ queue < ChanSize /\ sent < MaxPackets
  /\ sent' = sent + 1 /\ queue' = queue + 1
  /\ UNCHANGED <<options, pc, completed, deadline, serverUp, held, taken, writerVars, activeVars, endVars,
                 keylogVars>>

TimerFires ==
  /\ exited = "no" /\ ~deadline /\ pc \in {"loop", "handle", "write", "writing"}
  /\ deadline' = TRUE
  /\ UNCHANGED <<options, pc, completed, writerVars, activeVars, agentVars, packetVars, endVars, keylogVars>>

SecretLogged ==
  /\ exited = "no" /\ "keylog" \in options /\ secrets < MaxSecrets
  /\ secrets' = secrets + 1
  /\ UNCHANGED <<options, pc, completed, deadline, watcher, keylogOffset, reading, dsb, flushedDsb,
                 writerVars, activeVars, agentVars, packetVars, endVars>>

Flusher == BeginExpire \/ EndExpire
Watcher == ReadSecrets \/ BeginSecrets \/ EndSecrets
SignalFlush == BeginSignalFlush \/ EndSignalFlush

Next ==
  \/ Collector \/ EndLoop \/ TakePacket
  \/ \E s \in Stoppers : Ask(s) \/ Stop(s)
  \/ SignalFlush \/ Flusher \/ Watcher
  \/ Send \/ TimerFires \/ SecretLogged

Spec == Init /\ [][Next]_vars

\* Goroutines run, locks are handed to waiters (SF), select is fair between its
\* ready cases (SF on EndLoop), the timer fires, and app.Stop ends the UI.
\* Nothing makes a SIGTERM, the user or the agents act.
Fairness ==
  /\ SF_vars(Collector) /\ SF_vars(EndLoop) /\ WF_vars(TakePacket)
  /\ \A s \in Stoppers : SF_vars(Stop(s))
  /\ SF_vars(SignalFlush) /\ SF_vars(EndExpire) /\ SF_vars(EndSecrets) /\ WF_vars(TimerFires)
  /\ WF_vars(captureEnded /\ Ask("main"))

FairSpec == Spec /\ Fairness

--------------------------------------------------------------------------------
(* Properties *)

TypeOK ==
  /\ options \in Options
  /\ pc \in {"create", "register", "setStop", "embed", "listen", "loop", "handle", "write",
             "writing", "closeServer", "drain", "drainNext", "drainWrite", "flush", "flushing",
             "closeFile", "announce", "closeDone", "returned"}
  /\ completed \in BOOLEAN /\ deadline \in BOOLEAN /\ serverUp \in BOOLEAN /\ fileOpen \in BOOLEAN
  /\ registered \in BOOLEAN /\ stopSet \in BOOLEAN /\ cancelled \in BOOLEAN /\ done \in BOOLEAN
  /\ captureEnded \in BOOLEAN /\ stopReceived \in BOOLEAN /\ raced \in BOOLEAN
  /\ sent \in Nat /\ queue \in Nat /\ held \in Nat /\ taken \in Nat
  /\ buffered \in Nat /\ onDisk \in Nat /\ dsbOnDisk \in Nat /\ secrets \in Nat /\ keylogOffset \in Nat
  /\ ngwMu \in Goroutines \cup {"free"} /\ inside \subseteq Goroutines
  /\ stopper \in [Stoppers -> {"idle", "asking", "waiting", "unstopped", "flushing", "flushed",
                            "stopped"}]
  /\ exited \in Stoppers \cup {"no"}
  /\ watcher \in {"none", "idle", "read", "write", "returned"}
  /\ reading \in Nat \X Nat /\ dsb \in Seq(Nat \X Nat) /\ flushedDsb \in Nat

\* Every packet taken in is in the file, and its header.
AllOnDisk == held = 0 /\ buffered = 0 /\ onDisk = taken + 1

\* ... and the file is closed, with every DSB block that the writer was given before the end
\* of the deferred Flush, unless the key log watcher was in the writer together with that
\* Flush.  Of the blocks the watcher writes after it, it says nothing.
Saved ==
  /\ held = 0 /\ ~fileOpen
  /\ raced => "keylog" \in options
  /\ ~raced => AllOnDisk /\ flushedDsb <= dsbOnDisk

\* "Announce completion only after deferred buffer/file flushes have run": who
\* sees captureEnded, or the UI go away, finds them in the closed file.
CompletionAfterFlush == captureEnded => Saved

\* "stopActivePacketCapture waits for pending plaintext, PCAP and file flushes":
\* the SIGTERM handler, or the main goroutine, that has waited ends the process
\* without losing them, whatever the capture was doing when it asked.
StopWaits == \A s \in Stoppers : stopper[s] = "stopped" => Saved

\* "Register the writer so a SIGTERM can flush buffered packets before the process
\* exits; without this the last buffered packet(s) are lost": who finds no capture
\* to stop finds the writer to flush, or nothing left to flush.
NothingLeftToFlush ==
  [][\A s \in Stoppers :
       (stopper[s] = "asking" /\ stopper'[s] = "unstopped" /\ taken > 0)
         => registered \/ AllOnDisk]_vars

\* "ngwMu serializes all NgWriter writes": "NgWriter is not safe for concurrent use".
WriterExclusive == Cardinality(inside) <= 1

\* The secrets in the DSB blocks given to the writer are the key log file up to
\* keylogOffset: none is left out or repeated, although the file grows while it is
\* read.
SecretsInOrder ==
  /\ \A i \in DOMAIN dsb :
       dsb[i][1] = (IF i = 1 THEN 0 ELSE dsb[i - 1][2]) /\ dsb[i][1] < dsb[i][2]
  /\ keylogOffset = (IF dsb = <<>> THEN 0 ELSE dsb[Len(dsb)][2])
  /\ keylogOffset <= secrets

\* A capture that listens comes to an end: its deadline is enough, with no agent,
\* user or signal to wake it.
CaptureEnds == pc = "loop" ~> (captureEnded \/ exited # "no")

\* SIGTERM, and leaving the UI, end the process wherever the collector is: nobody
\* waits for a collector that is gone.
StoppersExit == \A s \in Stoppers : stopper[s] = "asking" ~> exited # "no"
================================================================================
