-------------------------- MODULE PacketCaptureProofs --------------------------
(* Nothing is announced, and nobody who waited exits, before the packets are on *)
(* disk: for any options, channel size, limit and bounds, and any interleaving  *)
(* in which the key log watcher keeps out of the deferred Flush.                *)
EXTENDS PacketCapture, TLAPS

USE DEF Stoppers

\* What CaptureInv needs of the types.
Counts ==
  /\ buffered \in Nat /\ onDisk \in Nat /\ held \in Nat /\ taken \in Nat
  /\ stopper = [s \in Stoppers |-> stopper[s]]

\* Who holds ngwMu is inside the writer, and is where it says.
Locked ==
  /\ ngwMu = "flusher" <=> "flusher" \in inside
  /\ ngwMu = "watcher" <=> watcher = "write"
  /\ ngwMu = "signal" <=> stopper["signal"] = "flushing"
  /\ ngwMu = "collector" <=> pc \in {"writing", "drainWrite"}
  /\ pc \in {"write", "writing", "drainNext", "drainWrite"} => "flusher" \notin inside

\* A packet that was taken from the channel and is in no counter: the collector
\* is about to hold it, or it is on its way into the writer.
InHand ==
  (IF pc \in {"handle", "writing", "drainWrite"} THEN 1 ELSE 0)
    + (IF "flusher" \in inside THEN 1 ELSE 0)

\* The output file could not be created; then there was nothing to stop.
Failed ==
  /\ pc \in {"create", "closeFile", "announce", "closeDone", "returned"}
  /\ taken = 0 /\ held = 0 /\ buffered = 0 /\ onDisk = 0 /\ "flusher" \notin inside
  /\ watcher = "none" /\ ~completed /\ ~stopSet
  /\ \A s \in Stoppers : stopper[s] \notin {"waiting", "stopped"}

Conserved ==
  /\ pc # "create"
  /\ raced \/ onDisk + buffered + held + InHand = taken + 1

\* What the deferred calls have done by the time the collector is at pc.
Drained ==
  pc \in {"flush", "flushing", "closeFile", "announce", "closeDone", "returned"}
    => held = 0 /\ "flusher" \notin inside
Flushed ==
  pc \in {"closeFile", "announce", "closeDone", "returned"} => raced \/ buffered = 0
Closed == pc \in {"announce", "closeDone", "returned"} => ~fileOpen

Ended ==
  /\ captureEnded => completed /\ pc \in {"closeDone", "returned"}
  /\ done => pc = "returned"
  /\ \A s \in Stoppers : stopper[s] = "stopped" => done

\* With RaceInv, the inductive invariant behind CompletionAfterFlush and StopWaits.
CaptureInv ==
  Counts /\ Locked /\ (Failed \/ Conserved) /\ Drained /\ Flushed /\ Closed /\ Ended

\* What a flush does to the packets, whole or garbled.
LEMMA FlushOutcome ==
  ASSUME Counts, FlushedOut
  PROVE  /\ buffered' \in Nat /\ onDisk' \in Nat
         /\ raced \/ (buffered' = 0 /\ onDisk' = onDisk + buffered)
         /\ buffered = 0 => buffered' = 0 /\ onDisk' = onDisk
BY DEF Counts, FlushedOut, PushedOut, Garbled

\* CaptureInv is preserved by the steps of startPacketCollector ...
LEMMA CollectorStep ==
  ASSUME CaptureInv, Collector \/ EndLoop \/ TakePacket
  PROVE  CaptureInv'
<1> USE DEF CaptureInv, Counts, Locked, Failed, Conserved, InHand, Drained, Flushed, Closed, Ended,
            Only, Goto, blockVars, writerVars, activeVars, agentVars, packetVars, endVars, keylogVars
<1>1. CASE Create
  BY <1>1 DEF Create
<1>2. CASE Register
  BY <1>2 DEF Register
<1>3. CASE SetStop
  BY <1>3 DEF SetStop
<1>4. CASE Embed
  <2>1. /\ buffered' \in Nat /\ onDisk' \in Nat /\ raced' = raced
        /\ raced \/ onDisk' + buffered' = onDisk + buffered
    BY <1>4, FlushOutcome DEF Embed, WriteSecrets
  <2>2. /\ UNCHANGED <<held, taken, stopper, inside, ngwMu, completed, stopSet, captureEnded, done,
                      fileOpen>>
        /\ pc = "embed" /\ pc' = "listen" /\ watcher = "none" /\ watcher' = "idle"
    BY <1>4 DEF Embed
  <2>3. Conserved /\ ~Failed
    BY <2>2
  <2>4. Conserved'
    BY <2>1, <2>2, <2>3
  <2>5. Counts'
    BY <2>1, <2>2
  <2>6. Locked'
    BY <2>2
  <2>7. Drained' /\ Flushed' /\ Closed' /\ Ended'
    BY <2>2
  <2> QED BY <2>4, <2>5, <2>6, <2>7
<1>5. CASE Listen
  BY <1>5 DEF Listen
<1>6. CASE Hold
  BY <1>6 DEF Hold
<1>7. CASE BeginPacket
  <2>1. raced => raced'
    BY <1>7 DEF BeginPacket, Begin, Enter
  <2>2. inside' = inside \cup {"collector"}
    BY <1>7 DEF BeginPacket, Begin, Enter
  <2> QED BY <1>7, <2>1, <2>2 DEF BeginPacket, Begin
<1>8. CASE EndPacket
  BY <1>8 DEF EndPacket, EndWrite, End, Leave
<1>9. CASE CheckSize
  BY <1>9 DEF CheckSize
<1>10. CASE CloseServer
  BY <1>10 DEF CloseServer
<1>11. CASE LockDrain
  BY <1>11 DEF LockDrain
<1>12. CASE BeginDrain
  <2>1. raced => raced'
    BY <1>12 DEF BeginDrain, Begin, Enter
  <2>2. inside' = inside \cup {"collector"}
    BY <1>12 DEF BeginDrain, Begin, Enter
  <2> QED BY <1>12, <2>1, <2>2 DEF BeginDrain, Begin
<1>13. CASE EndDrain
  BY <1>13 DEF EndDrain, EndWrite, End, Leave
<1>14. CASE Clear
  BY <1>14 DEF Clear
<1>15. CASE BeginFlush
  BY <1>15 DEF BeginFlush, Enter
<1>16. CASE EndFlush
  BY <1>16, FlushOutcome DEF EndFlush, Leave
<1>17. CASE CloseFile
  BY <1>17 DEF CloseFile
<1>18. CASE Announce
  BY <1>18 DEF Announce
<1>19. CASE CloseDone
  BY <1>19 DEF CloseDone
<1>20. CASE EndLoop
  BY <1>20 DEF EndLoop
<1>21. CASE TakePacket
  BY <1>21 DEF TakePacket
<1> QED
  BY <1>1, <1>2, <1>3, <1>4, <1>5, <1>6, <1>7, <1>8, <1>9, <1>10, <1>11, <1>12, <1>13, <1>14,
     <1>15, <1>16, <1>17, <1>18, <1>19, <1>20, <1>21 DEF Collector

\* ... and by those of the stoppers, flushLoop, the watcher and the world.
LEMMA OtherStep ==
  ASSUME CaptureInv,
         \/ \E s \in Stoppers : Ask(s) \/ Stop(s)
         \/ SignalFlush \/ Flusher \/ Watcher \/ Send \/ TimerFires \/ SecretLogged
  PROVE  CaptureInv'
<1> USE DEF CaptureInv, Counts, Locked, Failed, Conserved, InHand, Drained, Flushed, Closed, Ended,
            Moves, blockVars, writerVars, activeVars, agentVars, packetVars, endVars, keylogVars
<1>1. ASSUME NEW s \in Stoppers, Ask(s) PROVE CaptureInv'
  BY <1>1 DEF Ask
<1>2. ASSUME NEW s \in Stoppers, CallStop(s) PROVE CaptureInv'
  BY <1>2 DEF CallStop
<1>3. ASSUME NEW s \in Stoppers, StopReturns(s) PROVE CaptureInv'
  BY <1>3 DEF StopReturns
<1>4. ASSUME NEW s \in Stoppers, Exit(s) PROVE CaptureInv'
  BY <1>4 DEF Exit
<1>5. CASE BeginSignalFlush
  BY <1>5 DEF BeginSignalFlush, Enter
<1>6. CASE EndSignalFlush
  <2>1. stopper'["signal"] = "flushed" /\ stopper'["main"] = stopper["main"]
    BY <1>6 DEF EndSignalFlush
  <2>2. /\ raced \/ onDisk' + buffered' = onDisk + buffered
        /\ onDisk' \in Nat /\ buffered' \in Nat
    BY <1>6, FlushOutcome DEF EndSignalFlush
  <2>3. ngwMu = "signal" /\ (buffered = 0 => buffered' = 0 /\ onDisk' = onDisk)
    BY <1>6, FlushOutcome DEF EndSignalFlush
  <2>4. Counts' /\ Locked'
    BY <1>6, <2>2, <2>3 DEF EndSignalFlush, End, Leave
  <2>5. (Failed \/ Conserved)'
    BY <1>6, <2>1, <2>2, <2>3 DEF EndSignalFlush, End, Leave
  <2>6. Drained' /\ Flushed' /\ Closed' /\ Ended'
    BY <1>6, <2>1, <2>3 DEF EndSignalFlush, End, Leave
  <2> QED BY <2>4, <2>5, <2>6
<1>7. CASE BeginExpire
  <2>1. raced => raced'
    BY <1>7 DEF BeginExpire, Begin, Enter
  <2>2. inside' = inside \cup {"flusher"}
    BY <1>7 DEF BeginExpire, Begin, Enter
  <2> QED BY <1>7, <2>1, <2>2 DEF BeginExpire, Begin
<1>8. CASE EndExpire
  <2>1. /\ buffered' \in Nat /\ onDisk' \in Nat
        /\ onDisk' + buffered' = onDisk + buffered + 1
    BY <1>8 DEF EndExpire, EndWrite
  <2>2. /\ ngwMu' = "free" /\ "flusher" \in inside /\ inside' = inside \ {"flusher"}
        /\ UNCHANGED <<raced, pc, held, taken, stopper, watcher, completed, stopSet, captureEnded,
                      done, fileOpen>>
    BY <1>8 DEF EndExpire, EndWrite, End, Leave
  <2>3. Conserved /\ ~Failed
    BY <2>2
  <2>4. Conserved'
    BY <2>1, <2>2, <2>3
  <2>5. Counts' /\ Locked'
    BY <2>1, <2>2
  <2>6. Drained' /\ Flushed' /\ Closed' /\ Ended'
    BY <2>2
  <2> QED BY <2>4, <2>5, <2>6
<1>9. CASE ReadSecrets
  BY <1>9 DEF ReadSecrets
<1>10. CASE BeginSecrets
  <2>1. /\ ngwMu = "free" /\ ngwMu' = "watcher" /\ watcher = "read" /\ watcher' = "write"
        /\ inside' = inside \cup {"watcher"} /\ (raced => raced')
        /\ UNCHANGED <<pc, held, taken, buffered, onDisk, stopper, completed, stopSet, captureEnded,
                      done, fileOpen>>
    BY <1>10 DEF BeginSecrets, Begin, Enter
  <2>2. Conserved /\ ~Failed
    BY <2>1
  <2> QED BY <2>1, <2>2
<1>11. CASE EndSecrets
  <2>1. /\ buffered' \in Nat /\ onDisk' \in Nat
        /\ raced \/ onDisk' + buffered' = onDisk + buffered
        /\ buffered = 0 => buffered' = 0
    BY <1>11, FlushOutcome DEF EndSecrets, WriteSecrets
  <2>2. /\ ngwMu = "watcher" /\ ngwMu' = "free" /\ watcher = "write" /\ watcher' = "idle"
        /\ inside' = inside \ {"watcher"} /\ raced' = raced
        /\ UNCHANGED <<pc, held, taken, stopper, completed, stopSet, captureEnded, done, fileOpen>>
    BY <1>11 DEF EndSecrets, End, Leave
  <2>3. Conserved /\ ~Failed
    BY <2>2
  <2>4. Conserved'
    BY <2>1, <2>2, <2>3
  <2>5. Counts'
    BY <2>1, <2>2
  <2>6. Locked'
    BY <2>2
  <2>7. Drained' /\ Flushed' /\ Closed' /\ Ended'
    BY <2>1, <2>2
  <2> QED BY <2>4, <2>5, <2>6, <2>7
<1>12. CASE Send \/ TimerFires \/ SecretLogged
  BY <1>12 DEF Send, TimerFires, SecretLogged
<1> QED
  BY <1>1, <1>2, <1>3, <1>4, <1>5, <1>6, <1>7, <1>8, <1>9, <1>10, <1>11, <1>12
  DEF Stop, SignalFlush, Flusher, Watcher

\* So it holds throughout: packets are conserved up to the file, and teardown is in order.
LEMMA CaptureInvariant == Spec => []CaptureInv
<1>1. Init => CaptureInv
  BY DEF Init, CaptureInv, Counts, Locked, Failed, Drained, Flushed, Closed, Ended
<1>2. CaptureInv /\ [Next]_vars => CaptureInv'
  <2>1. CaptureInv /\ UNCHANGED vars => CaptureInv'
    BY DEF CaptureInv, Counts, Locked, Failed, Conserved, InHand, Drained, Flushed, Closed, Ended,
           vars, blockVars, writerVars, activeVars, agentVars, packetVars, endVars, keylogVars
  <2> QED BY <2>1, CollectorStep, OtherStep DEF Next
<1> QED BY <1>1, <1>2, PTL DEF Spec

\* Who is in the writer, and that only the key log watcher can get in beside the
\* deferred Flush.
RaceInv ==
  /\ inside \subseteq Goroutines
  /\ "collector" \in inside => pc \in {"writing", "drainWrite", "flushing"}
  /\ "watcher" \in inside => watcher = "write"
  /\ "signal" \in inside => stopper["signal"] = "flushing" /\ registered
  /\ registered => pc \notin {"create", "register", "flush", "flushing", "closeFile", "announce",
                             "closeDone", "returned"}
  /\ (pc = "embed" \/ watcher # "none") => "keylog" \in options
  /\ raced => watcher # "none"

\* RaceInv is preserved by the steps of startPacketCollector ...
LEMMA RaceCollectorStep ==
  ASSUME CaptureInv, RaceInv, Collector \/ EndLoop \/ TakePacket
  PROVE  RaceInv'
<1> USE DEF RaceInv, Goroutines, Only, Goto, blockVars, writerVars, activeVars, agentVars,
            packetVars, endVars, keylogVars
<1>1. CASE Create \/ Register \/ SetStop \/ Listen
  <2>1. CASE Create
    BY <2>1 DEF Create
  <2>2. CASE Register
    BY <2>2 DEF Register
  <2>3. CASE SetStop
    BY <2>3 DEF SetStop
  <2>4. CASE Listen
    BY <2>4 DEF Listen
  <2> QED BY ONLY <1>1, <2>1, <2>2, <2>3, <2>4
<1>2. CASE Embed
  BY <1>2 DEF Embed
<1>3. CASE Hold \/ CheckSize \/ CloseServer \/ LockDrain
  <2>1. CASE Hold
    BY <2>1 DEF Hold
  <2>2. CASE CheckSize
    BY <2>2 DEF CheckSize
  <2>3. CASE CloseServer
    BY <2>3 DEF CloseServer
  <2>4. CASE LockDrain
    BY <2>4 DEF LockDrain
  <2> QED BY ONLY <1>3, <2>1, <2>2, <2>3, <2>4
<1>4. CASE BeginPacket \/ BeginDrain
  <2>1. inside = {}
    BY <1>4 DEF BeginPacket, BeginDrain, Begin, CaptureInv, Locked
  <2> QED BY <1>4, <2>1 DEF BeginPacket, BeginDrain, Begin, Enter
<1>5. CASE EndPacket \/ EndDrain
  <2>1. CASE EndPacket
    BY <2>1 DEF EndPacket, EndWrite, End, Leave
  <2>2. CASE EndDrain
    BY <2>2 DEF EndDrain, EndWrite, End, Leave
  <2> QED BY ONLY <1>5, <2>1, <2>2
<1>6. CASE Clear
  BY <1>6 DEF Clear, CaptureInv, Locked
<1>7. CASE BeginFlush
  <2>1. inside \subseteq {"watcher"}
    BY <1>7 DEF BeginFlush, CaptureInv, Drained
  <2> QED BY <1>7, <2>1 DEF BeginFlush, Enter
<1>8. CASE EndFlush
  BY <1>8 DEF EndFlush, Leave
<1>9. CASE CloseFile \/ Announce \/ CloseDone \/ EndLoop \/ TakePacket
  <2>1. CASE CloseFile
    BY <2>1 DEF CloseFile
  <2>2. CASE Announce
    BY <2>2 DEF Announce
  <2>3. CASE CloseDone
    BY <2>3 DEF CloseDone
  <2>4. CASE EndLoop
    BY <2>4 DEF EndLoop
  <2>5. CASE TakePacket
    BY <2>5 DEF TakePacket
  <2> QED BY ONLY <1>9, <2>1, <2>2, <2>3, <2>4, <2>5
<1> QED
  BY <1>1, <1>2, <1>3, <1>4, <1>5, <1>6, <1>7, <1>8, <1>9 DEF Collector

\* ... and by all others.
LEMMA RaceOtherStep ==
  ASSUME CaptureInv, RaceInv,
         \/ \E s \in Stoppers : Ask(s) \/ Stop(s)
         \/ SignalFlush \/ Flusher \/ Watcher \/ Send \/ TimerFires \/ SecretLogged
  PROVE  RaceInv'
<1> USE DEF RaceInv, Goroutines, Moves, blockVars, writerVars, activeVars, agentVars, packetVars,
            endVars, keylogVars
<1>1. ASSUME NEW s \in Stoppers, Ask(s) \/ CallStop(s) \/ StopReturns(s) PROVE RaceInv'
  <2>1. stopper["signal"] = "flushing" => stopper'["signal"] = "flushing"
    BY <1>1 DEF Ask, CallStop, StopReturns, CaptureInv, Counts
  <2>2. UNCHANGED <<options, pc, inside, watcher, raced, registered>>
    BY <1>1 DEF Ask, CallStop, StopReturns
  <2> QED BY <2>1, <2>2
<1>2. ASSUME NEW s \in Stoppers, Exit(s) PROVE RaceInv'
  BY <1>2 DEF Exit
<1>3. CASE BeginSignalFlush
  <2>1. registered => inside = {}
    BY <1>3 DEF BeginSignalFlush, CaptureInv, Locked
  <2>2. stopper'["signal"] = "flushing"
    BY <1>3 DEF BeginSignalFlush, CaptureInv, Counts
  <2>3. UNCHANGED <<options, pc, watcher, registered>>
    BY <1>3 DEF BeginSignalFlush
  <2>4. inside' = (IF registered THEN {"signal"} ELSE inside) /\ (raced' => raced)
    BY <1>3, <2>1 DEF BeginSignalFlush, Enter
  <2> QED BY <2>1, <2>2, <2>3, <2>4
<1>4. CASE EndSignalFlush
  BY <1>4 DEF EndSignalFlush, End, Leave
<1>5. CASE BeginExpire
  <2>1. inside = {}
    BY <1>5 DEF BeginExpire, Begin, CaptureInv, Locked, Drained, Counts
  <2> QED BY <1>5, <2>1 DEF BeginExpire, Begin, Enter
<1>6. CASE EndExpire
  BY <1>6 DEF EndExpire, EndWrite, End, Leave
<1>7. CASE ReadSecrets
  BY <1>7 DEF ReadSecrets
<1>8. CASE BeginSecrets
  BY <1>8 DEF BeginSecrets, Begin, Enter
<1>9. CASE EndSecrets
  BY <1>9 DEF EndSecrets, End, Leave
<1>10. CASE Send \/ TimerFires \/ SecretLogged
  <2>1. CASE Send
    BY <2>1 DEF Send
  <2>2. CASE TimerFires
    BY <2>2 DEF TimerFires
  <2>3. CASE SecretLogged
    BY <2>3 DEF SecretLogged
  <2> QED BY ONLY <1>10, <2>1, <2>2, <2>3
<1> QED
  BY <1>1, <1>2, <1>3, <1>4, <1>5, <1>6, <1>7, <1>8, <1>9, <1>10
  DEF Stop, SignalFlush, Flusher, Watcher

\* So only a capture with a key log can have two goroutines in the writer.
LEMMA RaceInvariant == Spec => []RaceInv
<1>1. Init => RaceInv
  BY DEF Init, RaceInv, Goroutines
<1>2. CaptureInv /\ RaceInv /\ [Next]_vars => RaceInv'
  <2>1. RaceInv /\ UNCHANGED vars => RaceInv'
    BY DEF RaceInv, vars, blockVars, writerVars, activeVars, endVars, keylogVars
  <2> QED BY <2>1, RaceCollectorStep, RaceOtherStep DEF Next
<1> QED BY <1>1, <1>2, CaptureInvariant, PTL DEF Spec

\* The DSB blocks are the key log up to the offset, and a piece that was read
\* starts at the offset, as long as only the watcher moves it.
SecretsInv ==
  /\ keylogOffset \in Nat /\ secrets \in Nat /\ dsb \in Seq(Nat \X Nat)
  /\ reading \in Nat \X Nat
  /\ SecretsInOrder
  /\ watcher = "none" => dsb = <<>>
  /\ watcher \in {"read", "write"} =>
       reading[1] = keylogOffset /\ reading[1] < reading[2] /\ reading[2] <= secrets

\* A piece that starts at the offset keeps the DSB blocks in order.
LEMMA AppendSecrets ==
  ASSUME SecretsInv, NEW piece \in Nat \X Nat, WriteSecrets(piece),
         piece[1] = keylogOffset, piece[1] < piece[2], piece[2] <= secrets'
  PROVE  dsb' \in Seq(Nat \X Nat) /\ SecretsInOrder' /\ keylogOffset' = piece[2]
<1> USE DEF WriteSecrets
<1>1. dsb \in Seq(Nat \X Nat) /\ Len(dsb) \in Nat
  BY DEF SecretsInv
<1>0. keylogOffset' = piece[2]
  <2>1. keylogOffset' = keylogOffset + (piece[2] - piece[1])
    OBVIOUS
  <2> QED BY <2>1
<1>2. /\ dsb' \in Seq(Nat \X Nat) /\ Len(dsb') = Len(dsb) + 1 /\ dsb'[Len(dsb')] = piece
      /\ DOMAIN dsb' = 1..(Len(dsb) + 1) /\ \A i \in 1..Len(dsb) : dsb'[i] = dsb[i]
  BY <1>1
<1>3. Len(dsb) \in Nat
  BY <1>1
<1>4. \A i \in 1..Len(dsb) : dsb'[i] = dsb[i]
  BY <1>2
<1>5. \A i \in DOMAIN dsb' :
        /\ dsb'[i][1] = (IF i = 1 THEN 0 ELSE dsb'[i - 1][2])
        /\ dsb'[i][1] < dsb'[i][2]
  <2> SUFFICES ASSUME NEW i \in 1..(Len(dsb) + 1)
               PROVE  /\ dsb'[i][1] = (IF i = 1 THEN 0 ELSE dsb'[i - 1][2])
                      /\ dsb'[i][1] < dsb'[i][2]
    BY <1>2
  <2>1. CASE i \in 1..Len(dsb)
    <3>1. dsb'[i] = dsb[i] /\ (i # 1 => dsb'[i - 1] = dsb[i - 1])
      <4>1. i # 1 => i - 1 \in 1..Len(dsb)
        BY <2>1, <1>3
      <4> QED BY <2>1, <4>1, <1>4
    <3>2. /\ dsb[i][1] = (IF i = 1 THEN 0 ELSE dsb[i - 1][2])
          /\ dsb[i][1] < dsb[i][2]
      <4>1. i \in DOMAIN dsb
        BY <1>1, <2>1
      <4> QED BY <4>1 DEF SecretsInv, SecretsInOrder
    <3> QED BY <3>1, <3>2
  <2>2. CASE i = Len(dsb) + 1
    <3>1. dsb'[i] = piece /\ (i # 1 => dsb'[i - 1] = dsb[i - 1])
      <4>1. i # 1 => i - 1 \in 1..Len(dsb)
        BY <2>2, <1>3
      <4> QED BY <1>2, <2>2, <4>1, <1>4
    <3>2. keylogOffset = (IF i = 1 THEN 0 ELSE dsb[i - 1][2])
      BY <1>1, <2>2 DEF SecretsInv, SecretsInOrder
    <3> QED BY <3>1, <3>2
  <2> QED BY <1>1, <2>1, <2>2
<1>6. dsb' # <<>>
  BY <1>2
<1> QED BY <1>0, <1>2, <1>5, <1>6 DEF SecretsInOrder

\* SecretsInv holds throughout, although the file grows between reading and writing.
LEMMA SecretsInvariant == Spec => []SecretsInv
<1> USE LimitAssumption
<1>1. Init => SecretsInv
  BY DEF Init, SecretsInv, SecretsInOrder
<1>2. SecretsInv /\ [Next]_vars => SecretsInv'
  <2> SUFFICES ASSUME SecretsInv, [Next]_vars PROVE SecretsInv'
    OBVIOUS
  <2>1. CASE Embed
    <3>1. CASE secrets = 0
      BY <2>1, <3>1 DEF Embed, SecretsInv, SecretsInOrder
    <3>2. CASE secrets # 0
      <4>1. keylogOffset = 0
        BY <2>1 DEF Embed, SecretsInv, SecretsInOrder
      <4>2. WriteSecrets(<<0, secrets>>) /\ secrets' = secrets /\ secrets > 0
        BY <2>1, <3>2 DEF Embed, SecretsInv
      <4>3. <<0, secrets>> \in Nat \X Nat
        BY DEF SecretsInv
      <4>4. /\ dsb' \in Seq(Nat \X Nat) /\ SecretsInOrder'
            /\ keylogOffset' = secrets /\ watcher' = "idle" /\ reading' = reading
        BY <2>1, <4>1, <4>2, <4>3, AppendSecrets DEF Embed, SecretsInv
      <4> QED BY <4>2, <4>4 DEF SecretsInv
    <3> QED BY <3>1, <3>2
  <2>2. CASE EndSecrets
    <3>1. CASE UNCHANGED <<dsb, keylogOffset>>
      BY <2>2, <3>1 DEF EndSecrets, SecretsInv, SecretsInOrder
    <3>2. CASE WriteSecrets(reading)
      <4>1. /\ dsb' \in Seq(Nat \X Nat) /\ SecretsInOrder'
            /\ keylogOffset' = reading[2] /\ reading[2] \in Nat
        BY <2>2, <3>2, AppendSecrets DEF EndSecrets, SecretsInv
      <4> QED BY <2>2, <4>1 DEF EndSecrets, SecretsInv
    <3> QED BY <2>2, <3>1, <3>2 DEF EndSecrets
  <2>3. CASE ReadSecrets \/ BeginSecrets \/ SecretLogged
    <3>1. CASE ReadSecrets
      BY <3>1 DEF ReadSecrets, SecretsInv, SecretsInOrder
    <3>2. CASE BeginSecrets
      BY <3>2 DEF BeginSecrets, SecretsInv, SecretsInOrder
    <3>3. CASE SecretLogged
      BY <3>3 DEF SecretLogged, SecretsInv, SecretsInOrder
    <3> QED BY <2>3, <3>1, <3>2, <3>3
  <2>4. CASE UNCHANGED <<watcher, secrets, keylogOffset, reading, dsb>>
    BY <2>4 DEF SecretsInv, SecretsInOrder
  <2>5. \/ Embed \/ EndSecrets \/ ReadSecrets \/ BeginSecrets \/ SecretLogged
        \/ UNCHANGED <<watcher, secrets, keylogOffset, reading, dsb>>
    BY DEF keylogVars, Next, Collector, EndLoop, TakePacket, Stop, SignalFlush, Flusher, Watcher, Create, Register,
           SetStop, Listen, Hold, BeginPacket, EndPacket, CheckSize, CloseServer, LockDrain,
           BeginDrain, EndDrain, Clear, BeginFlush, EndFlush, CloseFile, Announce, CloseDone,
           Ask, CallStop, StopReturns, Exit, BeginSignalFlush, EndSignalFlush,
           BeginExpire, EndExpire, Send, TimerFires, vars
  <2> QED BY <2>1, <2>2, <2>3, <2>4, <2>5
<1> QED BY <1>1, <1>2, PTL DEF Spec

\* The key log reaches the pcapng file in order, without a gap or a repetition.
THEOREM SecretsCorrect == Spec => []SecretsInOrder
<1>1. SecretsInv => SecretsInOrder
  BY DEF SecretsInv
<1> QED BY <1>1, SecretsInvariant, PTL

\* No more DSB blocks are on disk than the writer was given; no fewer than there were at the
\* deferred Flush, if it was alone in the writer.
DsbInv ==
  /\ dsbOnDisk \in 0..Len(dsb)
  /\ flushedDsb \in Nat
  /\ raced \/ flushedDsb <= dsbOnDisk

LEMMA DsbInvariant == Spec => []DsbInv
<1>1. Init => DsbInv
  BY DEF Init, DsbInv
<1>2. SecretsInv /\ SecretsInv' /\ DsbInv /\ [Next]_vars => DsbInv'
  <2> SUFFICES ASSUME SecretsInv, SecretsInv', DsbInv, [Next]_vars
               PROVE  DsbInv'
    OBVIOUS
  <2>1. Len(dsb) \in Nat /\ Len(dsb') \in Nat
    BY DEF SecretsInv
  <2>2. CASE Embed \/ EndSecrets
    <3>1. Len(dsb') \in {Len(dsb), Len(dsb) + 1}
      BY <2>2 DEF Embed, EndSecrets, WriteSecrets, SecretsInv
    <3>2. dsbOnDisk' \in {dsbOnDisk, Len(dsb)} \cup (dsbOnDisk..Len(dsb'))
      BY <2>2 DEF Embed, EndSecrets, WriteSecrets, FlushedOut, PushedOut, Garbled, blockVars
    <3>3. UNCHANGED <<raced, flushedDsb>>
      BY <2>2 DEF Embed, EndSecrets, End, Leave
    <3> QED BY <2>1, <3>1, <3>2, <3>3 DEF DsbInv
  <2>3. CASE EndPacket \/ EndDrain \/ EndSignalFlush \/ EndExpire
    <3>1. dsb' = dsb /\ flushedDsb' = flushedDsb
      BY <2>3 DEF EndPacket, EndDrain, EndSignalFlush, EndExpire, keylogVars
    <3>2. dsbOnDisk' \in {dsbOnDisk, Len(dsb)} \cup (dsbOnDisk..Len(dsb'))
      BY <2>3 DEF EndPacket, EndDrain, EndSignalFlush, EndExpire, EndWrite, FlushedOut, PushedOut,
                  Garbled, blockVars
    <3>3. raced' = raced
      BY <2>3 DEF EndPacket, EndDrain, EndSignalFlush, EndExpire, EndWrite, End, Leave
    <3> QED BY <2>1, <3>1, <3>2, <3>3 DEF DsbInv
  <2>4. CASE EndFlush
    <3>1. dsb' = dsb /\ flushedDsb' = Len(dsb) /\ raced' = raced
      BY <2>4 DEF EndFlush, Leave
    <3>2. dsbOnDisk' \in dsbOnDisk..Len(dsb') /\ (raced \/ dsbOnDisk' = Len(dsb))
      BY <2>1, <2>4, <3>1 DEF EndFlush, FlushedOut, PushedOut, Garbled, DsbInv
    <3> QED BY <2>1, <3>1, <3>2 DEF DsbInv
  <2>5. CASE UNCHANGED <<dsb, dsbOnDisk, flushedDsb>> /\ (raced => raced')
    BY <2>5 DEF DsbInv
  <2>6. \/ Embed \/ EndSecrets \/ EndPacket \/ EndDrain \/ EndFlush \/ EndSignalFlush \/ EndExpire
        \/ (UNCHANGED <<dsb, dsbOnDisk, flushedDsb>> /\ (raced => raced'))
    BY DEF Next, Collector, EndLoop, TakePacket, Stop, SignalFlush, Flusher, Watcher, Create, Register,
           SetStop, Listen, Hold, BeginPacket, CheckSize, CloseServer, LockDrain, BeginDrain, Clear,
           BeginFlush, CloseFile, Announce, CloseDone, Ask, CallStop, StopReturns, Exit,
           BeginSignalFlush, BeginExpire, Begin, Enter, ReadSecrets, BeginSecrets, Send, TimerFires,
           SecretLogged, vars, blockVars, writerVars, keylogVars
  <2> QED BY <2>2, <2>3, <2>4, <2>5, <2>6
<1> QED BY <1>1, <1>2, SecretsInvariant, PTL DEF Spec

\* What is in the counters once the file is closed after a capture that opened it.
LEMMA ClosedIsSaved ==
  ASSUME CaptureInv, RaceInv, DsbInv, pc \in {"closeDone", "returned"}, ~Failed
  PROVE  Saved
BY DEF CaptureInv, RaceInv, DsbInv, Counts, Conserved, InHand, Drained, Flushed, Closed, Saved, AllOnDisk

\* onLimitReached runs after every packet taken in, and every DSB block from before the
\* deferred Flush, is in the closed file, unless the key log watcher wrote during it.
THEOREM CompletionCorrect == Spec => []CompletionAfterFlush
<1>1. CaptureInv /\ RaceInv /\ DsbInv => CompletionAfterFlush
  BY ClosedIsSaved DEF CaptureInv, Ended, Failed, CompletionAfterFlush
<1> QED BY <1>1, CaptureInvariant, RaceInvariant, DsbInvariant, PTL

\* Whoever stopActivePacketCapture has made wait leaves them in the closed file, with
\* the same exception.
THEOREM StopCorrect == Spec => []StopWaits
<1>1. CaptureInv /\ RaceInv /\ DsbInv => StopWaits
  BY ClosedIsSaved DEF CaptureInv, Ended, Failed, StopWaits
<1> QED BY <1>1, CaptureInvariant, RaceInvariant, DsbInvariant, PTL

\* The type invariant, in parts that do not depend on each other; the key log's
\* part is SecretsInv, because only its order keeps keylogOffset a number.
TypeControl ==
  /\ options \in Options
  /\ pc \in {"create", "register", "setStop", "embed", "listen", "loop", "handle", "write",
             "writing", "closeServer", "drain", "drainNext", "drainWrite", "flush", "flushing",
             "closeFile", "announce", "closeDone", "returned"}
  /\ ngwMu \in Goroutines \cup {"free"} /\ inside \subseteq Goroutines
  /\ stopper \in [Stoppers -> {"idle", "asking", "waiting", "unstopped", "flushing", "flushed",
                            "stopped"}]
  /\ exited \in Stoppers \cup {"no"}
  /\ watcher \in {"none", "idle", "read", "write", "returned"}
TypeFlags ==
  /\ completed \in BOOLEAN /\ deadline \in BOOLEAN /\ serverUp \in BOOLEAN /\ fileOpen \in BOOLEAN
  /\ registered \in BOOLEAN /\ stopSet \in BOOLEAN /\ cancelled \in BOOLEAN /\ done \in BOOLEAN
  /\ captureEnded \in BOOLEAN /\ stopReceived \in BOOLEAN /\ raced \in BOOLEAN
TypeCounts ==
  /\ sent \in Nat /\ queue \in Nat /\ held \in Nat /\ taken \in Nat
  /\ buffered \in Nat /\ onDisk \in Nat

\* Every step leaves the program counters, the lock and the stoppers in their types.
LEMMA TypeControlStep ==
  ASSUME TypeControl, [Next]_vars PROVE TypeControl'
<1> USE DEF TypeControl, Goroutines, Only, Goto, Begin, End, Enter, Leave, EndWrite, FlushedOut,
            PushedOut, Garbled, WriteSecrets, Moves,
            blockVars, writerVars, activeVars, agentVars, packetVars, endVars, keylogVars
<1>1. CASE Create \/ Register \/ SetStop \/ Listen \/ EndLoop \/ TakePacket
  BY <1>1 DEF Create, Register, SetStop, Listen, EndLoop, TakePacket
<1>2. CASE Embed
  BY <1>2 DEF Embed
<1>3. CASE Hold \/ BeginPacket \/ EndPacket \/ CheckSize
  BY <1>3 DEF Hold, BeginPacket, EndPacket, CheckSize
<1>4. CASE CloseServer \/ LockDrain \/ BeginDrain \/ EndDrain \/ Clear
  BY <1>4 DEF CloseServer, LockDrain, BeginDrain, EndDrain, Clear
<1>5. CASE BeginFlush \/ EndFlush \/ CloseFile \/ Announce \/ CloseDone
  BY <1>5 DEF BeginFlush, EndFlush, CloseFile, Announce, CloseDone
<1>6. CASE \E s \in Stoppers : Ask(s) \/ Stop(s)
  <2>1. ASSUME NEW s \in Stoppers, Ask(s) \/ StopReturns(s) PROVE TypeControl'
    <3>1. stopper' \in [Stoppers -> {"idle", "asking", "waiting", "unstopped", "flushing",
                                     "flushed", "stopped"}]
      BY <2>1 DEF Ask, StopReturns
    <3>2. UNCHANGED <<options, pc, ngwMu, inside, exited, watcher>>
      BY <2>1 DEF Ask, StopReturns
    <3> QED BY <3>1, <3>2
  <2>2. ASSUME NEW s \in Stoppers, CallStop(s) PROVE TypeControl'
    BY <2>2 DEF CallStop
  <2>3. ASSUME NEW s \in Stoppers, Exit(s) PROVE TypeControl'
    BY <2>3 DEF Exit
  <2> QED BY <1>6, <2>1, <2>2, <2>3 DEF Stop
<1>7. CASE BeginSignalFlush \/ EndSignalFlush \/ BeginExpire \/ EndExpire
  BY <1>7 DEF BeginSignalFlush, EndSignalFlush, BeginExpire, EndExpire
<1>8. CASE ReadSecrets \/ BeginSecrets \/ EndSecrets
  BY <1>8 DEF ReadSecrets, BeginSecrets, EndSecrets
<1>9. CASE Send \/ TimerFires \/ SecretLogged
  BY <1>9 DEF Send, TimerFires, SecretLogged
<1>10. CASE UNCHANGED vars
  BY <1>10 DEF vars
<1> QED
  BY <1>1, <1>2, <1>3, <1>4, <1>5, <1>6, <1>7, <1>8, <1>9, <1>10
  DEF Next, Collector, SignalFlush, Flusher, Watcher

\* Every step leaves the flags Boolean.
LEMMA TypeFlagsStep ==
  ASSUME TypeFlags, [Next]_vars PROVE TypeFlags'
<1> USE DEF TypeFlags, Goroutines, Only, Goto, Begin, End, Enter, Leave, EndWrite, FlushedOut,
            PushedOut, Garbled, WriteSecrets, Moves,
            blockVars, writerVars, activeVars, agentVars, packetVars, endVars, keylogVars
<1>1. CASE Create \/ Register \/ SetStop \/ Listen \/ EndLoop \/ TakePacket
  <2>1. CASE Create
    BY <2>1 DEF Create
  <2>2. CASE Register
    BY <2>2 DEF Register
  <2>3. CASE SetStop
    BY <2>3 DEF SetStop
  <2>4. CASE TakePacket
    BY <2>4 DEF TakePacket
  <2>5. CASE Listen
    BY <2>5 DEF Listen
  <2>6. CASE EndLoop
    BY <2>6 DEF EndLoop
  <2> QED BY ONLY <1>1, <2>1, <2>2, <2>3, <2>4, <2>5, <2>6
<1>2. CASE Embed
  BY <1>2 DEF Embed
<1>3. CASE Hold \/ BeginPacket \/ EndPacket \/ CheckSize
  <2>1. CASE Hold
    BY <2>1 DEF Hold
  <2>2. CASE BeginPacket
    BY <2>2 DEF BeginPacket
  <2>3. CASE EndPacket
    BY <2>3 DEF EndPacket
  <2>4. CASE CheckSize
    BY <2>4 DEF CheckSize
  <2> QED BY ONLY <1>3, <2>1, <2>2, <2>3, <2>4
<1>4. CASE CloseServer \/ LockDrain \/ BeginDrain \/ EndDrain \/ Clear
  <2>1. CASE CloseServer
    BY <2>1 DEF CloseServer
  <2>2. CASE LockDrain
    BY <2>2 DEF LockDrain
  <2>3. CASE BeginDrain
    BY <2>3 DEF BeginDrain
  <2>4. CASE EndDrain
    BY <2>4 DEF EndDrain
  <2>5. CASE Clear
    BY <2>5 DEF Clear
  <2> QED BY ONLY <1>4, <2>1, <2>2, <2>3, <2>4, <2>5
<1>5. CASE BeginFlush \/ EndFlush \/ CloseFile \/ Announce \/ CloseDone
  <2>1. CASE BeginFlush
    BY <2>1 DEF BeginFlush
  <2>2. CASE EndFlush
    BY <2>2 DEF EndFlush
  <2>3. CASE CloseFile
    BY <2>3 DEF CloseFile
  <2>4. CASE Announce
    BY <2>4 DEF Announce
  <2>5. CASE CloseDone
    BY <2>5 DEF CloseDone
  <2> QED BY ONLY <1>5, <2>1, <2>2, <2>3, <2>4, <2>5
<1>6. CASE \E s \in Stoppers : Ask(s) \/ Stop(s)
  <2>1. ASSUME NEW s \in Stoppers, Ask(s) PROVE TypeFlags'
    BY <2>1 DEF Ask
  <2>2. ASSUME NEW s \in Stoppers, CallStop(s) PROVE TypeFlags'
    BY <2>2 DEF CallStop
  <2>3. ASSUME NEW s \in Stoppers, StopReturns(s) \/ Exit(s) PROVE TypeFlags'
    BY <2>3 DEF StopReturns, Exit
  <2> QED BY ONLY <1>6, <2>1, <2>2, <2>3 DEF Stop
<1>7. CASE BeginSignalFlush \/ EndSignalFlush \/ BeginExpire \/ EndExpire
  <2>1. CASE BeginSignalFlush
    BY <2>1 DEF BeginSignalFlush
  <2>2. CASE EndSignalFlush
    BY <2>2 DEF EndSignalFlush
  <2>3. CASE BeginExpire
    BY <2>3 DEF BeginExpire
  <2>4. CASE EndExpire
    BY <2>4 DEF EndExpire
  <2> QED BY ONLY <1>7, <2>1, <2>2, <2>3, <2>4
<1>8. CASE ReadSecrets \/ BeginSecrets \/ EndSecrets
  <2>1. CASE ReadSecrets
    BY <2>1 DEF ReadSecrets
  <2>2. CASE BeginSecrets
    BY <2>2 DEF BeginSecrets
  <2>3. CASE EndSecrets
    BY <2>3 DEF EndSecrets
  <2> QED BY ONLY <1>8, <2>1, <2>2, <2>3
<1>9. CASE Send \/ TimerFires \/ SecretLogged
  <2>1. CASE Send
    BY <2>1 DEF Send
  <2>2. CASE TimerFires
    BY <2>2 DEF TimerFires
  <2>3. CASE SecretLogged
    BY <2>3 DEF SecretLogged
  <2> QED BY ONLY <1>9, <2>1, <2>2, <2>3
<1>10. CASE UNCHANGED vars
  BY <1>10 DEF vars
<1> QED
  BY <1>1, <1>2, <1>3, <1>4, <1>5, <1>6, <1>7, <1>8, <1>9, <1>10
  DEF Next, Collector, SignalFlush, Flusher, Watcher

\* No counter goes below zero: a packet is written only where one is held.
LEMMA TypeCountsStep ==
  ASSUME TypeCounts, [Next]_vars PROVE TypeCounts'
<1> USE DEF TypeCounts, Goroutines, Only, Goto, Begin, End, Enter, Leave, EndWrite, FlushedOut,
            PushedOut, Garbled, WriteSecrets, Moves,
            blockVars, writerVars, activeVars, agentVars, packetVars, endVars, keylogVars
<1>1. CASE Create \/ Register \/ SetStop \/ Listen \/ EndLoop \/ TakePacket
  BY <1>1 DEF Create, Register, SetStop, Listen, EndLoop, TakePacket
<1>2. CASE Embed
  BY <1>2 DEF Embed
<1>3. CASE Hold \/ BeginPacket \/ EndPacket \/ CheckSize
  BY <1>3 DEF Hold, BeginPacket, EndPacket, CheckSize
<1>4. CASE CloseServer \/ LockDrain \/ BeginDrain \/ EndDrain \/ Clear
  BY <1>4 DEF CloseServer, LockDrain, BeginDrain, EndDrain, Clear
<1>5. CASE BeginFlush \/ EndFlush \/ CloseFile \/ Announce \/ CloseDone
  BY <1>5 DEF BeginFlush, EndFlush, CloseFile, Announce, CloseDone
<1>6. CASE \E s \in Stoppers : Ask(s) \/ Stop(s)
  <2>1. UNCHANGED <<blockVars, agentVars, packetVars>>
    BY <1>6 DEF Ask, Stop, CallStop, StopReturns, Exit
  <2> QED BY <2>1
<1>7. CASE BeginSignalFlush \/ EndSignalFlush \/ BeginExpire \/ EndExpire
  BY <1>7 DEF BeginSignalFlush, EndSignalFlush, BeginExpire, EndExpire
<1>8. CASE ReadSecrets \/ BeginSecrets \/ EndSecrets
  BY <1>8 DEF ReadSecrets, BeginSecrets, EndSecrets
<1>9. CASE Send \/ TimerFires \/ SecretLogged
  BY <1>9 DEF Send, TimerFires, SecretLogged
<1>10. CASE UNCHANGED vars
  BY <1>10 DEF vars
<1> QED
  BY <1>1, <1>2, <1>3, <1>4, <1>5, <1>6, <1>7, <1>8, <1>9, <1>10
  DEF Next, Collector, SignalFlush, Flusher, Watcher

\* The locations, counters and flags of the capture keep their types.
THEOREM CaptureTypeCorrect == Spec => []TypeOK
<1> DEFINE Types == TypeControl /\ TypeFlags /\ TypeCounts
<1>1. Init => Types
  <2>1. Init => TypeControl
    BY DEF Init, TypeControl, Goroutines
  <2>2. Init => TypeFlags
    BY DEF Init, TypeFlags
  <2>3. Init => TypeCounts
    BY DEF Init, TypeCounts
  <2> QED BY <2>1, <2>2, <2>3
<1>2. Types /\ [Next]_vars => Types'
  BY TypeControlStep, TypeFlagsStep, TypeCountsStep
<1>3. Spec => []Types
  BY <1>1, <1>2, PTL DEF Spec
<1>4. Types /\ SecretsInv /\ DsbInv => TypeOK
  BY DEF DsbInv, TypeOK, TypeControl, TypeFlags, TypeCounts, SecretsInv
<1> QED BY <1>3, <1>4, SecretsInvariant, DsbInvariant, PTL
================================================================================
