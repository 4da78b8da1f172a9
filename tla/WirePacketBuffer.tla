---------------------------- MODULE WirePacketBuffer ----------------------------
(***************************************************************************)
(* The buffer that holds captured wire packets back for one correlation    *)
(* window so that TLS plaintext arriving late can still be attached to the *)
(* packet it was sent in (cmd/packet_capture_wire_buffer.go).              *)
(*                                                                         *)
(* Two goroutines share it under b.mu: the packet collector, which calls   *)
(* Enqueue, handlePlaintextRecord and Close one after the other, and       *)
(* flushLoop.                                                              *)
(* Each iteration of the loops in a critical section is a step of its own. *)
(***************************************************************************)
EXTENDS WireMatch, Sequences

CONSTANTS
  WireRecords,       \* the wire packets the agents may report
  PlaintextRecords,  \* the plaintext records they may report
  TrustAnyTuple,     \* HandlePlaintext is called with any record, as its unit
                     \* tests do; FALSE in the program, whose collector asks
                     \* plaintextTupleVerified first
  MaxBuffered,       \* maxBufferedWirePackets (20000 in the program)
  MaxPackets,        \* bound: packets reported
  MaxPlaintexts,     \* bound: plaintext records reported
  Horizon            \* bound: the time of the last report

ASSUME RecordAssumption ==
  WireRecords \subseteq WireRecord /\ PlaintextRecords \subseteq PlaintextRecord
ASSUME BufferAssumption == MaxBuffered \in Nat \ {0} /\ TrustAnyTuple \in BOOLEAN
ASSUME BoundAssumption == MaxPackets \in Nat /\ MaxPlaintexts \in Nat /\ Horizon \in Nat

VARIABLES
  clock,        \* time.Now()
  packets,      \* b.packets: packets not yet looked at by the running loop
  keptPackets,  \* "remaining": those the running loop keeps
  pending,      \* b.pendingPlaintext, in the same two parts
  keptPending,
  pcap,         \* packets handed to the pcapng writer, in order
  jsonl,        \* plaintext records exported, in order
  mu,           \* who holds b.mu
  stage,        \* where the holder is in its critical section
  now,          \* the time it works with
  collector,    \* what the collector goroutine is doing
  arg,          \* the packet or record it is doing it with
  flusher,      \* flushLoop: running or returned
  stopped,      \* b.stopCh is closed
  arrivals,     \* number of packets enqueued
  received      \* number of plaintext records handled (plaintextPacketID)

collectorVars == <<collector, arg, arrivals, received>>
vars == <<clock, packets, keptPackets, pending, keptPending, pcap, jsonl,
          mu, stage, now, flusher, stopped, collectorVars>>

\* bufferedWirePacket; packetID 0 is one that is not annotated (ids start at 1).
Packet == [seq : Nat, wire : WireRecords, receivedAt : Nat, packetID : Nat]

\* pendingPlaintext; "data" is EnrichFromFilters(rec), recomputed when needed.
Plaintext == [id : Nat, rec : PlaintextRecords, receivedAt : Nat, ambiguous : BOOLEAN]

NoTuple == <<NoAddr, NoPort, NoAddr, NoPort>>
AnyAddr == Addrs \cup {NoAddr}

\* What an exported record says: PacketID, PcapAnnotated and its endpoints.
Exported == [id : Nat, annotated : BOOLEAN, rec : PlaintextRecords,
             tuple : AnyAddr \X AnyPort \X AnyAddr \X AnyPort]

NoArg == [op |-> "none"]

Init ==
  /\ clock = 0 /\ now = 0
  /\ packets = <<>> /\ keptPackets = <<>> /\ pending = <<>> /\ keptPending = <<>>
  /\ pcap = <<>> /\ jsonl = <<>>
  /\ mu = "free" /\ stage = "idle"
  /\ collector = "idle" /\ arg = NoArg
  /\ flusher = "running" /\ stopped = FALSE
  /\ arrivals = 0 /\ received = 0

--------------------------------------------------------------------------------
(* Matching one plaintext record against the buffered packets. *)

\* Mutant: a packet that carries a record may be given another.
CandidatesConsumed(pt) == {i \in DOMAIN packets : Score(packets[i], pt) >= 0}

Candidates(pt) ==
  {i \in DOMAIN packets : packets[i].packetID = 0 /\ Score(packets[i], pt) >= 0}

\* bestWireMatchWithAmbiguityLocked: the best candidate, unless another one is
\* within the margin of it.
Unrivalled(pt, i) ==
  /\ i \in Candidates(pt)
  /\ \A j \in Candidates(pt) \ {i} :
       Score(packets[i], pt) - Score(packets[j], pt) > AmbiguityMargin

\* Packets of two connections could carry the record, consumed ones included.
MultipleConnections(pt) ==
  \E i, j \in DOMAIN packets :
    /\ Score(packets[i], pt) >= 0 /\ HasTuple(packets[i].wire)
    /\ Score(packets[j], pt) >= 0 /\ HasTuple(packets[j].wire)
    /\ ~SameConnection(packets[i].wire, packets[j].wire)

\* Mutant: competing connections are not remembered.
ConsideredOnce(pt) == pt

\* The record with the memory of competing connections brought up to date.
Considered(pt) ==
  [pt EXCEPT !.ambiguous = @ \/ (~HasTuple(pt.rec) /\ MultipleConnections(pt))]

Final == collector = "close" /\ mu = "collector"

\* A record with a missing endpoint waits for the export window to pass.
Waits(pt, pkt) ==
  /\ ~Final /\ ~HasTuple(pt.rec)
  /\ clock - pt.receivedAt < Window /\ clock - pkt.receivedAt < Window

\* Mutant: only the connections buffered now are considered.
AttributableNow(pt, i) ==
  /\ Unrivalled(pt, i)
  /\ HasTuple(pt.rec) \/ ~MultipleConnections(pt)
  /\ Score(packets[i], pt) >= MinAnnotationScore(EnrichFromFilters(pt.rec))
  /\ ~Waits(pt, packets[i])

\* tryAnnotateLocked succeeds with packet i.
Attributable(pt, i) ==
  /\ Unrivalled(pt, i)
  /\ ~Considered(pt).ambiguous
  /\ Score(packets[i], pt) >= MinAnnotationScore(EnrichFromFilters(pt.rec))
  /\ ~Waits(pt, packets[i])

\* overlayCorrelatedWireToPlaintext: the packet's tuple, when it has one.
OverlaidTuple(wire, rec) == IF HasTuple(wire) THEN Tuple(wire) ELSE Tuple(EnrichFromFilters(rec))

\* plaintextTupleVerified: the kernel reported all of it during the TLS call.
Verified(rec) == rec.kernel /\ HasTuple(rec)

\* prepareUnmatchedPlaintext: a guessed tuple is removed, a true one is put in
\* network order.
PreparedTuple(rec) == IF Verified(rec) THEN Tuple(Oriented(rec)) ELSE NoTuple

\* finalizeUnmatchedLocked.
UnmatchedTuple(rec) == IF rec.kernel THEN PreparedTuple(rec) ELSE Tuple(rec)

Export(pt, annotated, tuple) ==
  jsonl' = Append(jsonl, [id |-> pt.id, annotated |-> annotated, rec |-> pt.rec, tuple |-> tuple])

\* tryAnnotateLocked followed by finalizePlaintextLocked.
Annotate(pt, i) ==
  /\ packets' = [packets EXCEPT ![i].packetID = pt.id]
  /\ Export(pt, TRUE, OverlaidTuple(packets[i].wire, pt.rec))

--------------------------------------------------------------------------------
(* Entering and leaving the critical section. *)

\* flushExpiredLocked skips the matching and the writing when nothing is buffered.
Enter(holder, time) ==
  /\ mu = "free" /\ mu' = holder
  /\ now' = time
  /\ stage' = IF packets = <<>> THEN "expire" ELSE "match"
  /\ UNCHANGED <<clock, packets, keptPackets, pending, keptPending, pcap, jsonl>>

\* The holder unlocks; its local variables die.
Leave(next) ==
  /\ mu' = "free" /\ stage' = "idle" /\ now' = 0
  /\ IF mu = "collector" THEN collector' = next /\ arg' = NoArg
     ELSE UNCHANGED <<collector, arg>>
  /\ UNCHANGED <<clock, flusher, stopped, arrivals, received>>

Goto(s) == stage' = s /\ UNCHANGED <<clock, mu, now, flusher, stopped, collectorVars>>

\* Enqueue reads the clock before it takes the lock.
CallEnqueue(wire) ==
  /\ collector = "idle" /\ arrivals < MaxPackets /\ clock <= Horizon
  /\ collector' = "enqueue" /\ arrivals' = arrivals + 1
  /\ arg' = [seq |-> arrivals + 1, wire |-> wire, receivedAt |-> clock, packetID |-> 0]
  /\ UNCHANGED <<clock, packets, keptPackets, pending, keptPending, pcap, jsonl,
                 mu, stage, now, flusher, stopped, received>>

LockEnqueue ==
  /\ collector = "enqueue"
  /\ Enter("collector", arg.receivedAt)
  /\ UNCHANGED <<flusher, stopped, collectorVars>>

\* handlePlaintextRecord gives the record the next PacketID.
Receive(rec, task) ==
  /\ collector = "idle" /\ received < MaxPlaintexts /\ clock <= Horizon
  /\ collector' = task /\ received' = received + 1
  /\ arg' = [id |-> received + 1, rec |-> rec, receivedAt |-> clock, ambiguous |-> FALSE]
  /\ UNCHANGED <<flusher, stopped, arrivals>>

\* Mutant: the tuple is not verified first.
LockPlaintextUnverified(rec) == Receive(rec, "plaintext") /\ Enter("collector", clock)

\* HandlePlaintext reads the clock once it has the lock.
LockPlaintext(rec) ==
  /\ TrustAnyTuple \/ Verified(rec)
  /\ Receive(rec, "plaintext")
  /\ Enter("collector", clock)

\* A record whose tuple is not verified goes straight to the JSONL file ...
ReceiveUnverified(rec) ==
  /\ ~TrustAnyTuple /\ ~Verified(rec)
  /\ Receive(rec, "unverified")
  /\ UNCHANGED <<clock, packets, keptPackets, pending, keptPending, pcap, jsonl, mu, stage, now>>

\* ... which flushLoop may be writing to as well, under b.mu.
ExportUnverified ==
  /\ collector = "unverified"
  /\ Export(arg, FALSE, PreparedTuple(arg.rec))
  /\ collector' = "idle" /\ arg' = NoArg
  /\ UNCHANGED <<clock, packets, keptPackets, pending, keptPending, pcap, mu, stage, now,
                 flusher, stopped, arrivals, received>>

\* Mutants: a tick is ignored unless there is plaintext, or there are packets, waiting.
LockTickForPlaintext ==
  /\ flusher = "running" /\ pending # <<>>
  /\ Enter("flusher", clock)
  /\ UNCHANGED <<flusher, stopped, collectorVars>>

LockTickForPackets ==
  /\ flusher = "running" /\ packets # <<>>
  /\ Enter("flusher", clock)
  /\ UNCHANGED <<flusher, stopped, collectorVars>>

\* flushLoop takes a tick; when stopCh is closed too, select may still choose it.
LockTick ==
  /\ flusher = "running"
  /\ Enter("flusher", clock)
  /\ UNCHANGED <<flusher, stopped, collectorVars>>

ReturnFlushLoop ==
  /\ flusher = "running" /\ mu # "flusher" /\ stopped
  /\ flusher' = "returned"
  /\ UNCHANGED <<clock, packets, keptPackets, pending, keptPending, pcap, jsonl,
                 mu, stage, now, stopped, collectorVars>>

\* Close: close(b.stopCh), then flushAll takes the lock.
CallClose ==
  /\ collector = "idle"
  /\ collector' = "close" /\ stopped' = TRUE
  /\ UNCHANGED <<clock, packets, keptPackets, pending, keptPending, pcap, jsonl,
                 mu, stage, now, flusher, arg, arrivals, received>>

LockClose ==
  /\ collector = "close" /\ mu = "free"
  /\ mu' = "collector" /\ stage' = "match" /\ now' = clock
  /\ UNCHANGED <<clock, packets, keptPackets, pending, keptPending, pcap, jsonl,
                 flusher, stopped, collectorVars>>

--------------------------------------------------------------------------------
(* The loops. *)

\* Mutant: Close leaves what is still young.
DueByAge(item) == now - item.receivedAt >= Window

\* An item is due when its window has passed, and at Close whatever its age.
Due(item) == Final \/ now - item.receivedAt >= Window

\* Mutant: a record that has been exported keeps waiting.
MatchNextKeeps ==
  /\ stage \in {"match", "rematch"} /\ pending # <<>>
  /\ pending' = Tail(pending)
  /\ keptPending' = Append(keptPending, Considered(Head(pending)))
  /\ IF \E i \in DOMAIN packets : Attributable(Head(pending), i)
     THEN \E i \in DOMAIN packets : Attributable(Head(pending), i) /\ Annotate(Head(pending), i)
     ELSE UNCHANGED <<packets, jsonl>>
  /\ UNCHANGED <<keptPackets, pcap>>
  /\ Goto(stage)

\* matchPendingAgainstWireLocked: "match" is the call that opens
\* flushExpiredLocked and flushAll, "rematch" the one that ends Enqueue.
MatchNext ==
  /\ stage \in {"match", "rematch"} /\ pending # <<>>
  /\ pending' = Tail(pending)
  /\ IF \E i \in DOMAIN packets : Attributable(Head(pending), i)
     THEN /\ \E i \in DOMAIN packets : Attributable(Head(pending), i) /\ Annotate(Head(pending), i)
          /\ UNCHANGED keptPending
     ELSE /\ keptPending' = Append(keptPending, Considered(Head(pending)))
          /\ UNCHANGED <<packets, jsonl>>
  /\ UNCHANGED <<keptPackets, pcap>>
  /\ Goto(stage)

MatchEnd ==
  /\ stage \in {"match", "rematch"} /\ pending = <<>>
  /\ pending' = keptPending /\ keptPending' = <<>>
  /\ IF stage = "match" THEN Goto("write") ELSE Leave("idle")
  /\ UNCHANGED <<packets, keptPackets, pcap, jsonl>>

WriteNext ==
  /\ stage = "write" /\ packets # <<>>
  /\ packets' = Tail(packets)
  /\ IF Due(Head(packets))
     THEN pcap' = Append(pcap, Head(packets)) /\ UNCHANGED keptPackets
     ELSE keptPackets' = Append(keptPackets, Head(packets)) /\ UNCHANGED pcap
  /\ UNCHANGED <<pending, keptPending, jsonl>>
  /\ Goto("write")

WriteEnd ==
  /\ stage = "write" /\ packets = <<>>
  /\ packets' = keptPackets /\ keptPackets' = <<>>
  /\ UNCHANGED <<pending, keptPending, pcap, jsonl>>
  /\ Goto("expire")

ExpireNext ==
  /\ stage = "expire" /\ pending # <<>>
  /\ pending' = Tail(pending)
  /\ IF Due(Head(pending))
     THEN /\ Export(Head(pending), FALSE, UnmatchedTuple(Head(pending).rec))
          /\ UNCHANGED keptPending
     ELSE keptPending' = Append(keptPending, Head(pending)) /\ UNCHANGED jsonl
  /\ UNCHANGED <<packets, keptPackets, pcap>>
  /\ Goto("expire")

ExpireEnd ==
  /\ stage = "expire" /\ pending = <<>>
  /\ pending' = keptPending /\ keptPending' = <<>>
  /\ IF mu = "collector" /\ collector # "close" THEN Goto("body") ELSE Leave("closed")
  /\ UNCHANGED <<packets, keptPackets, pcap, jsonl>>

\* Mutants: the buffer takes one packet too many; a full buffer is passed by.
EnqueueBodyLate ==
  /\ stage = "body" /\ collector = "enqueue"
  /\ IF Len(packets) <= MaxBuffered
     THEN packets' = Append(packets, arg) /\ UNCHANGED pcap
     ELSE packets' = Append(Tail(packets), arg) /\ pcap' = Append(pcap, Head(packets))
  /\ UNCHANGED <<keptPackets, pending, keptPending, jsonl>>
  /\ Goto("rematch")

EnqueueBodyNewest ==
  /\ stage = "body" /\ collector = "enqueue"
  /\ IF Len(packets) < MaxBuffered
     THEN packets' = Append(packets, arg) /\ UNCHANGED pcap
     ELSE pcap' = Append(pcap, arg) /\ UNCHANGED packets
  /\ UNCHANGED <<keptPackets, pending, keptPending, jsonl>>
  /\ Goto("rematch")

\* Enqueue: append, and write the oldest packet out when the buffer is full.
EnqueueBody ==
  /\ stage = "body" /\ collector = "enqueue"
  /\ IF Len(packets) < MaxBuffered
     THEN packets' = Append(packets, arg) /\ UNCHANGED pcap
     ELSE packets' = Append(Tail(packets), arg) /\ pcap' = Append(pcap, Head(packets))
  /\ UNCHANGED <<keptPackets, pending, keptPending, jsonl>>
  /\ Goto("rematch")

\* HandlePlaintext: annotate at once, or wait for a better time.
PlaintextBody ==
  /\ stage = "body" /\ collector = "plaintext"
  /\ IF \E i \in DOMAIN packets : Attributable(arg, i)
     THEN /\ \E i \in DOMAIN packets : Attributable(arg, i) /\ Annotate(arg, i)
          /\ UNCHANGED pending
     ELSE /\ pending' = Append(pending, Considered(arg))
          /\ UNCHANGED <<packets, jsonl>>
  /\ UNCHANGED <<keptPackets, keptPending, pcap>>
  /\ Leave("idle")

--------------------------------------------------------------------------------
\* Time stops once everything accepted by the Horizon has expired.
Advance ==
  /\ clock < Horizon + Window
  /\ clock' = clock + 1
  /\ UNCHANGED <<packets, keptPackets, pending, keptPending, pcap, jsonl,
                 mu, stage, now, flusher, stopped, collectorVars>>

Step ==
  \/ MatchNext \/ MatchEnd \/ WriteNext \/ WriteEnd \/ ExpireNext \/ ExpireEnd
  \/ EnqueueBody \/ PlaintextBody

Next ==
  \/ Advance
  \/ \E wire \in WireRecords : CallEnqueue(wire)
  \/ \E rec \in PlaintextRecords : LockPlaintext(rec) \/ ReceiveUnverified(rec)
  \/ ExportUnverified \/ LockEnqueue \/ LockTick \/ ReturnFlushLoop \/ CallClose \/ LockClose
  \/ Step

Spec == Init /\ [][Next]_vars

\* A goroutine that can run does; the ticker keeps firing; sync.Mutex hands the
\* lock to a waiter that has been starved (SF).  Nothing makes Close happen.
Fairness ==
  /\ WF_vars(Advance) /\ WF_vars(Step) /\ WF_vars(ExportUnverified)
  /\ SF_vars(LockEnqueue) /\ SF_vars(LockTick) /\ SF_vars(LockClose)

FairSpec == Spec /\ Fairness

--------------------------------------------------------------------------------
(* Properties *)

\* The states of the two goroutines, and the data they share, have their types.
\* (wirePacketBuffer, bufferedWirePacket and pendingPlaintext.)
TypeOK ==
  /\ clock \in Nat /\ now \in Nat
  /\ packets \in Seq(Packet) /\ keptPackets \in Seq(Packet) /\ pcap \in Seq(Packet)
  /\ pending \in Seq(Plaintext) /\ keptPending \in Seq(Plaintext)
  /\ jsonl \in Seq(Exported)
  /\ mu \in {"free", "collector", "flusher"}
  /\ stage \in {"idle", "match", "write", "expire", "body", "rematch"}
  /\ collector \in {"idle", "enqueue", "plaintext", "unverified", "close", "closed"}
  /\ arg \in Packet \cup Plaintext \cup {NoArg}
  /\ collector = "enqueue" => arg \in Packet
  /\ collector \in {"plaintext", "unverified"} => arg \in Plaintext
  /\ flusher \in {"running", "returned"} /\ stopped \in BOOLEAN
  /\ arrivals \in Nat /\ received \in Nat

\* The packet, or the plaintext record, that the collector has taken in but not
\* yet put into the buffer or exported.
HeldPackets == IF collector = "enqueue" /\ stage # "rematch" THEN 1 ELSE 0
HeldPlaintexts == IF collector \in {"plaintext", "unverified"} THEN 1 ELSE 0

\* Packets reach the pcapng file once each and in the order they arrived,
\* whatever mixture of expiry, overflow and Close writes them; the ones not yet
\* written are all still in the buffer, in the same order.
PcapInArrivalOrder ==
  /\ \A i \in DOMAIN pcap : pcap[i].seq = i
  /\ \A i \in DOMAIN keptPackets : keptPackets[i].seq = Len(pcap) + i
  /\ \A i \in DOMAIN packets : packets[i].seq = Len(pcap) + Len(keptPackets) + i
  /\ arrivals = Len(pcap) + Len(keptPackets) + Len(packets) + HeldPackets

\* Why the order holds: who may be where in its critical section ...
ControlInv ==
  /\ mu = "free" <=> stage = "idle"
  /\ mu = "collector" => collector \in {"enqueue", "plaintext", "close"}
  /\ collector = "plaintext" => mu = "collector"
  /\ stage = "body" => mu = "collector" /\ collector \in {"enqueue", "plaintext"}
  /\ stage = "rematch" => mu = "collector" /\ collector = "enqueue"
  /\ stage # "write" => keptPackets = <<>>
  /\ stage \notin {"match", "rematch", "expire"} => keptPending = <<>>

\* ... and the buffer is sorted by age, so that what a loop keeps is younger than
\* anything it writes, although Enqueue reads the clock before it has the lock.
AgeInv ==
  /\ \A i \in DOMAIN keptPackets, j \in DOMAIN packets :
       keptPackets[i].receivedAt <= packets[j].receivedAt
  /\ \A i, j \in DOMAIN keptPackets :
       i <= j => keptPackets[i].receivedAt <= keptPackets[j].receivedAt
  /\ \A i, j \in DOMAIN packets : i <= j => packets[i].receivedAt <= packets[j].receivedAt
  /\ \A i \in DOMAIN packets : packets[i].receivedAt <= clock
  /\ \A i \in DOMAIN keptPackets : keptPackets[i].receivedAt <= clock
  /\ HeldPackets = 1 =>
       /\ arg.seq = arrivals /\ arg.receivedAt <= clock
       /\ \A i \in DOMAIN packets : packets[i].receivedAt <= arg.receivedAt
       /\ \A i \in DOMAIN keptPackets : keptPackets[i].receivedAt <= arg.receivedAt
  /\ stage = "write" => \A i \in DOMAIN keptPackets : ~Due(keptPackets[i])

OrderInv == TypeOK /\ ControlInv /\ AgeInv /\ PcapInArrivalOrder

\* Every plaintext record is in one place only: waiting or exported, never both
\* and never twice, so no PacketID appears on two JSONL lines or is dropped.
PlaintextExportedOnce ==
  LET waiting == keptPending \o pending
  IN  /\ Len(jsonl) + Len(waiting) + HeldPlaintexts = received
      /\ \A i, j \in DOMAIN jsonl : jsonl[i].id = jsonl[j].id => i = j
      /\ \A i, j \in DOMAIN waiting : waiting[i].id = waiting[j].id => i = j
      /\ \A i \in DOMAIN jsonl, j \in DOMAIN waiting : jsonl[i].id # waiting[j].id

Elements(s) == {s[i] : i \in DOMAIN s}
AllPackets == Elements(pcap) \cup Elements(keptPackets) \cup Elements(packets)
Annotated == {p \in AllPackets : p.packetID # 0}

\* The two output files agree: a packet annotated with a PacketID has its JSONL
\* record with PcapAnnotated=true and the packet's own endpoints, a record that
\* says it is annotated has exactly one such packet.
OutputsAgree ==
  /\ \A p \in Annotated : \E e \in Elements(jsonl) :
       e.annotated /\ e.id = p.packetID /\ e.tuple = OverlaidTuple(p.wire, e.rec)
  /\ \A e \in Elements(jsonl) : e.annotated => \E p \in Annotated : p.packetID = e.id
  /\ \A p, q \in Annotated : p.packetID = q.packetID => p.seq = q.seq

\* README: "An annotation identifies the connection".  An annotated packet is of
\* the connection the kernel reported for its record (a guessed tuple proves
\* nothing), travels the way the bytes did, and is no bare TCP acknowledgement.
AnnotationNamesConnection ==
  \A e \in Elements(jsonl), p \in Annotated :
    (e.annotated /\ e.id = p.packetID) =>
      /\ Verified(e.rec) /\ Tuple(p.wire) = Tuple(Oriented(e.rec))
      /\ p.wire.tcpLen # 0

\* The buffer never holds more than its limit, even while a loop runs over it.
BufferBounded == Len(keptPackets) + Len(packets) <= MaxBuffered

\* Close leaves nothing behind, although flushLoop may take one more tick: every
\* packet reported is in the pcapng file and every record in the JSONL file.
CloseFlushesAll ==
  collector = "closed" => Len(pcap) = arrivals /\ Len(jsonl) = received

\* Between two critical sections no record with a missing endpoint has forgotten
\* that two connections compete for it.
CompetitorsRemembered ==
  mu = "free" =>
    \A pt \in Elements(pending) :
      ~HasTuple(pt.rec) /\ MultipleConnections(pt) => pt.ambiguous

\* "Once competing connections are observed, expiry of one candidate must not
\* make a remaining connection appear uniquely attributable": such a record is
\* exported unannotated, whatever is left of the buffer by then.
AmbiguityIsFinal ==
  [][\A pt \in Elements(pending) \cup Elements(keptPending) :
       pt.ambiguous => \A e \in Elements(jsonl') : e.id = pt.id => ~e.annotated]_vars

\* Expiry alone empties the buffer: without Close, each packet is written and
\* each record exported, as flushLoop keeps ticking.
PacketsEventuallyWritten ==
  \A n \in 1..MaxPackets : (arrivals >= n) ~> (Len(pcap) >= n)
PlaintextEventuallyExported ==
  \A n \in 1..MaxPlaintexts :
    (received >= n) ~> (\E e \in Elements(jsonl) : e.id = n)

\* The buffer keeps the promise of CaptureLedger: seen from its output files, each
\* of its steps writes the next packet, exports one record, or changes nothing.
Ledger == INSTANCE CaptureLedger WITH
            written <- Len(pcap),
            exported <- {e.id : e \in Elements(jsonl)},
            link <- {<<p.seq, p.packetID>> : p \in Annotated}
LedgerRefinement == Ledger!LedgerSpec
================================================================================
