------------------------- MODULE WirePacketBufferProofs -------------------------
(* Proofs for WirePacketBuffer, for any records, filters, window, limits and   *)
(* bounds: its type; the order of the pcapng file; what it writes to its two   *)
(* files, where nothing is lost or written twice and the two agree; and that   *)
(* it keeps the promise of CaptureLedger.                                      *)
EXTENDS WirePacketBuffer, WireMatchProofs, TLAPS

TupleType == AnyAddr \X AnyPort \X AnyAddr \X AnyPort

\* Whatever the hints and the outcome, an exported record has endpoints.
LEMMA OverlaidTuples ==
  ASSUME NEW rec \in PlaintextRecords, NEW wire \in WireRecords
  PROVE  OverlaidTuple(wire, rec) \in TupleType
<1>1. SinglePort \in AnyPort /\ SinglePeerIP \in AnyAddr
  <2>1. SinglePort \in AnyPort
    <3>1. Filters.ports \subseteq Port
      BY FilterAssumption
    <3>2. SinglePort \in Filters.ports \/ SinglePort = 0
      BY DEF SinglePort
    <3>3. 0 \in Port
      BY DEF Port
    <3> QED BY <3>1, <3>2, <3>3 DEF AnyPort
  <2>2. SinglePeerIP \in AnyAddr
    BY FilterAssumption DEF SinglePeerIP, AnyAddr
  <2> QED BY <2>1, <2>2
<1>2. rec \in PlaintextRecord /\ wire \in WireRecord
  BY RecordAssumption
<1>3. Tuple(wire) \in TupleType
  BY <1>2 DEF WireRecord, Tuple, TupleType, AnyAddr
<1>4. Tuple(EnrichFromFilters(rec)) \in TupleType
  BY <1>1, <1>2 DEF PlaintextRecord, Tuple, TupleType, AnyAddr, EnrichFromFilters, WithPort
<1> QED BY <1>3, <1>4 DEF OverlaidTuple

\* A record's own tuple and its prepared tuple have the fields of a tuple.
LEMMA UnmatchedTuples ==
  ASSUME NEW rec \in PlaintextRecords
  PROVE  UnmatchedTuple(rec) \in TupleType /\ PreparedTuple(rec) \in TupleType
<1>1. rec \in PlaintextRecord
  BY RecordAssumption
<1>2. Tuple(rec) \in TupleType /\ Tuple(Oriented(rec)) \in TupleType
  BY <1>1 DEF PlaintextRecord, Tuple, TupleType, AnyAddr, Oriented
<1>3. NoTuple \in TupleType
  BY DEF NoTuple, TupleType, AnyAddr, AnyPort
<1> QED BY <1>2, <1>3 DEF UnmatchedTuple, PreparedTuple

\* Annotating a packet changes no other field, and no other packet.
LEMMA AnnotateType ==
  ASSUME TypeOK, NEW pt \in Plaintext, NEW i \in DOMAIN packets, Annotate(pt, i)
  PROVE  /\ packets' \in Seq(Packet) /\ jsonl' \in Seq(Exported)
         /\ Len(packets') = Len(packets) /\ DOMAIN packets' = DOMAIN packets
         /\ \A j \in DOMAIN packets :
              packets'[j] = IF j = i THEN [packets[j] EXCEPT !.packetID = pt.id] ELSE packets[j]
<1>1. packets \in Seq(Packet) /\ pt.id \in Nat /\ pt.rec \in PlaintextRecords
  BY DEF TypeOK, Plaintext
<1>2. packets' = [packets EXCEPT ![i].packetID = pt.id]
  BY DEF Annotate
<1>3. \A j \in DOMAIN packets : packets[j] \in Packet
  BY <1>1
<1>4. \A j \in DOMAIN packets :
        /\ packets'[j] = IF j = i THEN [packets[j] EXCEPT !.packetID = pt.id] ELSE packets[j]
        /\ packets'[j] \in Packet
  BY <1>1, <1>2, <1>3 DEF Packet
<1>5. packets' \in Seq(Packet) /\ Len(packets') = Len(packets) /\ DOMAIN packets' = DOMAIN packets
  BY <1>1, <1>2, <1>4
<1>6. packets[i].wire \in WireRecords
  BY <1>3 DEF Packet
<1>7. jsonl' \in Seq(Exported)
  BY <1>1, <1>6, OverlaidTuples DEF Annotate, Export, Exported, TupleType, TypeOK
<1> QED BY <1>4, <1>5, <1>7

\* The scan leaves the record it looks at a plaintext record of the same id.
LEMMA ConsideredType ==
  ASSUME NEW pt \in Plaintext
  PROVE  Considered(pt) \in Plaintext /\ Considered(pt).id = pt.id
BY DEF Considered, Plaintext

\* The types of the buffer and of the goroutines that share it are invariant.
THEOREM TypeCorrect == Spec => []TypeOK
<1>1. Init => TypeOK
  <2>1. <<>> \in Seq(Packet) /\ <<>> \in Seq(Plaintext) /\ <<>> \in Seq(Exported)
    OBVIOUS
  <2> SUFFICES ASSUME Init PROVE TypeOK
    OBVIOUS
  <2>2. /\ packets \in Seq(Packet) /\ keptPackets \in Seq(Packet) /\ pcap \in Seq(Packet)
        /\ pending \in Seq(Plaintext) /\ keptPending \in Seq(Plaintext) /\ jsonl \in Seq(Exported)
    BY <2>1 DEF Init
  <2> QED BY <2>2 DEF Init, TypeOK
<1>2. TypeOK /\ [Next]_vars => TypeOK'
  <2> SUFFICES ASSUME TypeOK, [Next]_vars PROVE TypeOK'
    OBVIOUS
  <2>1. CASE Advance
    BY <2>1 DEF Advance, TypeOK, collectorVars
  <2>2. ASSUME NEW wire \in WireRecords, CallEnqueue(wire) PROVE TypeOK'
    BY <2>2 DEF CallEnqueue, TypeOK, Packet
  <2>3. ASSUME NEW rec \in PlaintextRecords, LockPlaintext(rec) PROVE TypeOK'
    BY <2>3 DEF LockPlaintext, Receive, Enter, TypeOK, Plaintext
  <2>4. CASE LockEnqueue
    BY <2>4 DEF LockEnqueue, Enter, TypeOK, Packet, collectorVars
  <2>5. CASE LockTick
    BY <2>5 DEF LockTick, Enter, TypeOK, collectorVars
  <2>6. CASE ReturnFlushLoop
    BY <2>6 DEF ReturnFlushLoop, TypeOK, collectorVars
  <2>7. CASE CallClose
    BY <2>7 DEF CallClose, TypeOK
  <2>8. CASE LockClose
    BY <2>8 DEF LockClose, TypeOK, collectorVars
  <2>9. CASE MatchNext
    <3>1. Head(pending) \in Plaintext /\ pending' \in Seq(Plaintext)
      BY <2>9 DEF MatchNext, TypeOK
    <3>2. CASE \E i \in DOMAIN packets : Attributable(Head(pending), i)
      <4>1. PICK i \in DOMAIN packets : Annotate(Head(pending), i)
        BY <2>9, <3>2 DEF MatchNext
      <4>2. packets' \in Seq(Packet) /\ jsonl' \in Seq(Exported)
        BY <3>1, <4>1, AnnotateType
      <4> QED BY <2>9, <3>1, <3>2, <4>2 DEF MatchNext, Goto, TypeOK, collectorVars
    <3>3. CASE ~\E i \in DOMAIN packets : Attributable(Head(pending), i)
      <4>1. Append(keptPending, Considered(Head(pending))) \in Seq(Plaintext)
        BY <3>1, ConsideredType DEF TypeOK
      <4> QED BY <2>9, <3>1, <3>3, <4>1 DEF MatchNext, Goto, TypeOK, collectorVars
    <3> QED BY <3>2, <3>3
  <2>10. CASE MatchEnd
    BY <2>10 DEF MatchEnd, Goto, Leave, TypeOK, collectorVars
  <2>11. CASE WriteNext
    <3>1. Head(packets) \in Packet /\ packets' \in Seq(Packet)
      BY <2>11 DEF WriteNext, TypeOK
    <3>2. pcap' \in Seq(Packet) /\ keptPackets' \in Seq(Packet)
      <4>1. pcap \in Seq(Packet) /\ keptPackets \in Seq(Packet)
        BY DEF TypeOK
      <4>2. CASE Due(Head(packets))
        <5>1. pcap' = Append(pcap, Head(packets)) /\ keptPackets' = keptPackets
          BY <2>11, <4>2 DEF WriteNext
        <5> QED BY <3>1, <4>1, <5>1
      <4>3. CASE ~Due(Head(packets))
        <5>1. keptPackets' = Append(keptPackets, Head(packets)) /\ pcap' = pcap
          BY <2>11, <4>3 DEF WriteNext
        <5> QED BY <3>1, <4>1, <5>1
      <4> QED BY <4>2, <4>3
    <3> QED BY <2>11, <3>1, <3>2 DEF WriteNext, Goto, TypeOK, collectorVars
  <2>12. CASE WriteEnd
    BY <2>12 DEF WriteEnd, Goto, TypeOK, collectorVars
  <2>13. CASE ExpireNext
    <3>1. Head(pending) \in Plaintext /\ pending' \in Seq(Plaintext)
      BY <2>13 DEF ExpireNext, TypeOK
    <3>2. [id |-> Head(pending).id, annotated |-> FALSE, rec |-> Head(pending).rec,
           tuple |-> UnmatchedTuple(Head(pending).rec)] \in Exported
      <4>1. Head(pending).id \in Nat /\ Head(pending).rec \in PlaintextRecords
        BY <3>1 DEF Plaintext
      <4>2. UnmatchedTuple(Head(pending).rec) \in TupleType
        BY <4>1, UnmatchedTuples
      <4> QED BY <4>1, <4>2 DEF Exported, TupleType
    <3>3. jsonl' \in Seq(Exported) /\ keptPending' \in Seq(Plaintext)
      <4>1. jsonl \in Seq(Exported) /\ keptPending \in Seq(Plaintext)
        BY DEF TypeOK
      <4>2. CASE Due(Head(pending))
        <5>1. jsonl' = Append(jsonl, [id |-> Head(pending).id, annotated |-> FALSE,
                 rec |-> Head(pending).rec, tuple |-> UnmatchedTuple(Head(pending).rec)])
          BY <2>13, <4>2 DEF ExpireNext, Export
        <5>2. keptPending' = keptPending
          BY <2>13, <4>2 DEF ExpireNext
        <5> QED BY <3>2, <4>1, <5>1, <5>2
      <4>3. CASE ~Due(Head(pending))
        <5>1. keptPending' = Append(keptPending, Head(pending)) /\ jsonl' = jsonl
          BY <2>13, <4>3 DEF ExpireNext
        <5> QED BY <3>1, <4>1, <5>1
      <4> QED BY <4>2, <4>3
    <3> QED BY <2>13, <3>1, <3>3 DEF ExpireNext, Goto, TypeOK, collectorVars
  <2>14. CASE ExpireEnd
    BY <2>14 DEF ExpireEnd, Goto, Leave, TypeOK, collectorVars
  <2>15. CASE EnqueueBody
    <3>1. arg \in Packet
      BY <2>15 DEF EnqueueBody, TypeOK
    <3>2. packets # <<>> => Head(packets) \in Packet /\ Tail(packets) \in Seq(Packet)
      BY DEF TypeOK
    <3>3. Len(packets) < MaxBuffered \/ packets # <<>>
      BY BufferAssumption
    <3>4. packets' \in Seq(Packet) /\ pcap' \in Seq(Packet)
      <4>1. packets \in Seq(Packet) /\ pcap \in Seq(Packet)
        BY DEF TypeOK
      <4>2. CASE Len(packets) < MaxBuffered
        <5>1. packets' = Append(packets, arg) /\ pcap' = pcap
          BY <2>15, <4>2 DEF EnqueueBody
        <5> QED BY <3>1, <4>1, <5>1
      <4>3. CASE ~(Len(packets) < MaxBuffered)
        <5>1. packets' = Append(Tail(packets), arg) /\ pcap' = Append(pcap, Head(packets))
          BY <2>15, <4>3 DEF EnqueueBody
        <5> QED BY <3>1, <3>2, <3>3, <4>1, <4>3, <5>1
      <4> QED BY <4>2, <4>3
    <3> QED BY <2>15, <3>4 DEF EnqueueBody, Goto, TypeOK, collectorVars
  <2>16. CASE PlaintextBody
    <3>1. arg \in Plaintext
      BY <2>16 DEF PlaintextBody, TypeOK
    <3>2. CASE \E i \in DOMAIN packets : Attributable(arg, i)
      <4>1. PICK i \in DOMAIN packets : Annotate(arg, i)
        BY <2>16, <3>2 DEF PlaintextBody
      <4>2. packets' \in Seq(Packet) /\ jsonl' \in Seq(Exported)
        BY <3>1, <4>1, AnnotateType
      <4> QED BY <2>16, <3>2, <4>2 DEF PlaintextBody, Leave, TypeOK
    <3>3. CASE ~\E i \in DOMAIN packets : Attributable(arg, i)
      <4>1. Append(pending, Considered(arg)) \in Seq(Plaintext)
        BY <3>1, ConsideredType DEF TypeOK
      <4> QED BY <2>16, <3>1, <3>3, <4>1 DEF PlaintextBody, Leave, TypeOK
    <3> QED BY <3>2, <3>3
  <2>17. CASE UNCHANGED vars
    BY <2>17 DEF vars, TypeOK, collectorVars
  <2>18. ASSUME NEW rec \in PlaintextRecords, ReceiveUnverified(rec) PROVE TypeOK'
    BY <2>18 DEF ReceiveUnverified, Receive, TypeOK, Plaintext
  <2>19. CASE ExportUnverified
    <3>1. arg.id \in Nat /\ arg.rec \in PlaintextRecords
      BY <2>19 DEF ExportUnverified, TypeOK, Plaintext
    <3>2. [id |-> arg.id, annotated |-> FALSE, rec |-> arg.rec,
           tuple |-> PreparedTuple(arg.rec)] \in Exported
      BY <3>1, UnmatchedTuples DEF Exported, TupleType
    <3>3. jsonl' = Append(jsonl, [id |-> arg.id, annotated |-> FALSE, rec |-> arg.rec,
                                  tuple |-> PreparedTuple(arg.rec)])
      BY <2>19 DEF ExportUnverified, Export
    <3>4. jsonl \in Seq(Exported)
      BY DEF TypeOK
    <3>5. jsonl' \in Seq(Exported)
      BY <3>2, <3>3, <3>4
    <3> QED BY <2>19, <3>5 DEF ExportUnverified, TypeOK
  <2> QED
    BY <2>1, <2>2, <2>3, <2>4, <2>5, <2>6, <2>7, <2>8, <2>9, <2>10, <2>11, <2>12,
       <2>13, <2>14, <2>15, <2>16, <2>17, <2>18, <2>19 DEF Next, Step
<1> QED BY <1>1, <1>2, PTL DEF Spec

--------------------------------------------------------------------------------
(* Packets keep their order. *)

\* The steps that leave the packets where they are.
LEMMA PacketsUnmoved ==
  ASSUME OrderInv, TypeOK', ControlInv', UNCHANGED <<packets, keptPackets, pcap>>,
         clock' \in {clock, clock + 1}, arrivals' = arrivals, HeldPackets' = HeldPackets,
         HeldPackets = 1 => arg' = arg,
         stage' = "write" => keptPackets = <<>> \/ (UNCHANGED <<stage, now>> /\ (Final' <=> Final))
  PROVE  OrderInv'
<1>1. AgeInv'
  <2> USE DEF OrderInv
  <2>1. \A i \in DOMAIN packets : packets[i] \in Packet
    BY DEF TypeOK
  <2>2. \A i \in DOMAIN keptPackets : keptPackets[i] \in Packet
    BY DEF TypeOK
  <2>3. clock \in Nat /\ clock <= clock'
    BY DEF TypeOK
  <2>4. HeldPackets = 1 => arg \in Packet
    BY DEF TypeOK, HeldPackets
  <2>5. /\ \A i \in DOMAIN packets : packets'[i].receivedAt <= clock'
        /\ \A i \in DOMAIN keptPackets : keptPackets'[i].receivedAt <= clock'
    BY <2>1, <2>2, <2>3 DEF AgeInv, Packet
  <2>6. HeldPackets = 1 => arg.receivedAt <= clock'
    BY <2>3, <2>4 DEF AgeInv, Packet
  <2>7. stage' = "write" => \A i \in DOMAIN keptPackets' : ~(Due(keptPackets[i]))'
    <3> SUFFICES ASSUME stage' = "write", NEW i \in DOMAIN keptPackets
                 PROVE  ~(Due(keptPackets[i]))'
      OBVIOUS
    <3>1. UNCHANGED <<stage, now>> /\ (Final' <=> Final)
      OBVIOUS
    <3>2. ~Due(keptPackets[i])
      BY <3>1 DEF AgeInv
    <3> QED BY <3>1, <3>2 DEF Due
  <2> QED BY <2>5, <2>6, <2>7 DEF AgeInv
<1>2. PcapInArrivalOrder'
  BY DEF OrderInv, PcapInArrivalOrder
<1> QED BY <1>1, <1>2 DEF OrderInv

\* Annotating one of them moves none.
LEMMA PacketsAnnotated ==
  ASSUME OrderInv, TypeOK', ControlInv', NEW pt \in Plaintext, NEW k \in DOMAIN packets,
         Annotate(pt, k), UNCHANGED <<keptPackets, pcap, clock, arrivals>>,
         HeldPackets' = HeldPackets, HeldPackets = 1 => arg' = arg, stage' # "write"
  PROVE  OrderInv'
<1>1. /\ Len(packets') = Len(packets) /\ DOMAIN packets' = DOMAIN packets
      /\ \A j \in DOMAIN packets : packets'[j].seq = packets[j].seq
                                  /\ packets'[j].receivedAt = packets[j].receivedAt
  <2>1. \A j \in DOMAIN packets : packets[j] \in Packet
    BY DEF OrderInv, TypeOK
  <2> QED BY <2>1, AnnotateType DEF OrderInv, Packet
<1>2. AgeInv'
  BY <1>1 DEF OrderInv, AgeInv
<1>3. PcapInArrivalOrder'
  BY <1>1 DEF OrderInv, PcapInArrivalOrder
<1> QED BY <1>2, <1>3 DEF OrderInv

\* The write loop moves the head of the buffer, which is the next packet to
\* write unless a younger one than any due packet is already kept.
LEMMA PacketsWritten ==
  ASSUME OrderInv, TypeOK', ControlInv', WriteNext
  PROVE  OrderInv'
<1> USE DEF OrderInv
<1>1. /\ packets \in Seq(Packet) /\ keptPackets \in Seq(Packet) /\ pcap \in Seq(Packet)
      /\ packets # <<>> /\ stage = "write" /\ packets' = Tail(packets)
      /\ UNCHANGED <<clock, mu, now, stage, flusher, stopped, collector, arg, arrivals, received>>
  BY DEF TypeOK, WriteNext, Goto, collectorVars
<1>2. /\ Len(packets) > 0 /\ Len(packets') = Len(packets) - 1
      /\ \A i \in DOMAIN packets' : i + 1 \in DOMAIN packets /\ packets'[i] = packets[i + 1]
      /\ Head(packets) = packets[1] /\ 1 \in DOMAIN packets
  BY <1>1
<1>3. /\ \A i \in DOMAIN packets : packets[i].receivedAt \in Nat
      /\ \A i \in DOMAIN keptPackets : keptPackets[i].receivedAt \in Nat
  <2>1. /\ \A i \in DOMAIN packets : packets[i] \in Packet
        /\ \A i \in DOMAIN keptPackets : keptPackets[i] \in Packet
    BY <1>1
  <2> QED BY <2>1 DEF Packet
<1>4. now \in Nat /\ clock \in Nat /\ arrivals \in Nat /\ Window \in Nat
  BY WindowAssumption DEF TypeOK
<1>5. HeldPackets' = HeldPackets
  BY <1>1 DEF HeldPackets
<1>6. CASE Due(Head(packets))
  <2>1. pcap' = Append(pcap, packets[1]) /\ keptPackets' = keptPackets
    BY <1>2, <1>6 DEF WriteNext
  <2>2. keptPackets = <<>>
    <3>1. \A i \in DOMAIN keptPackets : ~Due(keptPackets[i])
      BY <1>1 DEF AgeInv
    <3>2. \A i \in DOMAIN keptPackets : keptPackets[i].receivedAt <= packets[1].receivedAt
      BY <1>2 DEF AgeInv
    <3>3. \A i \in DOMAIN keptPackets : FALSE
      BY <1>2, <1>3, <1>4, <1>6, <3>1, <3>2 DEF Due
    <3>4. Len(keptPackets) \in Nat /\ DOMAIN keptPackets = 1..Len(keptPackets)
      BY <1>1
    <3>5. Len(keptPackets) = 0
      BY <3>3, <3>4
    <3> QED BY <1>1, <3>5
  <2>3. AgeInv'
    BY <1>1, <1>2, <1>5, <2>1, <2>2 DEF AgeInv
  <2>4. PcapInArrivalOrder'
    <3>1. /\ Len(pcap') = Len(pcap) + 1 /\ pcap'[Len(pcap) + 1] = packets[1]
          /\ \A i \in DOMAIN pcap : pcap'[i] = pcap[i]
          /\ DOMAIN pcap' = 1..(Len(pcap) + 1)
      BY <1>1, <1>2, <2>1
    <3>2. Len(pcap) \in Nat /\ DOMAIN pcap = 1..Len(pcap) /\ Len(keptPackets) = 0
      BY <1>1, <2>2
    <3>3. packets[1].seq = Len(pcap) + 1
      BY <1>2, <3>2 DEF PcapInArrivalOrder
    <3>4. \A i \in DOMAIN pcap' : pcap'[i].seq = i
      BY <3>1, <3>2, <3>3 DEF PcapInArrivalOrder
    <3>5. \A i \in DOMAIN packets' : packets'[i].seq = Len(pcap') + Len(keptPackets') + i
      BY <1>1, <1>2, <2>1, <3>1, <3>2 DEF PcapInArrivalOrder
    <3> QED BY <1>1, <1>2, <1>4, <1>5, <2>1, <2>2, <3>1, <3>2, <3>4, <3>5 DEF PcapInArrivalOrder
  <2> QED BY <2>3, <2>4
<1>7. CASE ~Due(Head(packets))
  <2>1. keptPackets' = Append(keptPackets, packets[1]) /\ pcap' = pcap
    BY <1>2, <1>7 DEF WriteNext
  <2>2. /\ Len(keptPackets') = Len(keptPackets) + 1
        /\ keptPackets'[Len(keptPackets) + 1] = packets[1]
        /\ \A i \in DOMAIN keptPackets : keptPackets'[i] = keptPackets[i]
        /\ DOMAIN keptPackets' = 1..(Len(keptPackets) + 1)
        /\ DOMAIN keptPackets = 1..Len(keptPackets) /\ Len(keptPackets) \in Nat
    BY <1>1, <1>2, <2>1
  <2>3. \A i \in DOMAIN keptPackets' : keptPackets'[i] = packets[1] \/
          (i \in DOMAIN keptPackets /\ keptPackets'[i] = keptPackets[i])
    BY <2>2
  <2>4. AgeInv'
    <3>1. \A i \in DOMAIN keptPackets', j \in DOMAIN packets' :
            keptPackets'[i].receivedAt <= packets'[j].receivedAt
      BY <1>2, <2>3 DEF AgeInv
    <3>2. \A i, j \in DOMAIN keptPackets' :
            i <= j => keptPackets'[i].receivedAt <= keptPackets'[j].receivedAt
      BY <1>2, <1>3, <2>2, <2>3 DEF AgeInv
    <3>3. \A i, j \in DOMAIN packets' : i <= j => packets'[i].receivedAt <= packets'[j].receivedAt
      BY <1>1, <1>2 DEF AgeInv
    <3>4. /\ \A i \in DOMAIN packets' : packets'[i].receivedAt <= clock'
          /\ \A i \in DOMAIN keptPackets' : keptPackets'[i].receivedAt <= clock'
      BY <1>1, <1>2, <2>3 DEF AgeInv
    <3>5. HeldPackets' = 1 =>
            /\ arg'.seq = arrivals' /\ arg'.receivedAt <= clock'
            /\ \A i \in DOMAIN packets' : packets'[i].receivedAt <= arg'.receivedAt
            /\ \A i \in DOMAIN keptPackets' : keptPackets'[i].receivedAt <= arg'.receivedAt
      BY <1>1, <1>2, <1>5, <2>3 DEF AgeInv
    <3>6. \A i \in DOMAIN keptPackets' : ~Due(keptPackets'[i])
      BY <1>1, <1>2, <1>7, <2>3 DEF AgeInv
    <3>7. \A i \in DOMAIN keptPackets' : ~(Due(keptPackets[i]))'
      BY <1>1, <3>6 DEF Due, Final
    <3> QED BY <3>1, <3>2, <3>3, <3>4, <3>5, <3>7 DEF AgeInv
  <2>5. PcapInArrivalOrder'
    <3>1. ASSUME NEW i \in DOMAIN keptPackets' PROVE keptPackets'[i].seq = Len(pcap') + i
      <4>1. CASE i \in DOMAIN keptPackets
        BY <2>1, <2>2, <4>1 DEF PcapInArrivalOrder
      <4>2. CASE i = Len(keptPackets) + 1
        <5>1. packets[1].seq = Len(pcap) + Len(keptPackets) + 1
          BY <1>2 DEF PcapInArrivalOrder
        <5>2. Len(pcap) \in Nat /\ Len(keptPackets) \in Nat
          BY <1>1
        <5>3. packets[1].seq = Len(pcap) + (Len(keptPackets) + 1)
          BY ONLY <5>1, <5>2
        <5> QED BY <2>1, <2>2, <4>2, <5>3
      <4> QED
        <5>1. i \in DOMAIN keptPackets \/ i = Len(keptPackets) + 1
          BY ONLY <2>2, i \in DOMAIN keptPackets'
        <5> QED BY ONLY <4>1, <4>2, <5>1
    <3>2. ASSUME NEW i \in DOMAIN packets'
          PROVE  packets'[i].seq = Len(pcap') + Len(keptPackets') + i
      <4>1. i + 1 \in DOMAIN packets /\ packets'[i] = packets[i + 1] /\ i \in Nat
        BY <1>1, <1>2
      <4>2. packets[i + 1].seq = Len(pcap) + Len(keptPackets) + (i + 1)
        BY <4>1 DEF PcapInArrivalOrder
      <4>3. Len(pcap) \in Nat /\ Len(keptPackets) \in Nat
        BY <1>1
      <4>4. Len(pcap) + Len(keptPackets) + (i + 1) = Len(pcap) + (Len(keptPackets) + 1) + i
        BY ONLY <4>1, <4>3
      <4> QED BY ONLY <2>1, <2>2, <4>1, <4>2, <4>4
    <3> QED BY <1>1, <1>2, <1>4, <1>5, <2>1, <2>2, <3>1, <3>2 DEF PcapInArrivalOrder
  <2> QED BY <2>4, <2>5
<1> QED BY <1>6, <1>7

\* What the write loop kept becomes the buffer again.
LEMMA PacketsKept ==
  ASSUME OrderInv, TypeOK', ControlInv', WriteEnd
  PROVE  OrderInv'
<1> USE DEF OrderInv
<1>1. /\ packets = <<>> /\ packets' = keptPackets /\ keptPackets' = <<>> /\ stage = "write"
      /\ stage' = "expire" /\ UNCHANGED <<pcap, clock, arrivals, arg, collector>>
  BY DEF WriteEnd, Goto, collectorVars
<1>2. HeldPackets' = HeldPackets
  BY <1>1 DEF HeldPackets
<1>3. Len(packets) = 0 /\ Len(keptPackets') = 0 /\ Len(packets') = Len(keptPackets)
      /\ Len(keptPackets) \in Nat /\ Len(pcap) \in Nat /\ DOMAIN keptPackets' = {}
  BY <1>1 DEF TypeOK
<1>4. AgeInv'
  BY <1>1, <1>2, <1>3 DEF AgeInv
<1>5. PcapInArrivalOrder'
  BY <1>1, <1>2, <1>3 DEF PcapInArrivalOrder
<1> QED BY <1>4, <1>5

\* A packet that Enqueue has stamped is younger than every packet in the buffer.
LEMMA PacketReported ==
  ASSUME OrderInv, TypeOK', ControlInv', NEW wire \in WireRecords, CallEnqueue(wire)
  PROVE  OrderInv'
<1> USE DEF OrderInv
<1>1. /\ collector = "idle" /\ collector' = "enqueue" /\ arrivals' = arrivals + 1
      /\ arg'.seq = arrivals' /\ arg'.receivedAt = clock
      /\ UNCHANGED <<packets, keptPackets, pcap, clock, stage, mu, now>>
  BY DEF CallEnqueue
<1>2. mu # "collector" /\ stage # "rematch" /\ mu' # "collector"
  BY <1>1 DEF ControlInv
<1>3. HeldPackets = 0 /\ HeldPackets' = 1
  BY <1>1, <1>2 DEF HeldPackets
<1>4. clock \in Nat /\ arrivals \in Nat
  BY DEF TypeOK
<1>5. stage' = "write" => \A i \in DOMAIN keptPackets' : ~(Due(keptPackets[i]))'
  <2> SUFFICES ASSUME stage' = "write", NEW i \in DOMAIN keptPackets
               PROVE  ~(Due(keptPackets[i]))'
    BY <1>1
  <2>1. ~Due(keptPackets[i])
    BY <1>1 DEF AgeInv
  <2> QED BY <1>1, <1>2, <2>1 DEF Due, Final
<1>6. AgeInv'
  BY <1>1, <1>3, <1>4, <1>5 DEF AgeInv
<1>7. PcapInArrivalOrder'
  BY <1>1, <1>3, <1>4 DEF PcapInArrivalOrder
<1> QED BY <1>6, <1>7

\* Enqueue appends the youngest packet and writes, if any, the oldest.
LEMMA PacketEnqueued ==
  ASSUME OrderInv, TypeOK', ControlInv', EnqueueBody
  PROVE  OrderInv'
<1>0. TypeOK /\ ControlInv /\ AgeInv /\ PcapInArrivalOrder
  BY DEF OrderInv
<1>1. /\ stage = "body" /\ collector = "enqueue" /\ stage' = "rematch"
      /\ UNCHANGED <<keptPackets, clock, mu, now, collector, arg, arrivals>>
  BY DEF EnqueueBody, Goto, collectorVars
<1>2. /\ HeldPackets = 1 /\ HeldPackets' = 0 /\ keptPackets = <<>> /\ Len(keptPackets) = 0
      /\ DOMAIN keptPackets = {}
  BY <1>0, <1>1 DEF HeldPackets, ControlInv
<1>3. /\ arg \in Packet /\ packets \in Seq(Packet) /\ pcap \in Seq(Packet)
      /\ Len(packets) \in Nat /\ Len(pcap) \in Nat /\ clock \in Nat /\ arrivals \in Nat
      /\ DOMAIN packets = 1..Len(packets) /\ DOMAIN pcap = 1..Len(pcap)
  BY <1>0, <1>1 DEF TypeOK
<1>4. /\ arg.seq = arrivals /\ arg.receivedAt <= clock /\ arg.receivedAt \in Nat
      /\ \A i \in DOMAIN packets : packets[i].receivedAt <= arg.receivedAt
  BY <1>0, <1>2, <1>3 DEF AgeInv, Packet
<1>5. /\ arrivals = Len(pcap) + Len(packets) + 1
      /\ \A i \in DOMAIN packets : packets[i].seq = Len(pcap) + i
  BY <1>0, <1>2, <1>3 DEF PcapInArrivalOrder
<1>6. CASE Len(packets) < MaxBuffered
  <2>1. packets' = Append(packets, arg) /\ pcap' = pcap
    BY <1>6 DEF EnqueueBody
  <2>2. /\ Len(packets') = Len(packets) + 1 /\ packets'[Len(packets) + 1] = arg
        /\ \A i \in DOMAIN packets : packets'[i] = packets[i]
        /\ DOMAIN packets' = 1..(Len(packets) + 1)
    BY <1>3, <2>1
  <2>3. \A i, j \in DOMAIN packets' : i <= j => packets'[i].receivedAt <= packets'[j].receivedAt
    BY <1>0, <1>3, <1>4, <2>2 DEF AgeInv
  <2>4. \A i \in DOMAIN packets' : packets'[i].receivedAt <= clock'
    BY <1>0, <1>1, <1>3, <1>4, <2>2 DEF AgeInv
  <2>5. AgeInv'
    BY <1>0, <1>1, <1>2, <2>3, <2>4 DEF AgeInv
  <2>6. \A i \in DOMAIN packets' : packets'[i].seq = Len(pcap') + Len(keptPackets') + i
    <3> SUFFICES ASSUME NEW i \in DOMAIN packets'
                 PROVE  packets'[i].seq = Len(pcap') + Len(keptPackets') + i
      OBVIOUS
    <3>1. Len(keptPackets') = 0 /\ Len(pcap') = Len(pcap)
      BY <1>1, <1>2, <2>1
    <3>2. packets'[i].seq = Len(pcap) + i
      <4>1. CASE i = Len(packets) + 1
        BY <1>3, <1>4, <1>5, <2>2, <4>1
      <4>2. CASE i # Len(packets) + 1
        <5>1. i \in DOMAIN packets
          BY <1>3, <2>2, <4>2
        <5> QED BY <1>5, <2>2, <5>1
      <4> QED BY <4>1, <4>2
    <3> QED BY <1>3, <2>2, <3>1, <3>2
  <2>7. PcapInArrivalOrder'
    BY <1>0, <1>1, <1>2, <1>3, <1>5, <2>1, <2>2, <2>6 DEF PcapInArrivalOrder
  <2> QED BY <1>0, <2>5, <2>7 DEF OrderInv
<1>7. CASE ~(Len(packets) < MaxBuffered)
  <2>1. packets' = Append(Tail(packets), arg) /\ pcap' = Append(pcap, Head(packets))
    BY <1>7 DEF EnqueueBody
  <2>2. Len(packets) > 0 /\ packets # <<>>
    BY <1>3, <1>7, BufferAssumption
  <2>3. /\ Len(packets') = Len(packets) /\ DOMAIN packets' = 1..Len(packets)
        /\ \A i \in 1..(Len(packets) - 1) : packets'[i] = packets[i + 1] /\ i + 1 \in DOMAIN packets
        /\ packets'[Len(packets)] = arg
    BY <1>3, <2>1, <2>2
  <2>4. /\ Len(pcap') = Len(pcap) + 1 /\ pcap'[Len(pcap) + 1] = packets[1]
        /\ \A i \in DOMAIN pcap : pcap'[i] = pcap[i]
        /\ DOMAIN pcap' = 1..(Len(pcap) + 1) /\ 1 \in DOMAIN packets
    BY <1>3, <2>1, <2>2
  <2>5. \A i, j \in DOMAIN packets' : i <= j => packets'[i].receivedAt <= packets'[j].receivedAt
    <3> SUFFICES ASSUME NEW i \in DOMAIN packets', NEW j \in DOMAIN packets', i <= j
                 PROVE  packets'[i].receivedAt <= packets'[j].receivedAt
      OBVIOUS
    <3>1. i \in Int /\ j \in Int
      BY <1>3, <2>3
    <3>2. CASE j = Len(packets)
      <4>1. CASE i = Len(packets)
        BY <1>4, <2>3, <3>2, <4>1
      <4>2. CASE i # Len(packets)
        <5>1. packets'[i] = packets[i + 1] /\ i + 1 \in DOMAIN packets
          BY <1>3, <2>3, <3>1, <4>2
        <5> QED BY <1>4, <2>3, <3>2, <5>1
      <4> QED BY <4>1, <4>2
    <3>3. CASE j # Len(packets)
      <4>1. /\ packets'[i] = packets[i + 1] /\ packets'[j] = packets[j + 1]
            /\ i + 1 \in DOMAIN packets /\ j + 1 \in DOMAIN packets /\ i + 1 <= j + 1
        BY <1>3, <2>3, <3>1, <3>3
      <4> QED BY <1>0, <4>1 DEF AgeInv
    <3> QED BY <3>2, <3>3
  <2>6. \A i \in DOMAIN packets' : packets'[i].receivedAt <= clock'
    <3> SUFFICES ASSUME NEW i \in DOMAIN packets' PROVE packets'[i].receivedAt <= clock
      BY <1>1
    <3>1. CASE i = Len(packets)
      BY <1>4, <2>3, <3>1
    <3>2. CASE i # Len(packets)
      <4>1. packets'[i] = packets[i + 1] /\ i + 1 \in DOMAIN packets
        BY <1>3, <2>3, <3>2
      <4> QED BY <1>0, <4>1 DEF AgeInv
    <3> QED BY <3>1, <3>2
  <2>7. AgeInv'
    BY <1>0, <1>1, <1>2, <2>5, <2>6 DEF AgeInv
  <2>8. \A i \in DOMAIN packets' : packets'[i].seq = Len(pcap') + Len(keptPackets') + i
    <3> SUFFICES ASSUME NEW i \in DOMAIN packets'
                 PROVE  packets'[i].seq = Len(pcap') + Len(keptPackets') + i
      OBVIOUS
    <3>1. Len(keptPackets') = 0 /\ Len(pcap') = Len(pcap) + 1
      BY <1>1, <1>2, <2>4
    <3>2. packets'[i].seq = Len(pcap) + 1 + i
      <4>1. CASE i = Len(packets)
        BY <1>3, <1>4, <1>5, <2>3, <4>1
      <4>2. CASE i # Len(packets)
        <5>1. packets'[i] = packets[i + 1] /\ i + 1 \in DOMAIN packets
          BY <1>3, <2>3, <4>2
        <5> QED BY <1>3, <1>5, <2>3, <5>1
      <4> QED BY <4>1, <4>2
    <3> QED BY <1>3, <2>3, <3>1, <3>2
  <2>9. \A i \in DOMAIN pcap' : pcap'[i].seq = i
    BY <1>0, <1>2, <1>3, <1>5, <2>4 DEF PcapInArrivalOrder
  <2>10. PcapInArrivalOrder'
    BY <1>0, <1>1, <1>2, <1>3, <1>5, <2>3, <2>4, <2>8, <2>9 DEF PcapInArrivalOrder
  <2> QED BY <1>0, <2>7, <2>10 DEF OrderInv
<1> QED BY <1>6, <1>7

\* One goroutine at a time is in a critical section, and knows where.
LEMMA ControlStep ==
  ASSUME TypeOK, ControlInv, [Next]_vars
  PROVE  ControlInv'
<1> USE DEF ControlInv
<1>1. CASE Advance
  BY <1>1 DEF Advance, collectorVars
<1>2. ASSUME NEW wire \in WireRecords, CallEnqueue(wire) PROVE ControlInv'
  BY <1>2 DEF CallEnqueue
<1>3. ASSUME NEW rec \in PlaintextRecords, LockPlaintext(rec) PROVE ControlInv'
  BY <1>3 DEF LockPlaintext, Receive, Enter
<1>4. CASE LockEnqueue
  BY <1>4 DEF LockEnqueue, Enter, collectorVars
<1>5. CASE LockTick
  BY <1>5 DEF LockTick, Enter, collectorVars
<1>6. CASE ReturnFlushLoop
  BY <1>6 DEF ReturnFlushLoop, collectorVars
<1>7. CASE CallClose
  BY <1>7 DEF CallClose
<1>8. CASE LockClose
  BY <1>8 DEF LockClose, collectorVars
<1>9. CASE MatchNext
  BY <1>9 DEF MatchNext, Goto, collectorVars
<1>10. CASE MatchEnd
  BY <1>10 DEF MatchEnd, Goto, Leave, collectorVars
<1>11. CASE WriteNext
  BY <1>11 DEF WriteNext, Goto, collectorVars
<1>12. CASE WriteEnd
  BY <1>12 DEF WriteEnd, Goto, collectorVars
<1>13. CASE ExpireNext
  BY <1>13 DEF ExpireNext, Goto, collectorVars
<1>14. CASE ExpireEnd
  BY <1>14 DEF ExpireEnd, Goto, Leave, collectorVars, TypeOK
<1>15. CASE EnqueueBody
  BY <1>15 DEF EnqueueBody, Goto, collectorVars
<1>16. CASE PlaintextBody
  BY <1>16 DEF PlaintextBody, Leave
<1>17. CASE UNCHANGED vars
  BY <1>17 DEF vars, collectorVars
<1>18. ASSUME NEW rec \in PlaintextRecords, ReceiveUnverified(rec) PROVE ControlInv'
  BY <1>18 DEF ReceiveUnverified, Receive
<1>19. CASE ExportUnverified
  BY <1>19 DEF ExportUnverified
<1> QED
  BY <1>1, <1>2, <1>3, <1>4, <1>5, <1>6, <1>7, <1>8, <1>9, <1>10, <1>11, <1>12,
     <1>13, <1>14, <1>15, <1>16, <1>17, <1>18, <1>19 DEF Next, Step

\* Every step keeps the buffer in order.
LEMMA OrderStep ==
  ASSUME OrderInv, TypeOK', [Next]_vars
  PROVE  OrderInv'
<1>1. TypeOK /\ ControlInv /\ ControlInv'
  BY ControlStep DEF OrderInv
<1>2. clock \in Nat
  BY <1>1 DEF TypeOK
<1>3. CASE Advance
  <2>1. /\ UNCHANGED <<packets, keptPackets, pcap, arrivals, stage, now, mu, collector, arg>>
        /\ clock' = clock + 1
    BY <1>3 DEF Advance, collectorVars
  <2>2. HeldPackets' = HeldPackets /\ (Final' <=> Final)
    BY <2>1 DEF HeldPackets, Final
  <2> QED BY <1>1, <2>1, <2>2, PacketsUnmoved
<1>4. ASSUME NEW wire \in WireRecords, CallEnqueue(wire) PROVE OrderInv'
  BY <1>1, <1>4, PacketReported
<1>5. ASSUME NEW rec \in PlaintextRecords, LockPlaintext(rec) PROVE OrderInv'
  <2>1. /\ UNCHANGED <<packets, keptPackets, pcap, arrivals, clock>> /\ stage' # "write"
        /\ collector = "idle" /\ collector' = "plaintext"
    BY <1>5 DEF LockPlaintext, Receive, Enter
  <2>2. HeldPackets' = HeldPackets /\ HeldPackets # 1
    BY <2>1 DEF HeldPackets
  <2> QED BY <1>1, <1>2, <2>1, <2>2, PacketsUnmoved
<1>6. CASE LockEnqueue \/ LockTick \/ LockClose
  <2>1. /\ UNCHANGED <<packets, keptPackets, pcap, arrivals, clock, arg, collector>>
        /\ stage' # "write" /\ mu = "free" /\ stage' # "rematch"
    BY <1>6 DEF LockEnqueue, LockTick, LockClose, Enter, collectorVars
  <2>2. HeldPackets' = HeldPackets
    BY <1>1, <2>1 DEF HeldPackets, ControlInv
  <2> QED BY <1>1, <1>2, <2>1, <2>2, PacketsUnmoved
<1>7. CASE ReturnFlushLoop
  <2>1. UNCHANGED <<packets, keptPackets, pcap, arrivals, clock, arg, collector, stage, mu, now>>
    BY <1>7 DEF ReturnFlushLoop, collectorVars
  <2>2. HeldPackets' = HeldPackets /\ (Final' <=> Final)
    BY <2>1 DEF HeldPackets, Final
  <2> QED BY <1>1, <1>2, <2>1, <2>2, PacketsUnmoved
<1>8. CASE CallClose
  <2>1. /\ UNCHANGED <<packets, keptPackets, pcap, arrivals, clock, arg, stage, mu, now>>
        /\ collector = "idle" /\ collector' = "close"
    BY <1>8 DEF CallClose
  <2>2. HeldPackets' = HeldPackets /\ (Final' <=> Final)
    BY <1>1, <2>1 DEF HeldPackets, Final, ControlInv
  <2> QED BY <1>1, <1>2, <2>1, <2>2, PacketsUnmoved
<1>9. CASE MatchNext
  <2>1. /\ UNCHANGED <<keptPackets, pcap, arrivals, clock, arg, collector, stage>>
        /\ stage # "write"
    BY <1>9 DEF MatchNext, Goto, collectorVars
  <2>2. HeldPackets' = HeldPackets
    BY <2>1 DEF HeldPackets
  <2>3. Head(pending) \in Plaintext
    BY <1>1, <1>9 DEF MatchNext, TypeOK
  <2>4. CASE \E i \in DOMAIN packets : Attributable(Head(pending), i)
    <3>1. PICK i \in DOMAIN packets : Annotate(Head(pending), i)
      BY <1>9, <2>4 DEF MatchNext
    <3> QED BY <1>1, <2>1, <2>2, <2>3, <3>1, PacketsAnnotated
  <2>5. CASE ~\E i \in DOMAIN packets : Attributable(Head(pending), i)
    <3>1. UNCHANGED packets
      BY <1>9, <2>5 DEF MatchNext
    <3> QED BY <1>1, <1>2, <2>1, <2>2, <3>1, PacketsUnmoved
  <2> QED BY <2>4, <2>5
<1>10. CASE MatchEnd
  <2>1. /\ UNCHANGED <<packets, keptPackets, pcap, arrivals, clock>>
        /\ stage \in {"match", "rematch"} /\ keptPackets = <<>>
    BY <1>1, <1>10 DEF MatchEnd, Goto, Leave, collectorVars, ControlInv
  <2>2. HeldPackets' = HeldPackets /\ (HeldPackets = 1 => arg' = arg)
    BY <1>1, <1>10 DEF MatchEnd, Goto, Leave, collectorVars, HeldPackets, ControlInv
  <2> QED BY <1>1, <1>2, <2>1, <2>2, PacketsUnmoved
<1>11. CASE WriteNext
  BY <1>1, <1>11, PacketsWritten
<1>12. CASE WriteEnd
  BY <1>1, <1>12, PacketsKept
<1>13. CASE ExpireNext
  <2>1. /\ UNCHANGED <<packets, keptPackets, pcap, arrivals, clock, arg, collector, stage>>
        /\ stage # "write"
    BY <1>13 DEF ExpireNext, Goto, collectorVars
  <2>2. HeldPackets' = HeldPackets
    BY <2>1 DEF HeldPackets
  <2> QED BY <1>1, <1>2, <2>1, <2>2, PacketsUnmoved
<1>14. CASE ExpireEnd
  <2>1. UNCHANGED <<packets, keptPackets, pcap, arrivals, clock>> /\ stage' # "write"
    BY <1>14 DEF ExpireEnd, Goto, Leave, collectorVars
  <2>2. HeldPackets' = HeldPackets /\ (HeldPackets = 1 => arg' = arg)
    BY <1>1, <1>14 DEF ExpireEnd, Goto, Leave, collectorVars, HeldPackets, ControlInv
  <2> QED BY <1>1, <1>2, <2>1, <2>2, PacketsUnmoved
<1>15. CASE EnqueueBody
  BY <1>1, <1>15, PacketEnqueued
<1>16. CASE PlaintextBody
  <2>1. /\ UNCHANGED <<keptPackets, pcap, arrivals, clock>> /\ stage' = "idle"
        /\ collector = "plaintext" /\ collector' = "idle" /\ mu = "collector"
    BY <1>1, <1>16 DEF PlaintextBody, Leave, ControlInv
  <2>2. HeldPackets' = HeldPackets /\ HeldPackets # 1
    BY <2>1 DEF HeldPackets
  <2>3. arg \in Plaintext
    BY <1>1, <2>1 DEF TypeOK
  <2>4. CASE \E i \in DOMAIN packets : Attributable(arg, i)
    <3>1. PICK i \in DOMAIN packets : Annotate(arg, i)
      BY <1>16, <2>4 DEF PlaintextBody
    <3> QED BY <1>1, <2>1, <2>2, <2>3, <3>1, PacketsAnnotated
  <2>5. CASE ~\E i \in DOMAIN packets : Attributable(arg, i)
    <3>1. UNCHANGED packets
      BY <1>16, <2>5 DEF PlaintextBody
    <3> QED BY <1>1, <1>2, <2>1, <2>2, <3>1, PacketsUnmoved
  <2> QED BY <2>4, <2>5
<1>17. CASE UNCHANGED vars
  <2>1. UNCHANGED <<packets, keptPackets, pcap, arrivals, clock, arg, collector, stage, mu, now>>
    BY <1>17 DEF vars, collectorVars
  <2>2. HeldPackets' = HeldPackets /\ (Final' <=> Final)
    BY <2>1 DEF HeldPackets, Final
  <2> QED BY <1>1, <1>2, <2>1, <2>2, PacketsUnmoved
<1>18. CASE ExportUnverified \/ \E rec \in PlaintextRecords : ReceiveUnverified(rec)
  <2>1. /\ UNCHANGED <<packets, keptPackets, pcap, arrivals, clock, stage, mu, now>>
        /\ collector \notin {"enqueue", "close"} /\ collector' \notin {"enqueue", "close"}
    BY <1>18 DEF ExportUnverified, ReceiveUnverified, Receive
  <2>2. HeldPackets' = HeldPackets /\ HeldPackets # 1 /\ (Final' <=> Final)
    BY <2>1 DEF HeldPackets, Final
  <2> QED BY <1>1, <1>2, <2>1, <2>2, PacketsUnmoved
<1> QED
  BY <1>3, <1>4, <1>5, <1>6, <1>7, <1>8, <1>9, <1>10, <1>11, <1>12, <1>13, <1>14,
     <1>15, <1>16, <1>17, <1>18 DEF Next, Step

\* Initially nothing has arrived.
LEMMA OrderInit ==
  ASSUME Init, TypeOK
  PROVE  OrderInv
<1>1. /\ packets = <<>> /\ keptPackets = <<>> /\ pcap = <<>> /\ keptPending = <<>>
      /\ arrivals = 0 /\ collector = "idle" /\ stage = "idle" /\ mu = "free"
  BY DEF Init
<1>2. HeldPackets = 0
  BY <1>1 DEF HeldPackets
<1> QED BY <1>1, <1>2 DEF OrderInv, ControlInv, AgeInv, PcapInArrivalOrder

\* Whatever mixture of expiry, overflow and Close writes them, packets reach the
\* pcapng file once each and in the order they arrived.
THEOREM PacketsInOrder == Spec => []PcapInArrivalOrder
<1>1. Init /\ TypeOK => OrderInv
  BY OrderInit
<1>2. OrderInv /\ TypeOK' /\ [Next]_vars => OrderInv'
  BY OrderStep
<1>3. OrderInv => PcapInArrivalOrder
  BY DEF OrderInv
<1> QED BY <1>1, <1>2, <1>3, TypeCorrect, PTL DEF Spec

--------------------------------------------------------------------------------
(* The loops move items from the head of one sequence to the end of another. *)

Ids(s) == {s[i].id : i \in DOMAIN s}
Distinct(s) == \A i, j \in DOMAIN s : s[i].id = s[j].id => i = j

\* Appending adds one element, and its id.
LEMMA AppendedElements ==
  ASSUME NEW S, NEW s \in Seq(S), NEW x \in S
  PROVE  /\ Elements(Append(s, x)) = Elements(s) \cup {x}
         /\ Ids(Append(s, x)) = Ids(s) \cup {x.id}
         /\ Len(Append(s, x)) = Len(s) + 1
<1> DEFINE t == Append(s, x)
<1>1. /\ Len(s) \in Nat /\ DOMAIN s = 1..Len(s) /\ Len(t) = Len(s) + 1
      /\ DOMAIN t = 1..(Len(s) + 1) /\ t[Len(s) + 1] = x
      /\ \A i \in DOMAIN s : t[i] = s[i]
  OBVIOUS
<1>2. Len(s) + 1 \in DOMAIN t /\ \A i \in DOMAIN s : i \in DOMAIN t
  BY <1>1
<1>3. \A i \in DOMAIN t : i \in DOMAIN s \/ i = Len(s) + 1
  BY <1>1
<1> HIDE DEF t
<1>4. Elements(t) = Elements(s) \cup {x}
  BY <1>1, <1>2, <1>3 DEF Elements
<1>5. Ids(t) = Ids(s) \cup {x.id}
  BY <1>1, <1>2, <1>3 DEF Ids
<1> QED BY <1>1, <1>4, <1>5 DEF t

\* An id that is new to a sequence leaves its ids distinct.
LEMMA AppendedDistinct ==
  ASSUME NEW S, NEW s \in Seq(S), NEW x \in S, Distinct(s), x.id \notin Ids(s)
  PROVE  Distinct(Append(s, x))
<1> DEFINE t == Append(s, x)
<1>1. /\ t[Len(s) + 1] = x /\ \A i \in DOMAIN s : t[i] = s[i] /\ t[i].id # x.id
      /\ \A i \in DOMAIN t : i \in DOMAIN s \/ i = Len(s) + 1
  BY DEF Ids
<1> HIDE DEF t
<1>2. Distinct(t)
  BY <1>1 DEF Distinct
<1> QED BY <1>2 DEF t

\* Taking the head away removes one element, and its id only.
LEMMA TailElements ==
  ASSUME NEW S, NEW s \in Seq(S), s # <<>>
  PROVE  /\ Head(s) \in S /\ Tail(s) \in Seq(S) /\ Len(s) = Len(Tail(s)) + 1
         /\ Elements(s) = Elements(Tail(s)) \cup {Head(s)}
         /\ Ids(s) = Ids(Tail(s)) \cup {Head(s).id}
         /\ Distinct(s) => Distinct(Tail(s)) /\ Head(s).id \notin Ids(Tail(s))
<1> DEFINE t == Tail(s)
<1>1. /\ Len(s) \in Nat /\ Len(s) > 0 /\ DOMAIN s = 1..Len(s) /\ Head(s) = s[1] /\ s[1] \in S
      /\ t \in Seq(S) /\ Len(s) = Len(t) + 1 /\ DOMAIN t = 1..(Len(s) - 1)
      /\ \A i \in DOMAIN t : t[i] = s[i + 1]
  OBVIOUS
<1>2. 1 \in DOMAIN s /\ \A i \in DOMAIN t : i + 1 \in DOMAIN s /\ i + 1 # 1 /\ i \in Int
  BY <1>1
<1>3. \A i \in DOMAIN s : i = 1 \/ (i - 1 \in DOMAIN t /\ t[i - 1] = s[i])
  BY <1>1
<1> HIDE DEF t
<1>4. Elements(s) = Elements(t) \cup {Head(s)}
  BY <1>1, <1>2, <1>3 DEF Elements
<1>5. Ids(s) = Ids(t) \cup {Head(s).id}
  BY <1>1, <1>2, <1>3 DEF Ids
<1>6. ASSUME Distinct(s) PROVE Distinct(t) /\ Head(s).id \notin Ids(t)
  <2>1. Head(s).id \notin Ids(t)
    BY <1>1, <1>2, <1>6 DEF Distinct, Ids
  <2>2. Distinct(t)
    BY <1>1, <1>2, <1>6 DEF Distinct
  <2> QED BY <2>1, <2>2
<1> QED BY <1>1, <1>4, <1>5, <1>6 DEF t

\* An element's id is among the ids.
LEMMA ElementIds ==
  ASSUME NEW s
  PROVE  /\ \A x \in Elements(s) : x.id \in Ids(s)
         /\ \A k \in Ids(s) : \E x \in Elements(s) : x.id = k
BY DEF Elements, Ids

--------------------------------------------------------------------------------
(* The buffer is bounded. *)

\* Annotating a packet moves none.
LEMMA AnnotateKeepsLength ==
  ASSUME TypeOK, NEW pt, NEW i \in DOMAIN packets, Annotate(pt, i)
  PROVE  Len(packets') = Len(packets)
<1>1. packets \in Seq(Packet) /\ packets' = [packets EXCEPT ![i].packetID = pt.id]
  BY DEF TypeOK, Annotate
<1>2. DOMAIN packets' = 1..Len(packets) /\ Len(packets) \in Nat
  BY <1>1
<1> QED BY <1>1, <1>2

\* No step takes the buffer over its limit.
LEMMA BoundedStep ==
  ASSUME TypeOK, ControlInv, BufferBounded, [Next]_vars
  PROVE  BufferBounded'
<1> USE DEF BufferBounded
<1>1. /\ packets \in Seq(Packet) /\ keptPackets \in Seq(Packet)
      /\ Len(packets) \in Nat /\ Len(keptPackets) \in Nat
  BY DEF TypeOK
<1>2. CASE UNCHANGED <<packets, keptPackets>>
  BY <1>2
<1>3. CASE MatchNext
  <2>1. keptPackets' = keptPackets
    BY <1>3 DEF MatchNext
  <2>2. Len(packets') = Len(packets)
    BY <1>3, AnnotateKeepsLength DEF MatchNext
  <2> QED BY <2>1, <2>2
<1>4. CASE PlaintextBody
  <2>1. keptPackets' = keptPackets
    BY <1>4 DEF PlaintextBody
  <2>2. Len(packets') = Len(packets)
    BY <1>4, AnnotateKeepsLength DEF PlaintextBody
  <2> QED BY <2>1, <2>2
<1>5. CASE WriteNext
  <2>1. packets # <<>> /\ packets' = Tail(packets)
    BY <1>5 DEF WriteNext
  <2>2. Len(packets) = Len(packets') + 1 /\ Head(packets) \in Packet /\ Len(packets') \in Nat
    BY <1>1, <2>1, TailElements
  <2>3. keptPackets' = keptPackets \/ keptPackets' = Append(keptPackets, Head(packets))
    BY <1>5 DEF WriteNext
  <2>4. Len(keptPackets') <= Len(keptPackets) + 1 /\ Len(keptPackets') \in Nat
    BY <1>1, <2>2, <2>3
  <2> QED BY <1>1, <2>2, <2>4, BufferAssumption
<1>6. CASE WriteEnd
  BY <1>1, <1>6 DEF WriteEnd
<1>7. CASE EnqueueBody
  <2>1. keptPackets = <<>> /\ keptPackets' = <<>> /\ arg \in Packet
    BY <1>7 DEF EnqueueBody, ControlInv, TypeOK
  <2>2. CASE Len(packets) < MaxBuffered
    <3>1. packets' = Append(packets, arg)
      BY <1>7, <2>2 DEF EnqueueBody
    <3>2. Len(packets') = Len(packets) + 1
      BY <1>1, <2>1, <3>1
    <3> QED BY <1>1, <2>1, <2>2, <3>2, BufferAssumption
  <2>3. CASE ~(Len(packets) < MaxBuffered)
    <3>1. packets' = Append(Tail(packets), arg)
      BY <1>7, <2>3 DEF EnqueueBody
    <3>2. packets # <<>>
      BY <1>1, <2>3, BufferAssumption
    <3>3. Len(packets') = Len(packets)
      BY <1>1, <2>1, <3>1, <3>2
    <3> QED BY <2>1, <3>3
  <2> QED BY <2>2, <2>3
<1>8. CASE MatchEnd \/ ExpireNext \/ ExpireEnd
  BY <1>2, <1>8 DEF MatchEnd, ExpireNext, ExpireEnd
<1>9. CASE Advance \/ LockEnqueue \/ LockTick \/ ReturnFlushLoop \/ CallClose \/ LockClose
           \/ ExportUnverified
  BY <1>2, <1>9 DEF Advance, LockEnqueue, LockTick, ReturnFlushLoop, CallClose, LockClose,
     ExportUnverified, Enter
<1>10. CASE \/ \E wire \in WireRecords : CallEnqueue(wire)
            \/ \E rec \in PlaintextRecords : LockPlaintext(rec) \/ ReceiveUnverified(rec)
  BY <1>2, <1>10 DEF CallEnqueue, LockPlaintext, ReceiveUnverified, Enter
<1>11. CASE UNCHANGED vars
  BY <1>2, <1>11 DEF vars
<1> QED
  BY <1>3, <1>4, <1>5, <1>6, <1>7, <1>8, <1>9, <1>10, <1>11 DEF Next, Step

\* The buffer never holds more packets than its limit, even while a loop that
\* keeps some of them runs over it.
THEOREM BufferIsBounded == Spec => []BufferBounded
<1>1. Init => ControlInv /\ BufferBounded
  BY BufferAssumption DEF Init, ControlInv, BufferBounded
<1>2. TypeOK /\ ControlInv /\ BufferBounded /\ [Next]_vars => ControlInv' /\ BufferBounded'
  BY ControlStep, BoundedStep
<1> QED BY <1>1, <1>2, TypeCorrect, PTL DEF Spec

--------------------------------------------------------------------------------
(* Every record is in one place. *)

\* Exporting a record adds a line with its id.
LEMMA ExportAppends ==
  ASSUME TypeOK, TypeOK', NEW pt, NEW a, NEW t, Export(pt, a, t)
  PROVE  LET e == [id |-> pt.id, annotated |-> a, rec |-> pt.rec, tuple |-> t]
         IN  /\ Elements(jsonl') = Elements(jsonl) \cup {e}
             /\ Ids(jsonl') = Ids(jsonl) \cup {pt.id} /\ Len(jsonl') = Len(jsonl) + 1
             /\ Distinct(jsonl) /\ pt.id \notin Ids(jsonl) => Distinct(jsonl')
<1> DEFINE e == [id |-> pt.id, annotated |-> a, rec |-> pt.rec, tuple |-> t]
<1>1. jsonl' = Append(jsonl, e)
  BY DEF Export
<1>2. jsonl \in Seq(Exported) /\ jsonl' \in Seq(Exported)
  BY DEF TypeOK
<1>3. jsonl'[Len(jsonl) + 1] = e /\ Len(jsonl) + 1 \in DOMAIN jsonl'
  BY <1>1, <1>2
<1>4. e \in Exported /\ e.id = pt.id
  BY <1>2, <1>3
<1> HIDE DEF e
<1>5. /\ Elements(jsonl') = Elements(jsonl) \cup {e}
      /\ Ids(jsonl') = Ids(jsonl) \cup {pt.id} /\ Len(jsonl') = Len(jsonl) + 1
  BY <1>1, <1>2, <1>4, AppendedElements
<1>6. ASSUME Distinct(jsonl), pt.id \notin Ids(jsonl) PROVE Distinct(jsonl')
  BY <1>1, <1>2, <1>4, <1>6, AppendedDistinct
<1> QED BY <1>5, <1>6 DEF e

\* The PacketID of the record that the collector has taken in is the last one
\* given; the ids before it are each in one of three places, once.
OnceInv ==
  /\ Distinct(jsonl) /\ Distinct(pending) /\ Distinct(keptPending)
  /\ Ids(jsonl) \cap Ids(pending) = {} /\ Ids(jsonl) \cap Ids(keptPending) = {}
  /\ Ids(pending) \cap Ids(keptPending) = {}
  /\ Ids(jsonl) \cup Ids(pending) \cup Ids(keptPending) \subseteq 1..(received - HeldPlaintexts)
  /\ HeldPlaintexts = 1 => arg.id = received
  /\ Len(jsonl) + Len(keptPending) + Len(pending) + HeldPlaintexts = received

\* The steps that neither take in nor move a record.
LEMMA RecordsUnmoved ==
  ASSUME OnceInv, UNCHANGED <<jsonl, pending, keptPending, received>>,
         HeldPlaintexts' = HeldPlaintexts, HeldPlaintexts = 1 => arg' = arg
  PROVE  OnceInv'
BY DEF OnceInv

\* A record that is taken in is the next one.
LEMMA RecordTaken ==
  ASSUME TypeOK, OnceInv, NEW rec, NEW task \in {"plaintext", "unverified"}, Receive(rec, task),
         UNCHANGED <<jsonl, pending, keptPending>>
  PROVE  OnceInv'
<1>1. /\ HeldPlaintexts = 0 /\ HeldPlaintexts' = 1 /\ arg'.id = received'
      /\ received' = received + 1 /\ received \in Nat
  BY DEF Receive, HeldPlaintexts, TypeOK
<1>2. Len(jsonl) \in Nat /\ Len(keptPending) \in Nat /\ Len(pending) \in Nat
  BY DEF TypeOK
<1>3. Len(jsonl') + Len(keptPending') + Len(pending') + HeldPlaintexts' = received'
  BY <1>1, <1>2 DEF OnceInv
<1>4. 1..(received - HeldPlaintexts) = 1..(received' - HeldPlaintexts')
  BY <1>1
<1> QED BY <1>1, <1>3, <1>4 DEF OnceInv

\* The record at the head of the queue is kept, ...
LEMMA RecordKept ==
  ASSUME TypeOK, OnceInv, pending # <<>>, pending' = Tail(pending),
         NEW pt \in Plaintext, pt.id = Head(pending).id, keptPending' = Append(keptPending, pt),
         UNCHANGED <<jsonl, received>>, HeldPlaintexts' = HeldPlaintexts,
         HeldPlaintexts = 1 => arg' = arg
  PROVE  OnceInv'
<1>1. pending \in Seq(Plaintext) /\ keptPending \in Seq(Plaintext)
  BY DEF TypeOK
<1>2. /\ Ids(pending) = Ids(pending') \cup {pt.id} /\ pt.id \notin Ids(pending')
      /\ Distinct(pending') /\ Len(pending) = Len(pending') + 1 /\ Len(pending') \in Nat
  BY <1>1, TailElements DEF OnceInv
<1>3. Ids(keptPending') = Ids(keptPending) \cup {pt.id} /\ Len(keptPending') = Len(keptPending) + 1
  BY <1>1, AppendedElements
<1>4. Distinct(keptPending')
  BY <1>1, <1>2, AppendedDistinct DEF OnceInv
<1>5. Len(keptPending) \in Nat /\ Len(jsonl) \in Nat /\ received \in Nat /\ HeldPlaintexts \in Nat
  BY <1>1 DEF TypeOK, HeldPlaintexts
<1>6. Len(jsonl) + Len(keptPending) + Len(pending) + HeldPlaintexts = received
  BY DEF OnceInv
<1>7. /\ Len(jsonl') = Len(jsonl) /\ Len(keptPending') = Len(keptPending) + 1
      /\ Len(pending) = Len(pending') + 1
  BY <1>2, <1>3
<1>8. Len(jsonl') + Len(keptPending') + Len(pending') + HeldPlaintexts' = received'
  BY <1>2, <1>5, <1>6, <1>7
<1> QED BY <1>2, <1>3, <1>4, <1>8 DEF OnceInv

\* ... or exported, ...
LEMMA RecordExported ==
  ASSUME TypeOK, TypeOK', OnceInv, pending # <<>>, pending' = Tail(pending),
         NEW a, NEW t, Export(Head(pending), a, t),
         UNCHANGED <<keptPending, received>>, HeldPlaintexts' = HeldPlaintexts,
         HeldPlaintexts = 1 => arg' = arg
  PROVE  OnceInv'
<1> DEFINE id == Head(pending).id
<1>1. pending \in Seq(Plaintext)
  BY DEF TypeOK
<1>2. /\ Ids(pending) = Ids(pending') \cup {id} /\ id \notin Ids(pending')
      /\ Distinct(pending') /\ Len(pending) = Len(pending') + 1 /\ Len(pending') \in Nat
  BY <1>1, TailElements DEF OnceInv
<1> HIDE DEF id
<1>3. Ids(jsonl') = Ids(jsonl) \cup {id} /\ Len(jsonl') = Len(jsonl) + 1 /\ Distinct(jsonl')
  BY <1>2, ExportAppends DEF OnceInv, id
<1>4. /\ Len(keptPending) \in Nat /\ Len(jsonl) \in Nat /\ received \in Nat
      /\ HeldPlaintexts \in Nat
  BY DEF TypeOK, HeldPlaintexts
<1>5. Len(jsonl') + Len(keptPending') + Len(pending') + HeldPlaintexts' = received'
  BY <1>2, <1>3, <1>4 DEF OnceInv
<1> QED BY <1>2, <1>3, <1>5 DEF OnceInv

\* ... and what the loop kept is the queue of the next one.
LEMMA RecordsRequeued ==
  ASSUME TypeOK, OnceInv, pending = <<>>, pending' = keptPending, keptPending' = <<>>,
         UNCHANGED <<jsonl, received>>, HeldPlaintexts' = HeldPlaintexts,
         HeldPlaintexts = 1 => arg' = arg
  PROVE  OnceInv'
<1>1. /\ Distinct(keptPending') /\ Ids(keptPending') = {} /\ Len(keptPending') = 0
      /\ Ids(pending) = {} /\ Len(pending) = 0
  BY DEF Distinct, Ids
<1>2. Len(keptPending) \in Nat /\ Len(jsonl) \in Nat /\ HeldPlaintexts \in Nat
  BY DEF TypeOK, HeldPlaintexts
<1>3. Len(jsonl') + Len(keptPending') + Len(pending') + HeldPlaintexts' = received'
  BY <1>1, <1>2 DEF OnceInv
<1> QED BY <1>1, <1>3 DEF OnceInv

\* The record that the collector has taken in joins the queue, ...
LEMMA RecordQueued ==
  ASSUME TypeOK, OnceInv, HeldPlaintexts = 1, HeldPlaintexts' = 0,
         NEW pt \in Plaintext, pt.id = arg.id, pending' = Append(pending, pt),
         UNCHANGED <<jsonl, keptPending, received>>
  PROVE  OnceInv'
<1>1. pending \in Seq(Plaintext)
  BY DEF TypeOK
<1>2. received \in Nat /\ Len(keptPending) \in Nat /\ Len(jsonl) \in Nat /\ Len(pending) \in Nat
  BY DEF TypeOK
<1>3. /\ pt.id = received /\ Ids(jsonl) \subseteq 1..(received - 1)
      /\ Ids(pending) \subseteq 1..(received - 1) /\ Ids(keptPending) \subseteq 1..(received - 1)
      /\ Len(jsonl) + Len(keptPending) + Len(pending) + 1 = received
  BY DEF OnceInv
<1>4. pt.id \notin Ids(jsonl) /\ pt.id \notin Ids(pending) /\ pt.id \notin Ids(keptPending)
  BY <1>2, <1>3
<1>5. Ids(pending') = Ids(pending) \cup {pt.id} /\ Len(pending') = Len(pending) + 1
  BY <1>1, AppendedElements
<1>6. Distinct(pending')
  BY <1>1, <1>4, AppendedDistinct DEF OnceInv
<1>7. Len(jsonl') + Len(keptPending') + Len(pending') + HeldPlaintexts' = received'
  BY <1>2, <1>3, <1>5
<1>8. pt.id \in 1..received /\ 1..(received - 1) \subseteq 1..received /\ received' - HeldPlaintexts' = received
  BY <1>2, <1>3
<1>9. Ids(jsonl') \cup Ids(pending') \cup Ids(keptPending') \subseteq 1..(received' - HeldPlaintexts')
  BY <1>3, <1>5, <1>8
<1> QED BY <1>4, <1>5, <1>6, <1>7, <1>9 DEF OnceInv

\* ... or is exported at once.
LEMMA RecordPassed ==
  ASSUME TypeOK, TypeOK', OnceInv, HeldPlaintexts = 1, HeldPlaintexts' = 0,
         NEW a, NEW t, Export(arg, a, t), UNCHANGED <<pending, keptPending, received>>
  PROVE  OnceInv'
<1> DEFINE id == arg.id
<1>1. received \in Nat /\ Len(keptPending) \in Nat /\ Len(jsonl) \in Nat /\ Len(pending) \in Nat
  BY DEF TypeOK
<1>2. /\ id = received /\ Ids(jsonl) \subseteq 1..(received - 1)
      /\ Ids(pending) \subseteq 1..(received - 1) /\ Ids(keptPending) \subseteq 1..(received - 1)
      /\ Len(jsonl) + Len(keptPending) + Len(pending) + 1 = received
  BY DEF OnceInv
<1> HIDE DEF id
<1>3. id \notin Ids(jsonl) /\ id \notin Ids(pending) /\ id \notin Ids(keptPending)
  BY <1>1, <1>2
<1>4. Ids(jsonl') = Ids(jsonl) \cup {id} /\ Len(jsonl') = Len(jsonl) + 1 /\ Distinct(jsonl')
  BY <1>3, ExportAppends DEF OnceInv, id
<1>5. Len(jsonl') + Len(keptPending') + Len(pending') + HeldPlaintexts' = received'
  BY <1>1, <1>2, <1>4
<1>6. id \in 1..received /\ 1..(received - 1) \subseteq 1..received /\ received' - HeldPlaintexts' = received
  BY <1>1, <1>2, <1>5
<1>7. Ids(jsonl') \cup Ids(pending') \cup Ids(keptPending') \subseteq 1..(received' - HeldPlaintexts')
  BY <1>2, <1>4, <1>6
<1> QED BY <1>3, <1>4, <1>5, <1>7 DEF OnceInv

\* Every step keeps each record in one place.
LEMMA OnceStep ==
  ASSUME TypeOK, TypeOK', ControlInv, OnceInv, [Next]_vars
  PROVE  OnceInv'
<1>1. ASSUME NEW rec \in PlaintextRecords, LockPlaintext(rec) \/ ReceiveUnverified(rec)
      PROVE  OnceInv'
  <2>1. /\ Receive(rec, "plaintext") \/ Receive(rec, "unverified")
        /\ UNCHANGED <<jsonl, pending, keptPending>>
    BY <1>1 DEF LockPlaintext, ReceiveUnverified, Enter
  <2> QED BY <2>1, RecordTaken
<1>2. CASE MatchNext
  <2>1. /\ pending # <<>> /\ pending' = Tail(pending) /\ received' = received
        /\ HeldPlaintexts' = HeldPlaintexts /\ arg' = arg
    BY <1>2 DEF MatchNext, Goto, collectorVars, HeldPlaintexts
  <2>2. Head(pending) \in Plaintext
    BY <2>1 DEF TypeOK
  <2>3. CASE \E i \in DOMAIN packets : Attributable(Head(pending), i)
    <3>1. PICK i \in DOMAIN packets : Annotate(Head(pending), i)
      BY <1>2, <2>3 DEF MatchNext
    <3>2. keptPending' = keptPending
      BY <1>2, <2>3 DEF MatchNext
    <3> QED BY <2>1, <3>1, <3>2, RecordExported DEF Annotate
  <2>4. CASE ~\E i \in DOMAIN packets : Attributable(Head(pending), i)
    <3>1. keptPending' = Append(keptPending, Considered(Head(pending))) /\ jsonl' = jsonl
      BY <1>2, <2>4 DEF MatchNext
    <3>2. Considered(Head(pending)) \in Plaintext /\ Considered(Head(pending)).id = Head(pending).id
      BY <2>2, ConsideredType
    <3> QED BY <2>1, <3>1, <3>2, RecordKept
  <2> QED BY <2>3, <2>4
<1>3. CASE ExpireNext
  <2>1. /\ pending # <<>> /\ pending' = Tail(pending) /\ received' = received
        /\ HeldPlaintexts' = HeldPlaintexts /\ arg' = arg
    BY <1>3 DEF ExpireNext, Goto, collectorVars, HeldPlaintexts
  <2>2. Head(pending) \in Plaintext
    BY <2>1 DEF TypeOK
  <2>3. CASE Due(Head(pending))
    BY <1>3, <2>1, <2>3, RecordExported DEF ExpireNext
  <2>4. CASE ~Due(Head(pending))
    <3>1. keptPending' = Append(keptPending, Head(pending)) /\ jsonl' = jsonl
      BY <1>3, <2>4 DEF ExpireNext
    <3> QED BY <2>1, <2>2, <3>1, RecordKept
  <2> QED BY <2>3, <2>4
<1>4. CASE MatchEnd
  <2>1. /\ pending = <<>> /\ pending' = keptPending /\ keptPending' = <<>>
        /\ UNCHANGED <<jsonl, received>>
    BY <1>4 DEF MatchEnd, Goto, Leave, collectorVars
  <2>2. HeldPlaintexts' = HeldPlaintexts /\ (HeldPlaintexts = 1 => arg' = arg)
    BY <1>4 DEF MatchEnd, Goto, Leave, collectorVars, HeldPlaintexts, ControlInv
  <2> QED BY <2>1, <2>2, RecordsRequeued
<1>5. CASE ExpireEnd
  <2>1. /\ pending = <<>> /\ pending' = keptPending /\ keptPending' = <<>>
        /\ UNCHANGED <<jsonl, received>>
    BY <1>5 DEF ExpireEnd, Goto, Leave, collectorVars
  <2>2. HeldPlaintexts' = HeldPlaintexts /\ (HeldPlaintexts = 1 => arg' = arg)
    BY <1>5 DEF ExpireEnd, Goto, Leave, collectorVars, HeldPlaintexts, ControlInv
  <2> QED BY <2>1, <2>2, RecordsRequeued
<1>6. CASE PlaintextBody
  <2>1. /\ HeldPlaintexts = 1 /\ HeldPlaintexts' = 0 /\ UNCHANGED <<keptPending, received>>
        /\ arg \in Plaintext
    BY <1>6 DEF PlaintextBody, Leave, ControlInv, HeldPlaintexts, TypeOK
  <2>2. CASE \E i \in DOMAIN packets : Attributable(arg, i)
    <3>1. PICK i \in DOMAIN packets : Annotate(arg, i)
      BY <1>6, <2>2 DEF PlaintextBody
    <3>2. pending' = pending
      BY <1>6, <2>2 DEF PlaintextBody
    <3> QED BY <2>1, <3>1, <3>2, RecordPassed DEF Annotate
  <2>3. CASE ~\E i \in DOMAIN packets : Attributable(arg, i)
    <3>1. pending' = Append(pending, Considered(arg)) /\ jsonl' = jsonl
      BY <1>6, <2>3 DEF PlaintextBody
    <3>2. Considered(arg) \in Plaintext /\ Considered(arg).id = arg.id
      BY <2>1, ConsideredType
    <3> QED BY <2>1, <3>1, <3>2, RecordQueued
  <2> QED BY <2>2, <2>3
<1>7. CASE ExportUnverified
  <2>1. /\ HeldPlaintexts = 1 /\ HeldPlaintexts' = 0
        /\ UNCHANGED <<pending, keptPending, received>>
        /\ Export(arg, FALSE, PreparedTuple(arg.rec))
    BY <1>7 DEF ExportUnverified, HeldPlaintexts
  <2> QED BY <2>1, RecordPassed
<1>8. CASE Advance \/ LockEnqueue \/ LockTick \/ ReturnFlushLoop \/ LockClose \/ WriteNext
           \/ WriteEnd \/ EnqueueBody \/ UNCHANGED vars
  <2>1. UNCHANGED <<jsonl, pending, keptPending, received, collector, arg>>
    BY <1>8 DEF Advance, LockEnqueue, LockTick, ReturnFlushLoop, LockClose, WriteNext, WriteEnd,
       EnqueueBody, Enter, Goto, vars, collectorVars
  <2>2. HeldPlaintexts' = HeldPlaintexts
    BY <2>1 DEF HeldPlaintexts
  <2> QED BY <2>1, <2>2, RecordsUnmoved
<1>9. CASE CallClose \/ \E wire \in WireRecords : CallEnqueue(wire)
  <2>1. /\ UNCHANGED <<jsonl, pending, keptPending, received>>
        /\ collector = "idle" /\ collector' \in {"close", "enqueue"}
    BY <1>9 DEF CallClose, CallEnqueue
  <2>2. HeldPlaintexts' = HeldPlaintexts /\ HeldPlaintexts = 0
    BY <2>1 DEF HeldPlaintexts
  <2> QED BY <2>1, <2>2, RecordsUnmoved
<1> QED
  BY <1>1, <1>2, <1>3, <1>4, <1>5, <1>6, <1>7, <1>8, <1>9 DEF Next, Step

\* Two queues without a common id are, one after the other, a queue of distinct ids.
LEMMA JoinedQueues ==
  ASSUME NEW S, NEW s \in Seq(S), NEW t \in Seq(S),
         Distinct(s), Distinct(t), Ids(s) \cap Ids(t) = {}
  PROVE  /\ Distinct(s \o t) /\ Ids(s \o t) = Ids(s) \cup Ids(t)
         /\ Len(s \o t) = Len(s) + Len(t)
<1> DEFINE u == s \o t
<1>1. /\ Len(s) \in Nat /\ Len(t) \in Nat /\ Len(u) = Len(s) + Len(t)
      /\ DOMAIN s = 1..Len(s) /\ DOMAIN t = 1..Len(t) /\ DOMAIN u = 1..(Len(s) + Len(t))
      /\ \A i \in DOMAIN u : u[i] = IF i <= Len(s) THEN s[i] ELSE t[i - Len(s)]
  OBVIOUS
<1> HIDE DEF u
<1>2. \A i \in DOMAIN u : \/ i \in DOMAIN s /\ u[i] = s[i]
                          \/ i > Len(s) /\ i - Len(s) \in DOMAIN t /\ u[i] = t[i - Len(s)]
  BY <1>1
<1>3. /\ \A i \in DOMAIN s : i \in DOMAIN u /\ u[i] = s[i]
      /\ \A i \in DOMAIN t : i + Len(s) \in DOMAIN u /\ u[i + Len(s)] = t[i]
  BY <1>1
<1>4. Ids(u) = Ids(s) \cup Ids(t)
  BY <1>2, <1>3 DEF Ids
<1>5. Distinct(u)
  <2> SUFFICES ASSUME NEW i \in DOMAIN u, NEW j \in DOMAIN u, u[i].id = u[j].id PROVE i = j
    BY DEF Distinct
  <2>1. CASE i \in DOMAIN s /\ u[i] = s[i] /\ j \in DOMAIN s /\ u[j] = s[j]
    BY <2>1 DEF Distinct
  <2>2. CASE /\ i - Len(s) \in DOMAIN t /\ u[i] = t[i - Len(s)]
             /\ j - Len(s) \in DOMAIN t /\ u[j] = t[j - Len(s)]
    <3>1. i - Len(s) = j - Len(s)
      BY <2>2 DEF Distinct
    <3>2. i \in Int /\ j \in Int
      BY <1>1
    <3> QED BY <1>1, <3>1, <3>2
  <2>3. ASSUME NEW k \in DOMAIN s, NEW m \in DOMAIN t, s[k].id = t[m].id PROVE FALSE
    BY <2>3 DEF Ids
  <2> QED BY <1>2, <2>1, <2>2, <2>3
<1> QED BY <1>1, <1>4, <1>5 DEF u

\* The three places together are what PlaintextExportedOnce speaks of.
LEMMA OnceSuffices ==
  ASSUME TypeOK, OnceInv
  PROVE  PlaintextExportedOnce
<1> DEFINE waiting == keptPending \o pending
<1>1. pending \in Seq(Plaintext) /\ keptPending \in Seq(Plaintext) /\ Len(jsonl) \in Nat
  BY DEF TypeOK
<1>2. /\ Distinct(waiting) /\ Ids(waiting) = Ids(keptPending) \cup Ids(pending)
      /\ Len(waiting) = Len(keptPending) + Len(pending)
  BY <1>1, JoinedQueues DEF OnceInv
<1>3. Ids(jsonl) \cap Ids(waiting) = {}
  BY <1>2 DEF OnceInv
<1>4. \A i \in DOMAIN jsonl, j \in DOMAIN waiting : jsonl[i].id # waiting[j].id
  <2> HIDE DEF waiting
  <2> QED BY <1>3 DEF Ids
<1>5. Len(keptPending) \in Nat /\ Len(pending) \in Nat /\ HeldPlaintexts \in Nat
  BY <1>1 DEF HeldPlaintexts
<1>6. Len(jsonl) + Len(waiting) + HeldPlaintexts = received
  <2>1. Len(jsonl) + Len(keptPending) + Len(pending) + HeldPlaintexts = received
    BY DEF OnceInv
  <2> HIDE DEF waiting
  <2> QED BY <1>1, <1>2, <1>5, <2>1
<1>7. Distinct(jsonl)
  BY DEF OnceInv
<1> QED BY <1>2, <1>4, <1>6, <1>7 DEF PlaintextExportedOnce, Distinct

\* Initially no record has been received.
LEMMA OnceInit ==
  ASSUME Init
  PROVE  OnceInv
<1>1. /\ jsonl = <<>> /\ pending = <<>> /\ keptPending = <<>> /\ received = 0 /\ HeldPlaintexts = 0
  BY DEF Init, HeldPlaintexts
<1>2. Ids(<<>>) = {} /\ Distinct(<<>>) /\ Len(<<>>) = 0
  BY DEF Ids, Distinct
<1> QED BY <1>1, <1>2 DEF OnceInv

--------------------------------------------------------------------------------
(* What a step does to the two files: one of six things. *)

\* The record is one the buffer may attach to a packet now.
Matchable(pt) == pt \in Elements(pending) \/ (collector = "plaintext" /\ pt = arg)

Moves == UNCHANGED <<jsonl, Annotated, arrivals, received>> /\ Len(pcap') = Len(pcap)
Arrives == arrivals' = arrivals + 1 /\ UNCHANGED <<jsonl, Annotated, pcap, received>>
Writes ==
  /\ packets # <<>> /\ Len(pcap') = Len(pcap) + 1
  /\ UNCHANGED <<jsonl, Annotated, arrivals, received>>
Receives == received' = received + 1 /\ UNCHANGED <<jsonl, Annotated, pcap, arrivals>>
ExportsAlone(pt, t) ==
  /\ pt \in Elements(pending) \/ (HeldPlaintexts = 1 /\ pt = arg)
  /\ Export(pt, FALSE, t)
  /\ UNCHANGED <<Annotated, pcap, arrivals, received>>
Attaches(pt, i) ==
  /\ Matchable(pt) /\ Attributable(pt, i) /\ keptPackets = <<>>
  /\ Export(pt, TRUE, OverlaidTuple(packets[i].wire, pt.rec))
  /\ Annotated' = Annotated \cup {[packets[i] EXCEPT !.packetID = pt.id]}
  /\ UNCHANGED <<pcap, arrivals, received>>

\* The packet that Enqueue holds is not annotated.
FreshInv == collector = "enqueue" => arg.packetID = 0

\* The collector enters Enqueue with a new packet, and only annotation gives one an ID.
LEMMA FreshStep ==
  ASSUME FreshInv, [Next]_vars
  PROVE  FreshInv'
<1> USE DEF FreshInv
<1>1. ASSUME NEW wire \in WireRecords, CallEnqueue(wire) PROVE FreshInv'
  BY <1>1 DEF CallEnqueue
<1>2. CASE MatchEnd \/ ExpireEnd \/ PlaintextBody
  BY <1>2 DEF MatchEnd, ExpireEnd, PlaintextBody, Goto, Leave, collectorVars
<1>3. CASE MatchNext \/ WriteNext \/ WriteEnd \/ ExpireNext \/ EnqueueBody
  BY <1>3 DEF MatchNext, WriteNext, WriteEnd, ExpireNext, EnqueueBody, Goto, collectorVars
<1>4. CASE Advance \/ LockEnqueue \/ LockTick \/ ReturnFlushLoop \/ CallClose \/ LockClose
           \/ ExportUnverified \/ UNCHANGED vars
  BY <1>4 DEF Advance, LockEnqueue, LockTick, ReturnFlushLoop, CallClose, LockClose,
     ExportUnverified, vars, collectorVars
<1>5. ASSUME NEW rec \in PlaintextRecords, LockPlaintext(rec) \/ ReceiveUnverified(rec)
      PROVE  FreshInv'
  BY <1>5 DEF LockPlaintext, ReceiveUnverified, Receive
<1> QED BY <1>1, <1>2, <1>3, <1>4, <1>5 DEF Next, Step

\* A record that waits has a PacketID of its own, which no exported one has.
LEMMA WaitingIds ==
  ASSUME TypeOK, ControlInv, OnceInv, NEW pt,
         pt \in Elements(pending) \/ (HeldPlaintexts = 1 /\ pt = arg)
  PROVE  /\ pt \in Plaintext /\ pt.id \in 1..received /\ pt.id # 0
         /\ pt.id \notin Ids(jsonl)
<1>1. received \in Nat
  BY DEF TypeOK
<1>2. CASE pt \in Elements(pending)
  <2>1. pt \in Plaintext /\ pt.id \in Ids(pending)
    BY <1>2 DEF Elements, Ids, TypeOK
  <2>2. pt.id \notin Ids(jsonl) /\ pt.id \in 1..(received - HeldPlaintexts)
    BY <2>1 DEF OnceInv
  <2>3. HeldPlaintexts \in {0, 1}
    BY DEF HeldPlaintexts
  <2> QED BY <1>1, <2>1, <2>2, <2>3
<1>3. CASE HeldPlaintexts = 1 /\ pt = arg
  <2>1. pt \in Plaintext /\ pt.id = received /\ Ids(jsonl) \subseteq 1..(received - 1)
    BY <1>3 DEF OnceInv, HeldPlaintexts, TypeOK
  <2>2. Len(jsonl) \in Nat /\ Len(keptPending) \in Nat /\ Len(pending) \in Nat
        /\ Len(jsonl) + Len(keptPending) + Len(pending) + 1 = received
    BY <1>3 DEF OnceInv, TypeOK
  <2>3. received \in 1..received /\ received # 0 /\ received \notin 1..(received - 1)
    BY <1>1, <2>2
  <2> QED BY <2>1, <2>3
<1> QED BY <1>2, <1>3

\* Annotating a packet adds it to the annotated ones.
LEMMA AnnotateElements ==
  ASSUME TypeOK, NEW pt \in Plaintext, pt.id # 0, NEW i \in DOMAIN packets,
         packets[i].packetID = 0, Annotate(pt, i), UNCHANGED <<keptPackets, pcap>>
  PROVE  Annotated' = Annotated \cup {[packets[i] EXCEPT !.packetID = pt.id]}
<1> DEFINE q == [packets[i] EXCEPT !.packetID = pt.id]
<1>1. packets[i] \in Packet
  BY DEF TypeOK
<1>2. q.packetID = pt.id
  BY <1>1 DEF Packet
<1>3. /\ DOMAIN packets' = DOMAIN packets /\ packets'[i] = q
      /\ \A j \in DOMAIN packets : j # i => packets'[j] = packets[j]
  BY AnnotateType
<1> HIDE DEF q
<1>4. Elements(packets') \subseteq Elements(packets) \cup {q} /\ q \in Elements(packets')
  BY <1>3 DEF Elements
<1>5. \A p \in Elements(packets) : p.packetID # 0 => p \in Elements(packets')
  BY <1>3 DEF Elements
<1>6. AllPackets' = Elements(pcap) \cup Elements(keptPackets) \cup Elements(packets')
  BY DEF AllPackets, Elements
<1>7. Annotated' = {p \in AllPackets' : p.packetID # 0}
  BY DEF Annotated
<1>8. Annotated' = Annotated \cup {q}
  BY <1>2, <1>4, <1>5, <1>6, <1>7 DEF Annotated, AllPackets
<1> QED BY <1>8 DEF q

\* The write loop moves packets between the three places they can be in, ...
LEMMA WriteKeepsPackets ==
  ASSUME TypeOK, WriteNext \/ WriteEnd
  PROVE  AllPackets' = AllPackets
<1>1. packets \in Seq(Packet) /\ keptPackets \in Seq(Packet) /\ pcap \in Seq(Packet)
  BY DEF TypeOK
<1>2. AllPackets' = Elements(pcap') \cup Elements(keptPackets') \cup Elements(packets')
  BY DEF AllPackets, Elements
<1>3. CASE WriteNext
  <2>1. /\ packets' = Tail(packets) /\ Head(packets) \in Packet
        /\ Elements(packets) = Elements(packets') \cup {Head(packets)}
    BY <1>1, <1>3, TailElements DEF WriteNext
  <2>2. CASE Due(Head(packets))
    <3>1. pcap' = Append(pcap, Head(packets)) /\ keptPackets' = keptPackets
      BY <1>3, <2>2 DEF WriteNext
    <3>2. Elements(pcap') = Elements(pcap) \cup {Head(packets)}
      BY <1>1, <2>1, <3>1, AppendedElements
    <3> QED BY <1>2, <2>1, <3>1, <3>2 DEF AllPackets
  <2>3. CASE ~Due(Head(packets))
    <3>1. keptPackets' = Append(keptPackets, Head(packets)) /\ pcap' = pcap
      BY <1>3, <2>3 DEF WriteNext
    <3>2. Elements(keptPackets') = Elements(keptPackets) \cup {Head(packets)}
      BY <1>1, <2>1, <3>1, AppendedElements
    <3> QED BY <1>2, <2>1, <3>1, <3>2 DEF AllPackets
  <2> QED BY <2>2, <2>3
<1>4. CASE WriteEnd
  <2>1. packets = <<>> /\ packets' = keptPackets /\ keptPackets' = <<>> /\ pcap' = pcap
    BY <1>4 DEF WriteEnd
  <2>2. Elements(<<>>) = {}
    BY DEF Elements
  <2> QED BY <1>2, <2>1, <2>2 DEF AllPackets
<1> QED BY <1>3, <1>4

\* ... and Enqueue brings one in that is not annotated.
LEMMA EnqueueKeepsAnnotated ==
  ASSUME TypeOK, ControlInv, FreshInv, EnqueueBody
  PROVE  Annotated' = Annotated
<1>1. packets \in Seq(Packet) /\ pcap \in Seq(Packet) /\ arg \in Packet /\ arg.packetID = 0
  BY DEF TypeOK, EnqueueBody, FreshInv
<1>2. AllPackets' = Elements(pcap') \cup Elements(keptPackets) \cup Elements(packets')
  BY DEF AllPackets, Elements, EnqueueBody
<1>3. AllPackets' = AllPackets \cup {arg}
  <2>1. CASE Len(packets) < MaxBuffered
    <3>1. packets' = Append(packets, arg) /\ pcap' = pcap
      BY <2>1 DEF EnqueueBody
    <3>2. Elements(packets') = Elements(packets) \cup {arg}
      BY <1>1, <3>1, AppendedElements
    <3> QED BY <1>2, <3>1, <3>2 DEF AllPackets
  <2>2. CASE ~(Len(packets) < MaxBuffered)
    <3>1. packets' = Append(Tail(packets), arg) /\ pcap' = Append(pcap, Head(packets))
      BY <2>2 DEF EnqueueBody
    <3>2. packets # <<>>
      BY <1>1, <2>2, BufferAssumption
    <3>3. /\ Tail(packets) \in Seq(Packet) /\ Head(packets) \in Packet
          /\ Elements(packets) = Elements(Tail(packets)) \cup {Head(packets)}
      BY <1>1, <3>2, TailElements
    <3>4. Elements(Append(Tail(packets), arg)) = Elements(Tail(packets)) \cup {arg}
      <4> DEFINE rest == Tail(packets)
      <4>1. rest \in Seq(Packet) /\ arg \in Packet
        BY <1>1, <3>3
      <4> HIDE DEF rest
      <4>2. Elements(Append(rest, arg)) = Elements(rest) \cup {arg}
        BY <4>1, AppendedElements
      <4> QED BY <4>2 DEF rest
    <3>5. Elements(Append(pcap, Head(packets))) = Elements(pcap) \cup {Head(packets)}
      BY <1>1, <3>3, AppendedElements
    <3> QED BY <1>2, <3>1, <3>3, <3>4, <3>5 DEF AllPackets
  <2> QED BY <2>1, <2>2
<1>4. Annotated' = {p \in AllPackets' : p.packetID # 0}
  BY DEF Annotated
<1> QED BY <1>1, <1>3, <1>4 DEF Annotated

\* What a record that is attached does to the files, wherever it waited.
LEMMA AttachEffect ==
  ASSUME TypeOK, ControlInv, OnceInv, NEW pt, Matchable(pt), NEW i \in DOMAIN packets,
         Attributable(pt, i), Annotate(pt, i), keptPackets = <<>>,
         UNCHANGED <<keptPackets, pcap, arrivals, received>>
  PROVE  pt \in Plaintext /\ Attaches(pt, i)
<1>1. pt \in Elements(pending) \/ (HeldPlaintexts = 1 /\ pt = arg)
  BY DEF Matchable, HeldPlaintexts
<1>2. pt \in Plaintext /\ pt.id # 0
  BY <1>1, WaitingIds
<1>3. packets[i].packetID = 0
  BY DEF Attributable, Unrivalled, Candidates
<1>4. Annotated' = Annotated \cup {[packets[i] EXCEPT !.packetID = pt.id]}
  BY <1>2, <1>3, AnnotateElements
<1> QED BY <1>2, <1>4 DEF Attaches, Annotate

\* The head of a queue is an element of it.
LEMMA HeadElement ==
  ASSUME TypeOK, pending # <<>>
  PROVE  Head(pending) \in Elements(pending) /\ Head(pending) \in Plaintext
<1>1. pending \in Seq(Plaintext)
  BY DEF TypeOK
<1> QED BY <1>1, TailElements

\* Every step is one of the six: what the proofs below have to look at.
LEMMA StepEffect ==
  ASSUME TypeOK, TypeOK', ControlInv, OnceInv, FreshInv, [Next]_vars
  PROVE  \/ Moves \/ Arrives \/ Writes \/ Receives
         \/ \E pt \in Plaintext : \E t : ExportsAlone(pt, t)
         \/ \E pt \in Plaintext : \E i \in DOMAIN packets : Attaches(pt, i)
<1>0. /\ packets \in Seq(Packet) /\ keptPackets \in Seq(Packet) /\ pcap \in Seq(Packet)
      /\ pending \in Seq(Plaintext)
  BY DEF TypeOK
<1>1. UNCHANGED <<packets, keptPackets, pcap>> => Annotated' = Annotated
  BY DEF Annotated, AllPackets, Elements
<1>2. ASSUME NEW wire \in WireRecords, CallEnqueue(wire) PROVE Arrives
  BY <1>1, <1>2 DEF CallEnqueue, Arrives
<1>3. ASSUME NEW rec \in PlaintextRecords, LockPlaintext(rec) \/ ReceiveUnverified(rec)
      PROVE  Receives
  BY <1>1, <1>3 DEF LockPlaintext, ReceiveUnverified, Receive, Enter, Receives
<1>4. CASE ExportUnverified
  <2>1. /\ HeldPlaintexts = 1 /\ UNCHANGED <<packets, keptPackets, pcap, arrivals, received>>
        /\ Export(arg, FALSE, PreparedTuple(arg.rec)) /\ arg \in Plaintext
    BY <1>4 DEF ExportUnverified, HeldPlaintexts, TypeOK
  <2>2. ExportsAlone(arg, PreparedTuple(arg.rec))
    BY <1>1, <2>1 DEF ExportsAlone
  <2> QED BY <2>1, <2>2
<1>5. CASE MatchNext
  <2>1. /\ pending # <<>> /\ UNCHANGED <<keptPackets, pcap, arrivals, received>>
        /\ keptPackets = <<>>
    BY <1>5 DEF MatchNext, Goto, collectorVars, ControlInv
  <2>2. Matchable(Head(pending))
    BY <2>1, HeadElement DEF Matchable
  <2>3. CASE \E i \in DOMAIN packets : Attributable(Head(pending), i)
    <3>1. PICK i \in DOMAIN packets : Attributable(Head(pending), i) /\ Annotate(Head(pending), i)
      BY <1>5, <2>3 DEF MatchNext
    <3> QED BY <2>1, <2>2, <3>1, AttachEffect
  <2>4. CASE ~\E i \in DOMAIN packets : Attributable(Head(pending), i)
    <3>1. UNCHANGED <<packets, jsonl>>
      BY <1>5, <2>4 DEF MatchNext
    <3> QED BY <1>1, <2>1, <3>1 DEF Moves
  <2> QED BY <2>3, <2>4
<1>6. CASE PlaintextBody
  <2>1. UNCHANGED <<keptPackets, pcap, arrivals, received>> /\ keptPackets = <<>>
    BY <1>6 DEF PlaintextBody, Leave, ControlInv
  <2>2. Matchable(arg)
    BY <1>6 DEF PlaintextBody, Matchable
  <2>3. CASE \E i \in DOMAIN packets : Attributable(arg, i)
    <3>1. PICK i \in DOMAIN packets : Attributable(arg, i) /\ Annotate(arg, i)
      BY <1>6, <2>3 DEF PlaintextBody
    <3> QED BY <2>1, <2>2, <3>1, AttachEffect
  <2>4. CASE ~\E i \in DOMAIN packets : Attributable(arg, i)
    <3>1. UNCHANGED <<packets, jsonl>>
      BY <1>6, <2>4 DEF PlaintextBody
    <3> QED BY <1>1, <2>1, <3>1 DEF Moves
  <2> QED BY <2>3, <2>4
<1>7. CASE WriteNext
  <2>1. UNCHANGED <<jsonl, arrivals, received>> /\ packets # <<>>
    BY <1>7 DEF WriteNext, Goto, collectorVars
  <2>2. Annotated' = Annotated
    BY <1>7, WriteKeepsPackets DEF Annotated
  <2>3. Len(pcap') = Len(pcap) \/ Len(pcap') = Len(pcap) + 1
    BY <1>0, <1>7 DEF WriteNext
  <2> QED BY <2>1, <2>2, <2>3 DEF Moves, Writes
<1>8. CASE WriteEnd
  <2>1. UNCHANGED <<jsonl, arrivals, received, pcap>>
    BY <1>8 DEF WriteEnd, Goto, collectorVars
  <2>2. Annotated' = Annotated
    BY <1>8, WriteKeepsPackets DEF Annotated
  <2> QED BY <2>1, <2>2 DEF Moves
<1>9. CASE EnqueueBody
  <2>1. UNCHANGED <<jsonl, arrivals, received>>
    BY <1>9 DEF EnqueueBody, Goto, collectorVars
  <2>2. Annotated' = Annotated
    BY <1>9, EnqueueKeepsAnnotated
  <2>3. Len(pcap') = Len(pcap) \/ (packets # <<>> /\ Len(pcap') = Len(pcap) + 1)
    <3>1. CASE Len(packets) < MaxBuffered
      BY <1>9, <3>1 DEF EnqueueBody
    <3>2. CASE ~(Len(packets) < MaxBuffered)
      <4>1. pcap' = Append(pcap, Head(packets)) /\ packets # <<>>
        BY <1>0, <1>9, <3>2, BufferAssumption DEF EnqueueBody
      <4> QED BY <1>0, <4>1
    <3> QED BY <3>1, <3>2
  <2> QED BY <2>1, <2>2, <2>3 DEF Moves, Writes
<1>10. CASE ExpireNext
  <2>1. /\ UNCHANGED <<packets, keptPackets, pcap, arrivals, received>> /\ pending # <<>>
    BY <1>10 DEF ExpireNext, Goto, collectorVars
  <2>2. CASE Due(Head(pending))
    <3>1. ExportsAlone(Head(pending), UnmatchedTuple(Head(pending).rec))
      BY <1>1, <1>10, <2>1, <2>2, HeadElement DEF ExpireNext, ExportsAlone
    <3> QED BY <2>1, <3>1, HeadElement
  <2>3. CASE ~Due(Head(pending))
    <3>1. jsonl' = jsonl
      BY <1>10, <2>3 DEF ExpireNext
    <3> QED BY <1>1, <2>1, <3>1 DEF Moves
  <2> QED BY <2>2, <2>3
<1>11. CASE MatchEnd \/ ExpireEnd
  <2>1. UNCHANGED <<jsonl, packets, keptPackets, pcap, arrivals, received>>
    BY <1>11 DEF MatchEnd, ExpireEnd, Goto, Leave, collectorVars
  <2> QED BY <1>1, <2>1 DEF Moves
<1>12. CASE Advance \/ LockEnqueue \/ LockTick \/ ReturnFlushLoop \/ CallClose \/ LockClose
            \/ UNCHANGED vars
  <2>1. UNCHANGED <<jsonl, packets, keptPackets, pcap, arrivals, received>>
    BY <1>12 DEF Advance, LockEnqueue, LockTick, ReturnFlushLoop, CallClose, LockClose, Enter,
       vars, collectorVars
  <2> QED BY <1>1, <2>1 DEF Moves
<1> QED
  BY <1>2, <1>3, <1>4, <1>5, <1>6, <1>7, <1>8, <1>9, <1>10, <1>11, <1>12 DEF Next, Step

\* What the theorems below rest on.
BaseInv == OrderInv /\ OnceInv /\ FreshInv

\* Every step keeps it.
LEMMA BaseStep ==
  ASSUME BaseInv, TypeOK', [Next]_vars
  PROVE  BaseInv'
BY OrderStep, OnceStep, FreshStep DEF BaseInv, OrderInv

\* It always holds.
LEMMA BaseCorrect == Spec => []BaseInv
<1>1. Init /\ TypeOK => BaseInv
  <2> SUFFICES ASSUME Init, TypeOK PROVE BaseInv
    OBVIOUS
  <2>1. OrderInv
    BY OrderInit
  <2>2. FreshInv
    BY DEF Init, FreshInv
  <2> QED BY <2>1, <2>2, OnceInit DEF BaseInv
<1>2. BaseInv /\ TypeOK' /\ [Next]_vars => BaseInv'
  BY BaseStep
<1> QED BY <1>1, <1>2, TypeCorrect, PTL DEF Spec

\* Every plaintext record received is exported exactly once or still waiting,
\* whichever of the four ways out it takes: no PacketID appears on two lines of
\* the JSONL file, and none is dropped.
THEOREM ExportedOnce == Spec => []PlaintextExportedOnce
<1>1. BaseInv => PlaintextExportedOnce
  BY OnceSuffices DEF BaseInv, OrderInv
<1> QED BY <1>1, BaseCorrect, PTL

--------------------------------------------------------------------------------
(* The two files agree, and an annotation names the connection. *)

\* A record that is attached has been attached to no packet before.
LEMMA AttachedOnce ==
  ASSUME OutputsAgree, NEW id, id \notin Ids(jsonl)
  PROVE  /\ \A p \in Annotated : p.packetID # id
         /\ \A e \in Elements(jsonl) : e.id # id
<1>1. \A e \in Elements(jsonl) : e.id # id
  BY ElementIds
<1> QED BY <1>1 DEF OutputsAgree

\* The files agree after each of the six things a step does.
LEMMA AgreeStep ==
  ASSUME BaseInv, TypeOK', OutputsAgree, [Next]_vars
  PROVE  OutputsAgree'
<1>0. TypeOK /\ ControlInv /\ OnceInv /\ FreshInv
  BY DEF BaseInv, OrderInv
<1>1. CASE Moves \/ Arrives \/ Writes \/ Receives
  <2>1. UNCHANGED <<jsonl, Annotated>>
    BY <1>1 DEF Moves, Arrives, Writes, Receives
  <2>2. Elements(jsonl') = Elements(jsonl)
    BY <2>1
  <2> QED BY <2>1, <2>2 DEF OutputsAgree
<1>2. ASSUME NEW pt \in Plaintext, NEW t, ExportsAlone(pt, t) PROVE OutputsAgree'
  <2> DEFINE e == [id |-> pt.id, annotated |-> FALSE, rec |-> pt.rec, tuple |-> t]
  <2>1. Elements(jsonl') = Elements(jsonl) \cup {e} /\ Annotated' = Annotated
    BY <1>0, <1>2, ExportAppends DEF ExportsAlone
  <2>2. e.annotated = FALSE
    OBVIOUS
  <2> HIDE DEF e
  <2> QED BY <2>1, <2>2 DEF OutputsAgree
<1>3. ASSUME NEW pt \in Plaintext, NEW i \in DOMAIN packets, Attaches(pt, i) PROVE OutputsAgree'
  <2> DEFINE tuple == OverlaidTuple(packets[i].wire, pt.rec)
             e == [id |-> pt.id, annotated |-> TRUE, rec |-> pt.rec, tuple |-> tuple]
             q == [packets[i] EXCEPT !.packetID = pt.id]
  <2>1. Elements(jsonl') = Elements(jsonl) \cup {e} /\ Annotated' = Annotated \cup {q}
    BY <1>0, <1>3, ExportAppends DEF Attaches
  <2>2. packets[i] \in Packet
    BY <1>0 DEF TypeOK
  <2>3. q.packetID = pt.id /\ q.wire = packets[i].wire
    BY <2>2 DEF Packet
  <2>4. e.annotated = TRUE /\ e.id = pt.id /\ e.rec = pt.rec /\ e.tuple = tuple
    OBVIOUS
  <2>5. pt.id \notin Ids(jsonl)
    BY <1>0, <1>3, WaitingIds DEF Attaches, Matchable, HeldPlaintexts
  <2>6. \A p \in Annotated : p.packetID # pt.id
    BY <2>5, AttachedOnce
  <2>7. e.tuple = OverlaidTuple(q.wire, e.rec)
    BY <2>3, <2>4
  <2> HIDE DEF e, q, tuple
  <2>8. \A p \in Annotated' : \E d \in Elements(jsonl') :
          d.annotated /\ d.id = p.packetID /\ d.tuple = OverlaidTuple(p.wire, d.rec)
    <3>1. ASSUME NEW p \in Annotated
          PROVE  \E d \in Elements(jsonl) :
                   d.annotated /\ d.id = p.packetID /\ d.tuple = OverlaidTuple(p.wire, d.rec)
      BY DEF OutputsAgree
    <3> QED BY <2>1, <2>3, <2>4, <2>7, <3>1
  <2>9. \A d \in Elements(jsonl') : d.annotated => \E p \in Annotated' : p.packetID = d.id
    BY <2>1, <2>3, <2>4 DEF OutputsAgree
  <2>10. \A p, r \in Annotated' : p.packetID = r.packetID => p.seq = r.seq
    BY <2>1, <2>3, <2>6 DEF OutputsAgree
  <2> QED BY <2>8, <2>9, <2>10 DEF OutputsAgree
<1> QED BY <1>0, <1>1, <1>2, <1>3, StepEffect

\* Initially there is nothing in either file.
LEMMA OutputsInit ==
  ASSUME Init
  PROVE  Elements(jsonl) = {} /\ Annotated = {}
BY DEF Init, Annotated, AllPackets, Elements

\* The two files agree: a packet annotated with a PacketID has its JSONL record
\* with PcapAnnotated=true and the packet's own endpoints, and a record that says
\* it is annotated has exactly one such packet.
THEOREM FilesAgree == Spec => []OutputsAgree
<1>1. Init => OutputsAgree
  BY OutputsInit DEF OutputsAgree
<1>2. BaseInv /\ TypeOK' /\ OutputsAgree /\ [Next]_vars => OutputsAgree'
  BY AgreeStep
<1> QED BY <1>1, <1>2, BaseCorrect, TypeCorrect, PTL DEF Spec

\* What the collector lets into the buffer it has verified first.
VerifiedInv ==
  /\ \A pt \in Elements(pending) \cup Elements(keptPending) : Verified(pt.rec)
  /\ collector = "plaintext" => Verified(arg.rec)

\* Matching and waiting leave a record what it says; its tuple was verified before
\* the lock was taken.
LEMMA VerifiedStep ==
  ASSUME TrustAnyTuple = FALSE, TypeOK, VerifiedInv, [Next]_vars
  PROVE  VerifiedInv'
<1> USE DEF VerifiedInv
<1>0. pending \in Seq(Plaintext) /\ keptPending \in Seq(Plaintext) /\ Elements(<<>>) = {}
  BY DEF TypeOK, Elements
<1>1. ASSUME UNCHANGED <<pending, keptPending>>,
             collector' = "plaintext" => collector = "plaintext" /\ arg' = arg
      PROVE  VerifiedInv'
  <2>1. Elements(pending') = Elements(pending) /\ Elements(keptPending') = Elements(keptPending)
    BY <1>1
  <2>2. collector' = "plaintext" => Verified(arg'.rec)
    BY <1>1
  <2> QED BY <2>1, <2>2
<1>2. ASSUME NEW pt \in Plaintext, Verified(pt.rec)
      PROVE  Considered(pt) \in Plaintext /\ Verified(Considered(pt).rec)
  <2>1. Considered(pt) \in Plaintext /\ Considered(pt).rec = pt.rec
    BY DEF Considered, Plaintext
  <2> QED BY <1>2, <2>1
<1>3. ASSUME pending # <<>>, pending' = Tail(pending), UNCHANGED <<collector, arg>>,
             \/ UNCHANGED keptPending
             \/ \E pt \in Plaintext : Verified(pt.rec) /\ keptPending' = Append(keptPending, pt)
      PROVE  VerifiedInv'
  <2>1. Elements(pending') \subseteq Elements(pending)
    BY <1>0, <1>3, TailElements
  <2>2. \A pt \in Elements(keptPending') : Verified(pt.rec)
    <3>1. CASE UNCHANGED keptPending
      <4>1. Elements(keptPending') = Elements(keptPending)
        BY <3>1
      <4> QED BY <4>1
    <3>2. ASSUME NEW pt \in Plaintext, Verified(pt.rec), keptPending' = Append(keptPending, pt)
          PROVE  \A x \in Elements(keptPending') : Verified(x.rec)
      <4>1. Elements(keptPending') = Elements(keptPending) \cup {pt}
        BY <1>0, <3>2, AppendedElements
      <4> QED BY <3>2, <4>1
    <3> QED BY <1>3, <3>1, <3>2
  <2> QED BY <1>3, <2>1, <2>2
<1>4. pending # <<>> => Head(pending) \in Plaintext /\ Verified(Head(pending).rec)
  BY HeadElement
<1>5. CASE MatchNext
  <2>1. pending # <<>> /\ pending' = Tail(pending) /\ UNCHANGED <<collector, arg>>
    BY <1>5 DEF MatchNext, Goto, collectorVars
  <2>2. UNCHANGED keptPending \/ keptPending' = Append(keptPending, Considered(Head(pending)))
    BY <1>5 DEF MatchNext
  <2> QED BY <1>2, <1>3, <1>4, <2>1, <2>2
<1>6. CASE ExpireNext
  <2>1. pending # <<>> /\ pending' = Tail(pending) /\ UNCHANGED <<collector, arg>>
    BY <1>6 DEF ExpireNext, Goto, collectorVars
  <2>2. UNCHANGED keptPending \/ keptPending' = Append(keptPending, Head(pending))
    BY <1>6 DEF ExpireNext
  <2> QED BY <1>3, <1>4, <2>1, <2>2
<1>7. CASE MatchEnd \/ ExpireEnd
  <2>1. /\ pending' = keptPending /\ keptPending' = <<>>
        /\ collector' = "plaintext" => collector = "plaintext" /\ arg' = arg
    BY <1>7 DEF MatchEnd, ExpireEnd, Goto, Leave, collectorVars
  <2>2. Elements(pending') = Elements(keptPending) /\ Elements(keptPending') = {}
    BY <1>0, <2>1
  <2>3. collector' = "plaintext" => Verified(arg'.rec)
    BY <2>1
  <2> QED BY <2>2, <2>3
<1>8. CASE PlaintextBody
  <2>1. /\ collector = "plaintext" /\ collector' \in {"idle", "plaintext"}
        /\ collector' = "plaintext" => arg' = arg
        /\ keptPending' = keptPending /\ arg \in Plaintext
    BY <1>8 DEF PlaintextBody, Leave, TypeOK
  <2>2. UNCHANGED pending \/ pending' = Append(pending, Considered(arg))
    BY <1>8 DEF PlaintextBody
  <2>3. CASE UNCHANGED pending
    BY <1>1, <2>1, <2>3
  <2>4. CASE pending' = Append(pending, Considered(arg))
    <3>1. Considered(arg) \in Plaintext /\ Verified(Considered(arg).rec)
      BY <1>2, <2>1
    <3>2. Elements(pending') = Elements(pending) \cup {Considered(arg)}
      BY <1>0, <2>4, <3>1, AppendedElements
    <3>3. Elements(keptPending') = Elements(keptPending)
      BY <2>1
    <3> QED BY <2>1, <3>1, <3>2, <3>3
  <2> QED BY <2>2, <2>3, <2>4
<1>9. ASSUME NEW rec \in PlaintextRecords, LockPlaintext(rec) PROVE VerifiedInv'
  <2>1. /\ Verified(rec) /\ arg'.rec = rec /\ UNCHANGED <<pending, keptPending>>
    BY <1>9 DEF LockPlaintext, Receive, Enter
  <2>2. Elements(pending') = Elements(pending) /\ Elements(keptPending') = Elements(keptPending)
    BY <2>1
  <2> QED BY <2>1, <2>2
<1>10. ASSUME NEW rec \in PlaintextRecords, ReceiveUnverified(rec) PROVE VerifiedInv'
  BY <1>1, <1>10 DEF ReceiveUnverified, Receive
<1>11. ASSUME NEW wire \in WireRecords, CallEnqueue(wire) PROVE VerifiedInv'
  BY <1>1, <1>11 DEF CallEnqueue
<1>12. CASE Advance \/ LockEnqueue \/ LockTick \/ ReturnFlushLoop \/ CallClose \/ LockClose
            \/ ExportUnverified \/ WriteNext \/ WriteEnd \/ EnqueueBody \/ UNCHANGED vars
  <2>1. /\ UNCHANGED <<pending, keptPending>>
        /\ collector' = "plaintext" => collector = "plaintext" /\ arg' = arg
    BY <1>12 DEF Advance, LockEnqueue, LockTick, ReturnFlushLoop, CallClose, LockClose,
       ExportUnverified, WriteNext, WriteEnd, EnqueueBody, Enter, Goto, vars, collectorVars
  <2> QED BY <1>1, <2>1
<1> QED
  BY <1>5, <1>6, <1>7, <1>8, <1>9, <1>10, <1>11, <1>12 DEF Next, Step

\* A record of a verified tuple is attached to a packet of its connection.
LEMMA AttachedConnection ==
  ASSUME NEW pkt, pkt.wire \in WireRecord, NEW pt, pt.rec \in PlaintextRecord,
         HasTuple(pt.rec), Score(pkt, pt) >= 0
  PROVE  Tuple(pkt.wire) = Tuple(Oriented(pt.rec)) /\ pkt.wire.tcpLen # 0
<1>1. Tuple(pkt.wire) = Tuple(Oriented(pt.rec))
  BY ConnectionCorrect DEF NamesConnection
<1>2. pkt.wire.tcpLen # 0
  BY DEF Score
<1> QED BY <1>1, <1>2

\* Annotation by a verified record is with a packet of its connection and direction; no
\* other step annotates, and an annotated packet keeps its bytes.
LEMMA NamesStep ==
  ASSUME BaseInv, TypeOK', VerifiedInv, OutputsAgree, AnnotationNamesConnection, [Next]_vars
  PROVE  AnnotationNamesConnection'
<1>0. TypeOK /\ ControlInv /\ OnceInv /\ FreshInv
  BY DEF BaseInv, OrderInv
<1> DEFINE Names(e, p) == e.annotated /\ e.id = p.packetID =>
              /\ Verified(e.rec) /\ Tuple(p.wire) = Tuple(Oriented(e.rec))
              /\ p.wire.tcpLen # 0
<1>1. CASE Moves \/ Arrives \/ Writes \/ Receives
  <2>1. UNCHANGED <<jsonl, Annotated>>
    BY <1>1 DEF Moves, Arrives, Writes, Receives
  <2>2. Elements(jsonl') = Elements(jsonl)
    BY <2>1
  <2> QED BY <2>1, <2>2 DEF AnnotationNamesConnection
<1>2. ASSUME NEW pt \in Plaintext, NEW t, ExportsAlone(pt, t) PROVE AnnotationNamesConnection'
  <2> DEFINE e == [id |-> pt.id, annotated |-> FALSE, rec |-> pt.rec, tuple |-> t]
  <2>1. Elements(jsonl') = Elements(jsonl) \cup {e} /\ Annotated' = Annotated
    BY <1>0, <1>2, ExportAppends DEF ExportsAlone
  <2>2. e.annotated = FALSE
    OBVIOUS
  <2> HIDE DEF e
  <2> QED BY <2>1, <2>2 DEF AnnotationNamesConnection
<1>3. ASSUME NEW pt \in Plaintext, NEW i \in DOMAIN packets, Attaches(pt, i)
      PROVE  AnnotationNamesConnection'
  <2> DEFINE tuple == OverlaidTuple(packets[i].wire, pt.rec)
             e == [id |-> pt.id, annotated |-> TRUE, rec |-> pt.rec, tuple |-> tuple]
             q == [packets[i] EXCEPT !.packetID = pt.id]
  <2>1. Elements(jsonl') = Elements(jsonl) \cup {e} /\ Annotated' = Annotated \cup {q}
    BY <1>0, <1>3, ExportAppends DEF Attaches
  <2>2. packets[i] \in Packet
    BY <1>0 DEF TypeOK
  <2>3. q.packetID = pt.id /\ q.wire = packets[i].wire
    BY <2>2 DEF Packet
  <2>4. e.id = pt.id /\ e.rec = pt.rec
    OBVIOUS
  <2>5. pt.id \notin Ids(jsonl)
    BY <1>0, <1>3, WaitingIds DEF Attaches, Matchable, HeldPlaintexts
  <2>6. /\ \A p \in Annotated : p.packetID # pt.id
        /\ \A d \in Elements(jsonl) : d.id # pt.id
    BY <2>5, AttachedOnce
  <2>7. Verified(pt.rec)
    BY <1>3 DEF Attaches, Matchable, VerifiedInv
  <2>8. Score(packets[i], pt) >= 0
    BY <1>3 DEF Attaches, Attributable, Unrivalled, Candidates
  <2>9. packets[i].wire \in WireRecord /\ pt.rec \in PlaintextRecord
    BY <2>2, RecordAssumption DEF Packet, Plaintext
  <2>10. Tuple(packets[i].wire) = Tuple(Oriented(pt.rec)) /\ packets[i].wire.tcpLen # 0
    BY <2>7, <2>8, <2>9, AttachedConnection DEF Verified
  <2>11. Names(e, q)
    BY <2>3, <2>4, <2>7, <2>10
  <2> HIDE DEF e, q, tuple
  <2>12. \A d \in Elements(jsonl), p \in Annotated : Names(d, p)
    BY DEF AnnotationNamesConnection
  <2>13. \A d \in Elements(jsonl) : Names(d, q)
    BY <2>3, <2>6
  <2>14. \A p \in Annotated : Names(e, p)
    BY <2>4, <2>6
  <2>15. \A d \in Elements(jsonl'), p \in Annotated' : Names(d, p)
    <3> HIDE DEF Names
    <3> QED BY <2>1, <2>11, <2>12, <2>13, <2>14
  <2> QED BY <2>15 DEF AnnotationNamesConnection
<1> QED BY <1>0, <1>1, <1>2, <1>3, StepEffect

\* README: "An annotation identifies the connection".  In the program, where the
\* collector verifies a tuple before it hands a record to the buffer, an annotated
\* packet is of the connection the kernel reported, travels the way the bytes did
\* and is no bare TCP acknowledgement, whatever addresses and ports are in play.
THEOREM AnnotationsNameConnections ==
  ASSUME TrustAnyTuple = FALSE
  PROVE  Spec => []AnnotationNamesConnection
<1> DEFINE Inv == OutputsAgree /\ VerifiedInv /\ AnnotationNamesConnection
<1>1. Init => Inv
  <2> SUFFICES ASSUME Init PROVE Inv
    OBVIOUS
  <2>1. Elements(pending) = {} /\ Elements(keptPending) = {} /\ collector = "idle"
    BY DEF Init, Elements
  <2> QED BY <2>1, OutputsInit DEF OutputsAgree, VerifiedInv, AnnotationNamesConnection
<1>2. BaseInv /\ TypeOK' /\ Inv /\ [Next]_vars => Inv'
  <2> SUFFICES ASSUME BaseInv, TypeOK', Inv, [Next]_vars PROVE Inv'
    OBVIOUS
  <2>1. TypeOK
    BY DEF BaseInv, OrderInv
  <2> QED BY <2>1, AgreeStep, VerifiedStep, NamesStep
<1>3. Inv => AnnotationNamesConnection
  OBVIOUS
<1> QED BY <1>1, <1>2, <1>3, BaseCorrect, TypeCorrect, PTL DEF Spec

\* Waiting records are told apart by their ids.
LEMMA WaitingDistinct ==
  ASSUME TypeOK, OnceInv, NEW pt \in Elements(pending) \cup Elements(keptPending),
         NEW x, Matchable(x), x.id = pt.id
  PROVE  x = pt
<1>1. pt.id \in Ids(pending) \cup Ids(keptPending)
  BY ElementIds
<1>2. CASE x \in Elements(pending)
  <2>1. x.id \in Ids(pending)
    BY <1>2, ElementIds
  <2>2. pt \in Elements(pending)
    <3>1. pt.id \notin Ids(keptPending)
      BY <2>1 DEF OnceInv
    <3> QED BY <3>1, ElementIds
  <2>3. PICK i \in DOMAIN pending, j \in DOMAIN pending : x = pending[i] /\ pt = pending[j]
    BY <1>2, <2>2 DEF Elements
  <2>4. i = j
    BY <2>3 DEF OnceInv, Distinct
  <2> QED BY <2>3, <2>4
<1>3. CASE collector = "plaintext" /\ x = arg
  <2>1. HeldPlaintexts = 1 /\ x.id = received /\ received \in Nat
    BY <1>3 DEF HeldPlaintexts, OnceInv, TypeOK
  <2>2. pt.id \in 1..(received - 1)
    BY <1>1, <2>1 DEF OnceInv
  <2>3. FALSE
    BY <2>1, <2>2
  <2> QED BY <2>3
<1> QED BY <1>2, <1>3 DEF Matchable

\* No step exports an ambiguous record with a packet.
LEMMA AmbiguityStep ==
  ASSUME BaseInv, TypeOK', [Next]_vars,
         NEW pt \in Elements(pending) \cup Elements(keptPending), pt.ambiguous,
         NEW e \in Elements(jsonl'), e.id = pt.id
  PROVE  ~e.annotated
<1>0. TypeOK /\ ControlInv /\ OnceInv /\ FreshInv
  BY DEF BaseInv, OrderInv
<1>1. e \notin Elements(jsonl)
  <2>1. pt.id \in Ids(pending) \cup Ids(keptPending)
    BY ElementIds
  <2>2. pt.id \notin Ids(jsonl)
    BY <1>0, <2>1 DEF OnceInv
  <2> QED BY <2>2, ElementIds
<1>2. CASE Moves \/ Arrives \/ Writes \/ Receives
  <2>1. jsonl' = jsonl
    BY <1>2 DEF Moves, Arrives, Writes, Receives
  <2> QED BY <1>1, <2>1
<1>3. ASSUME NEW x \in Plaintext, NEW t, ExportsAlone(x, t) PROVE ~e.annotated
  <2>1. Elements(jsonl') = Elements(jsonl) \cup
          {[id |-> x.id, annotated |-> FALSE, rec |-> x.rec, tuple |-> t]}
    BY <1>0, <1>3, ExportAppends DEF ExportsAlone
  <2>2. e = [id |-> x.id, annotated |-> FALSE, rec |-> x.rec, tuple |-> t]
    BY <1>1, <2>1
  <2> QED BY <2>2
<1>4. ASSUME NEW x \in Plaintext, NEW i \in DOMAIN packets, Attaches(x, i) PROVE FALSE
  <2> DEFINE tuple == OverlaidTuple(packets[i].wire, x.rec)
             d == [id |-> x.id, annotated |-> TRUE, rec |-> x.rec, tuple |-> tuple]
  <2>1. Elements(jsonl') = Elements(jsonl) \cup {d}
    BY <1>0, <1>4, ExportAppends DEF Attaches
  <2>2. e = d
    BY <1>1, <2>1
  <2>3. x.id = pt.id
    BY <2>2
  <2>4. x = pt
    BY <1>0, <1>4, <2>3, WaitingDistinct DEF Attaches
  <2>5. Considered(x).ambiguous
    BY <2>4 DEF Considered, Plaintext
  <2> QED BY <1>4, <2>5 DEF Attaches, Attributable
<1> QED BY <1>0, <1>2, <1>3, <1>4, StepEffect

\* "Once competing connections are observed, expiry of one candidate must not make
\* a remaining connection appear uniquely attributable": from then on, no step
\* exports the record as annotated.
THEOREM AmbiguityStays == Spec => AmbiguityIsFinal
<1>1. BaseInv /\ TypeOK' /\ [Next]_vars =>
        [\A pt \in Elements(pending) \cup Elements(keptPending) :
           pt.ambiguous => \A e \in Elements(jsonl') : e.id = pt.id => ~e.annotated]_vars
  BY AmbiguityStep
<1> QED BY <1>1, BaseCorrect, TypeCorrect, PTL DEF Spec, AmbiguityIsFinal

--------------------------------------------------------------------------------
(* Close empties the buffer. *)

\* What Close's own pass leaves behind, loop by loop; afterwards a tick of
\* flushLoop finds nothing.
CloseInv ==
  /\ Final /\ stage \in {"write", "expire"} => keptPackets = <<>>
  /\ Final /\ stage = "expire" => packets = <<>> /\ keptPending = <<>>
  /\ collector = "closed" =>
       packets = <<>> /\ keptPackets = <<>> /\ pending = <<>> /\ keptPending = <<>>

\* Every step keeps the loops of Close emptying both slices for good.
LEMMA CloseStep ==
  ASSUME TypeOK, ControlInv, CloseInv, [Next]_vars
  PROVE  CloseInv'
<1>0. /\ packets \in Seq(Packet) /\ keptPackets \in Seq(Packet)
      /\ pending \in Seq(Plaintext) /\ keptPending \in Seq(Plaintext)
  BY DEF TypeOK
<1>1. CASE Advance \/ ReturnFlushLoop \/ UNCHANGED vars
  <2>1. UNCHANGED <<packets, keptPackets, pending, keptPending, collector, mu, stage>>
    BY <1>1 DEF Advance, ReturnFlushLoop, vars, collectorVars
  <2> QED BY <2>1 DEF CloseInv, Final
<1>2. CASE LockEnqueue \/ LockTick
  <2>1. UNCHANGED <<packets, keptPackets, pending, keptPending, collector>> /\ ~Final'
    BY <1>2 DEF LockEnqueue, LockTick, Enter, collectorVars, Final
  <2> QED BY <2>1 DEF CloseInv
<1>3. CASE LockClose
  <2>1. /\ UNCHANGED <<packets, keptPackets, pending, keptPending, collector>> /\ stage' = "match"
    BY <1>3 DEF LockClose, collectorVars
  <2> QED BY <2>1 DEF CloseInv
<1>4. CASE CallClose \/ \E wire \in WireRecords : CallEnqueue(wire)
  <2>1. /\ collector = "idle" /\ collector' # "closed" /\ mu' = mu
    BY <1>4 DEF CallClose, CallEnqueue
  <2>2. mu # "collector"
    BY <2>1 DEF ControlInv
  <2> QED BY <2>1, <2>2 DEF CloseInv, Final
<1>5. ASSUME NEW rec \in PlaintextRecords, LockPlaintext(rec) \/ ReceiveUnverified(rec)
      PROVE  CloseInv'
  <2>1. collector' \notin {"close", "closed"}
    BY <1>5 DEF LockPlaintext, ReceiveUnverified, Receive
  <2> QED BY <2>1 DEF CloseInv, Final
<1>6. CASE ExportUnverified \/ EnqueueBody \/ PlaintextBody
  <2>1. collector' \notin {"close", "closed"}
    BY <1>6 DEF ExportUnverified, EnqueueBody, PlaintextBody, Goto, Leave, collectorVars, ControlInv
  <2> QED BY <2>1 DEF CloseInv, Final
<1>7. CASE MatchNext
  <2>1. /\ pending # <<>> /\ UNCHANGED <<collector, stage, mu>>
        /\ stage \in {"match", "rematch"}
    BY <1>7 DEF MatchNext, Goto, collectorVars
  <2>2. collector # "closed"
    BY <2>1 DEF CloseInv
  <2> QED BY <2>1, <2>2 DEF CloseInv
<1>8. CASE MatchEnd
  <2>1. CASE stage = "match"
    <3>1. /\ UNCHANGED <<packets, keptPackets, collector, mu>> /\ stage' = "write"
          /\ pending = <<>> /\ pending' = keptPending /\ keptPending' = <<>> /\ keptPackets = <<>>
      BY <1>8, <2>1 DEF MatchEnd, Goto, collectorVars, ControlInv
    <3> QED BY <3>1 DEF CloseInv
  <2>2. CASE stage = "rematch"
    <3>1. collector' = "idle"
      BY <1>8, <2>2 DEF MatchEnd, Leave, ControlInv
    <3> QED BY <3>1 DEF CloseInv, Final
  <2> QED BY <1>8, <2>1, <2>2 DEF MatchEnd
<1>9. CASE WriteNext
  <2>1. /\ stage = "write" /\ stage' = "write" /\ UNCHANGED <<collector, mu, pending, keptPending>>
        /\ packets # <<>>
    BY <1>9 DEF WriteNext, Goto, collectorVars
  <2>2. collector # "closed"
    BY <2>1 DEF CloseInv
  <2>3. Final => keptPackets' = keptPackets
    BY <1>9 DEF WriteNext, Due
  <2> QED BY <2>1, <2>2, <2>3 DEF CloseInv, Final
<1>10. CASE WriteEnd
  <2>1. /\ stage = "write" /\ UNCHANGED <<collector, mu, pending, keptPending>>
        /\ packets' = keptPackets /\ keptPackets' = <<>> /\ keptPending = <<>>
    BY <1>10 DEF WriteEnd, Goto, collectorVars, ControlInv
  <2> QED BY <2>1 DEF CloseInv, Final
<1>11. CASE ExpireNext
  <2>1. /\ stage = "expire" /\ pending # <<>>
        /\ UNCHANGED <<collector, mu, stage, packets, keptPackets>>
    BY <1>11 DEF ExpireNext, Goto, collectorVars
  <2>2. collector # "closed"
    BY <2>1 DEF CloseInv
  <2>3. Final => keptPending' = keptPending
    BY <1>11 DEF ExpireNext, Due
  <2> QED BY <2>1, <2>2, <2>3 DEF CloseInv, Final
<1>12. CASE ExpireEnd
  <2>1. /\ stage = "expire" /\ pending = <<>> /\ pending' = keptPending /\ keptPending' = <<>>
        /\ UNCHANGED <<packets, keptPackets>>
    BY <1>12 DEF ExpireEnd
  <2>2. CASE mu = "collector" /\ collector # "close"
    <3>1. UNCHANGED <<collector, mu>> /\ stage' = "body" /\ collector # "closed"
      BY <1>12, <2>2 DEF ExpireEnd, Goto, collectorVars, ControlInv
    <3> QED BY <2>1, <3>1 DEF CloseInv
  <2>3. CASE ~(mu = "collector" /\ collector # "close")
    <3>1. /\ mu' = "free" /\ collector' = IF mu = "collector" THEN "closed" ELSE collector
      BY <1>12, <2>3 DEF ExpireEnd, Leave
    <3>2. CASE mu = "collector"
      <4>1. Final
        BY <2>3, <3>2 DEF Final
      <4> QED BY <2>1, <3>1, <4>1 DEF CloseInv, Final
    <3>3. CASE mu # "collector"
      BY <2>1, <3>1, <3>3 DEF CloseInv, Final
    <3> QED BY <3>2, <3>3
  <2> QED BY <2>2, <2>3
<1> QED
  BY <1>1, <1>2, <1>3, <1>4, <1>5, <1>6, <1>7, <1>8, <1>9, <1>10, <1>11, <1>12 DEF Next, Step

\* With nothing left in the buffer, the counts of PcapInArrivalOrder and of
\* PlaintextExportedOnce are those of the files.
LEMMA CloseSuffices ==
  ASSUME BaseInv, CloseInv
  PROVE  CloseFlushesAll
<1> SUFFICES ASSUME collector = "closed" PROVE Len(pcap) = arrivals /\ Len(jsonl) = received
  BY DEF CloseFlushesAll
<1>1. packets = <<>> /\ keptPackets = <<>> /\ pending = <<>> /\ keptPending = <<>>
  BY DEF CloseInv
<1>2. HeldPackets = 0 /\ HeldPlaintexts = 0
  BY DEF HeldPackets, HeldPlaintexts
<1>3. Len(pcap) \in Nat /\ Len(jsonl) \in Nat /\ Len(<<>>) = 0
  BY DEF BaseInv, OrderInv, TypeOK
<1>4. arrivals = Len(pcap) + Len(keptPackets) + Len(packets) + HeldPackets
  BY DEF BaseInv, OrderInv, PcapInArrivalOrder
<1>5. Len(jsonl) + Len(keptPending) + Len(pending) + HeldPlaintexts = received
  BY DEF BaseInv, OnceInv
<1> QED BY <1>1, <1>2, <1>3, <1>4, <1>5

\* Close leaves nothing behind, although flushLoop may take one more tick: every
\* packet reported is in the pcapng file and every record in the JSONL file.
THEOREM CloseFlushes == Spec => []CloseFlushesAll
<1>1. Init => CloseInv
  BY DEF Init, CloseInv, Final
<1>2. BaseInv /\ CloseInv /\ [Next]_vars => CloseInv'
  BY CloseStep DEF BaseInv, OrderInv
<1>3. BaseInv /\ CloseInv => CloseFlushesAll
  BY CloseSuffices
<1> QED BY <1>1, <1>2, <1>3, BaseCorrect, PTL DEF Spec

--------------------------------------------------------------------------------
(* Competing connections are remembered. *)

Buffered == Elements(keptPackets) \cup Elements(packets)

\* Packets of two connections, among those of B, could carry the record.
Contested(B, pt) ==
  \E p, q \in B :
    /\ Score(p, pt) >= 0 /\ HasTuple(p.wire) /\ Score(q, pt) >= 0 /\ HasTuple(q.wire)
    /\ ~SameConnection(p.wire, q.wire)

Remembers(B, pt) == ~HasTuple(pt.rec) /\ Contested(B, pt) => pt.ambiguous

\* A record that a loop has considered remembers, until a packet arrives.
RememberInv ==
  /\ \A pt \in Elements(keptPending) : Remembers(Buffered, pt)
  /\ stage \notin {"match", "rematch"} => \A pt \in Elements(pending) : Remembers(Buffered, pt)

\* The score reads the fields and the time of a packet and of a record, not the
\* PacketID it may have been annotated with.
LEMMA ScoreReads ==
  ASSUME NEW p, NEW q, NEW pt, NEW x, q.wire = p.wire, q.receivedAt = p.receivedAt,
         x.rec = pt.rec, x.receivedAt = pt.receivedAt
  PROVE  Score(q, x) = Score(p, pt)
<1>1. TimesCorrelated(q, x) = TimesCorrelated(p, pt) /\ TimeBonus(q, x) = TimeBonus(p, pt)
  BY DEF TimesCorrelated, TimeBonus, BothTimed, AgentDelta, ReceiveDelta
<1>2. Compatible(q, x) = Compatible(p, pt)
  BY <1>1 DEF Compatible
<1> QED BY <1>1, <1>2 DEF Score

\* What remembers among more packets remembers among fewer, ...
LEMMA FewerPackets ==
  ASSUME NEW B, NEW C, \A p \in C : \E r \in B : r.wire = p.wire /\ r.receivedAt = p.receivedAt,
         NEW pt, Remembers(B, pt)
  PROVE  Remembers(C, pt)
<1> SUFFICES ASSUME ~HasTuple(pt.rec), Contested(C, pt) PROVE Contested(B, pt)
  BY DEF Remembers
<1>1. PICK p \in C, q \in C :
        /\ Score(p, pt) >= 0 /\ HasTuple(p.wire) /\ Score(q, pt) >= 0 /\ HasTuple(q.wire)
        /\ ~SameConnection(p.wire, q.wire)
  BY DEF Contested
<1>2. PICK r \in B : r.wire = p.wire /\ r.receivedAt = p.receivedAt
  OBVIOUS
<1>3. PICK s \in B : s.wire = q.wire /\ s.receivedAt = q.receivedAt
  OBVIOUS
<1>4. Score(r, pt) = Score(p, pt) /\ Score(s, pt) = Score(q, pt)
  BY <1>2, <1>3, ScoreReads
<1> QED BY <1>1, <1>2, <1>3, <1>4 DEF Contested

\* ... and the scan makes a record remember what is buffered now.
LEMMA ConsideredRemembers ==
  ASSUME TypeOK, keptPackets = <<>>, NEW pt \in Plaintext
  PROVE  Remembers(Buffered, Considered(pt))
<1> DEFINE x == Considered(pt)
<1>1. /\ x.rec = pt.rec /\ x.receivedAt = pt.receivedAt
      /\ (x.ambiguous <=> pt.ambiguous \/ (~HasTuple(pt.rec) /\ MultipleConnections(pt)))
  BY DEF Considered, Plaintext
<1>2. Buffered = Elements(packets)
  BY DEF Buffered, Elements
<1> HIDE DEF x
<1>3. ASSUME Contested(Buffered, x) PROVE MultipleConnections(pt)
  <2>1. PICK p \in Buffered, q \in Buffered :
          /\ Score(p, x) >= 0 /\ HasTuple(p.wire) /\ Score(q, x) >= 0 /\ HasTuple(q.wire)
          /\ ~SameConnection(p.wire, q.wire)
    BY <1>3 DEF Contested
  <2>2. PICK i \in DOMAIN packets, j \in DOMAIN packets : p = packets[i] /\ q = packets[j]
    BY <1>2 DEF Elements
  <2>3. Score(p, x) = Score(p, pt) /\ Score(q, x) = Score(q, pt)
    BY <1>1, ScoreReads
  <2> QED BY <2>1, <2>2, <2>3 DEF MultipleConnections
<1>4. Remembers(Buffered, x)
  BY <1>1, <1>3 DEF Remembers
<1> QED BY <1>4 DEF x

\* Only Enqueue brings a packet into the buffer.
LEMMA BufferShrinks ==
  ASSUME TypeOK, [Next]_vars, ~EnqueueBody
  PROVE  \A p \in Buffered' : \E r \in Buffered : r.wire = p.wire /\ r.receivedAt = p.receivedAt
<1>0. packets \in Seq(Packet) /\ keptPackets \in Seq(Packet) /\ Elements(<<>>) = {}
  BY DEF TypeOK, Elements
<1>1. Buffered' = Elements(keptPackets') \cup Elements(packets')
  BY DEF Buffered, Elements
<1>2. ASSUME UNCHANGED <<packets, keptPackets>>
      PROVE  \A p \in Buffered' : p \in Buffered
  BY <1>2 DEF Buffered, Elements
<1>3. ASSUME NEW pt \in Plaintext, NEW i \in DOMAIN packets, Annotate(pt, i), UNCHANGED keptPackets
      PROVE  \A p \in Buffered' : \E r \in Buffered : r.wire = p.wire /\ r.receivedAt = p.receivedAt
  <2>1. /\ DOMAIN packets' = DOMAIN packets
        /\ \A j \in DOMAIN packets : packets'[j].wire = packets[j].wire
                                    /\ packets'[j].receivedAt = packets[j].receivedAt
    <3>1. \A j \in DOMAIN packets : packets[j] \in Packet
      BY <1>0
    <3> QED BY <1>3, <3>1, AnnotateType DEF Packet
  <2>2. \A p \in Elements(packets') :
          \E r \in Elements(packets) : r.wire = p.wire /\ r.receivedAt = p.receivedAt
    BY <2>1 DEF Elements
  <2>3. Elements(keptPackets') = Elements(keptPackets)
    BY <1>3
  <2> QED BY <1>1, <2>2, <2>3 DEF Buffered
<1>4. CASE MatchNext
  <2>1. UNCHANGED keptPackets /\ pending # <<>>
    BY <1>4 DEF MatchNext
  <2>2. \/ UNCHANGED packets
        \/ \E i \in DOMAIN packets : Annotate(Head(pending), i)
    BY <1>4 DEF MatchNext
  <2> QED BY <1>2, <1>3, <2>1, <2>2, HeadElement
<1>5. CASE PlaintextBody
  <2>1. UNCHANGED keptPackets /\ arg \in Plaintext
    BY <1>5 DEF PlaintextBody, TypeOK
  <2>2. UNCHANGED packets \/ \E i \in DOMAIN packets : Annotate(arg, i)
    BY <1>5 DEF PlaintextBody
  <2> QED BY <1>2, <1>3, <2>1, <2>2
<1>6. CASE WriteNext
  <2>1. /\ packets' = Tail(packets) /\ Head(packets) \in Packet
        /\ Elements(packets) = Elements(packets') \cup {Head(packets)}
    BY <1>0, <1>6, TailElements DEF WriteNext
  <2>2. UNCHANGED keptPackets \/ keptPackets' = Append(keptPackets, Head(packets))
    BY <1>6 DEF WriteNext
  <2>3. Elements(keptPackets') \subseteq Elements(keptPackets) \cup {Head(packets)}
    <3>1. CASE UNCHANGED keptPackets
      <4>1. Elements(keptPackets') = Elements(keptPackets)
        BY <3>1
      <4> QED BY <4>1
    <3>2. CASE keptPackets' = Append(keptPackets, Head(packets))
      BY <1>0, <2>1, <3>2, AppendedElements
    <3> QED BY <2>2, <3>1, <3>2
  <2>4. Buffered' \subseteq Buffered
    BY <1>1, <2>1, <2>3 DEF Buffered
  <2> QED BY <2>4
<1>7. CASE WriteEnd
  <2>1. packets' = keptPackets /\ keptPackets' = <<>>
    BY <1>7 DEF WriteEnd
  <2>2. Buffered' \subseteq Buffered
    BY <1>0, <1>1, <2>1 DEF Buffered
  <2> QED BY <2>2
<1>8. CASE \/ Advance \/ LockEnqueue \/ LockTick \/ ReturnFlushLoop \/ CallClose \/ LockClose
           \/ ExportUnverified \/ MatchEnd \/ ExpireNext \/ ExpireEnd \/ UNCHANGED vars
           \/ \E wire \in WireRecords : CallEnqueue(wire)
           \/ \E rec \in PlaintextRecords : LockPlaintext(rec) \/ ReceiveUnverified(rec)
  <2>1. UNCHANGED <<packets, keptPackets>>
    BY <1>8 DEF Advance, LockEnqueue, LockTick, ReturnFlushLoop, CallClose, LockClose, Enter,
       ExportUnverified, MatchEnd, ExpireNext, ExpireEnd, vars, CallEnqueue, LockPlaintext,
       ReceiveUnverified
  <2> QED BY <1>2, <2>1
<1> QED BY <1>4, <1>5, <1>6, <1>7, <1>8 DEF Next, Step

\* A packet leaves the buffer without a waiting record knowing only where it was noted.
LEMMA RememberStep ==
  ASSUME TypeOK, ControlInv, RememberInv, [Next]_vars
  PROVE  RememberInv'
<1>0. /\ pending \in Seq(Plaintext) /\ keptPending \in Seq(Plaintext) /\ Elements(<<>>) = {}
  BY DEF TypeOK, Elements
<1>1. CASE EnqueueBody
  <2>1. keptPending' = <<>> /\ stage' = "rematch"
    BY <1>1 DEF EnqueueBody, Goto, ControlInv
  <2>2. Elements(keptPending') = {}
    BY <1>0, <2>1
  <2> QED BY <2>1, <2>2 DEF RememberInv
<1>2. CASE ~EnqueueBody
  <2>1. ASSUME NEW pt, Remembers(Buffered, pt) PROVE Remembers(Buffered', pt)
    BY <1>2, <2>1, BufferShrinks, FewerPackets
  <2>2. SUFFICES /\ \A pt \in Elements(keptPending') : Remembers(Buffered, pt)
                 /\ stage' \notin {"match", "rematch"} =>
                      \A pt \in Elements(pending') : Remembers(Buffered, pt)
    BY <2>1 DEF RememberInv, Remembers, Buffered, Elements
  <2>3. CASE /\ UNCHANGED <<pending, keptPending>>
             /\ stage \in {"match", "rematch"} => stage' = stage
    <3>1. Elements(keptPending') = Elements(keptPending) /\ Elements(pending') = Elements(pending)
      BY <2>3
    <3> QED BY <2>3, <3>1 DEF RememberInv
  <2>4. CASE MatchNext
    <3>1. /\ stage' \in {"match", "rematch"} /\ keptPackets = <<>> /\ pending # <<>>
          /\ \/ keptPending' = keptPending
             \/ keptPending' = Append(keptPending, Considered(Head(pending)))
      BY <2>4 DEF MatchNext, Goto, ControlInv
    <3>2. Remembers(Buffered, Considered(Head(pending)))
      BY <3>1, HeadElement, ConsideredRemembers
    <3>3. Considered(Head(pending)) \in Plaintext
      BY <3>1, HeadElement, ConsideredType
    <3>4. Elements(keptPending') \subseteq Elements(keptPending) \cup {Considered(Head(pending))}
      <4>1. CASE keptPending' = keptPending
        BY <4>1
      <4>2. CASE keptPending' = Append(keptPending, Considered(Head(pending)))
        BY <1>0, <3>3, <4>2, AppendedElements
      <4> QED BY <3>1, <4>1, <4>2
    <3> QED BY <3>1, <3>2, <3>4 DEF RememberInv
  <2>5. CASE MatchEnd \/ ExpireEnd
    <3>1. pending' = keptPending /\ keptPending' = <<>>
      BY <2>5 DEF MatchEnd, ExpireEnd
    <3>2. Elements(pending') = Elements(keptPending) /\ Elements(keptPending') = {}
      BY <1>0, <3>1
    <3> QED BY <3>2 DEF RememberInv
  <2>6. CASE ExpireNext
    <3>1. /\ stage = "expire" /\ pending # <<>> /\ pending' = Tail(pending)
          /\ keptPending' = keptPending \/ keptPending' = Append(keptPending, Head(pending))
      BY <2>6 DEF ExpireNext
    <3>2. /\ Elements(pending) = Elements(pending') \cup {Head(pending)}
          /\ Head(pending) \in Plaintext
      BY <1>0, <3>1, TailElements
    <3>3. Elements(keptPending') \subseteq Elements(keptPending) \cup {Head(pending)}
      <4>1. CASE keptPending' = keptPending
        BY <4>1
      <4>2. CASE keptPending' = Append(keptPending, Head(pending))
        BY <1>0, <3>2, <4>2, AppendedElements
      <4> QED BY <3>1, <4>1, <4>2
    <3> QED BY <3>1, <3>2, <3>3 DEF RememberInv
  <2>7. CASE PlaintextBody
    <3>1. /\ stage = "body" /\ keptPackets = <<>> /\ keptPending' = keptPending /\ arg \in Plaintext
          /\ pending' = pending \/ pending' = Append(pending, Considered(arg))
      BY <2>7 DEF PlaintextBody, ControlInv, TypeOK
    <3>2. Remembers(Buffered, Considered(arg)) /\ Considered(arg) \in Plaintext
      BY <3>1, ConsideredRemembers, ConsideredType
    <3>3. Elements(pending') \subseteq Elements(pending) \cup {Considered(arg)}
      <4>1. CASE pending' = pending
        BY <4>1
      <4>2. CASE pending' = Append(pending, Considered(arg))
        BY <1>0, <3>2, <4>2, AppendedElements
      <4> QED BY <3>1, <4>1, <4>2
    <3>4. Elements(keptPending') = Elements(keptPending)
      BY <3>1
    <3> QED BY <3>1, <3>2, <3>3, <3>4 DEF RememberInv
  <2>8. CASE \/ Advance \/ LockEnqueue \/ LockTick \/ ReturnFlushLoop \/ CallClose \/ LockClose
             \/ ExportUnverified \/ WriteNext \/ WriteEnd \/ UNCHANGED vars
             \/ \E wire \in WireRecords : CallEnqueue(wire)
             \/ \E rec \in PlaintextRecords : LockPlaintext(rec) \/ ReceiveUnverified(rec)
    <3>1. /\ UNCHANGED <<pending, keptPending>>
          /\ stage \in {"match", "rematch"} => stage' = stage
      BY <2>8 DEF Advance, LockEnqueue, LockTick, ReturnFlushLoop, CallClose, LockClose, Enter,
         ExportUnverified, WriteNext, WriteEnd, Goto, vars, CallEnqueue, LockPlaintext,
         ReceiveUnverified, ControlInv
    <3> QED BY <2>3, <3>1
  <2> QED BY <1>2, <2>4, <2>5, <2>6, <2>7, <2>8 DEF Next, Step
<1> QED BY <1>1, <1>2

\* Between two critical sections no record with a missing endpoint has forgotten
\* that two connections compete for it, whatever was written out of the buffer.
THEOREM CompetitorsStayRemembered == Spec => []CompetitorsRemembered
<1>1. Init => RememberInv
  BY DEF Init, RememberInv, Elements
<1>2. BaseInv /\ RememberInv /\ [Next]_vars => RememberInv'
  BY RememberStep DEF BaseInv, OrderInv
<1>3. BaseInv /\ RememberInv => CompetitorsRemembered
  <2> SUFFICES ASSUME BaseInv, RememberInv, mu = "free", NEW pt \in Elements(pending),
                      ~HasTuple(pt.rec), MultipleConnections(pt)
               PROVE  pt.ambiguous
    BY DEF CompetitorsRemembered
  <2>1. stage = "idle"
    BY DEF BaseInv, OrderInv, ControlInv
  <2>2. Remembers(Buffered, pt)
    BY <2>1 DEF RememberInv
  <2>3. Contested(Buffered, pt)
    BY DEF MultipleConnections, Contested, Buffered, Elements
  <2> QED BY <2>2, <2>3 DEF Remembers
<1> QED BY <1>1, <1>2, <1>3, BaseCorrect, PTL DEF Spec

--------------------------------------------------------------------------------
(* The buffer keeps the promise of CaptureLedger. *)

LedgerExported == {e.id : e \in Elements(jsonl)}
LedgerLink == {<<p.seq, p.packetID>> : p \in Annotated}

\* A record is attached to a packet that is yet to be written and is linked to none.
LEMMA AttachedPacket ==
  ASSUME BaseInv, NEW pt, NEW i \in DOMAIN packets, Attaches(pt, i)
  PROVE  /\ packets[i].seq \in (Len(pcap) + 1)..arrivals
         /\ \A p \in Annotated : p.seq # packets[i].seq
<1>0. /\ packets \in Seq(Packet) /\ pcap \in Seq(Packet) /\ Len(packets) \in Nat
      /\ Len(pcap) \in Nat /\ DOMAIN pcap = 1..Len(pcap) /\ DOMAIN packets = 1..Len(packets)
      /\ HeldPackets \in {0, 1}
  BY DEF BaseInv, OrderInv, TypeOK, HeldPackets
<1>1. /\ \A j \in DOMAIN pcap : pcap[j].seq = j
      /\ \A j \in DOMAIN packets : packets[j].seq = Len(pcap) + j
      /\ arrivals = Len(pcap) + Len(packets) + HeldPackets
  <2>1. keptPackets = <<>> /\ Len(<<>>) = 0
    BY DEF Attaches
  <2>2. Len(keptPackets) = 0
    BY <2>1
  <2> QED BY <1>0, <2>2 DEF BaseInv, OrderInv, PcapInArrivalOrder
<1>2. packets[i].packetID = 0
  BY DEF Attaches, Attributable, Unrivalled, Candidates
<1>3. packets[i].seq \in (Len(pcap) + 1)..arrivals
  BY <1>0, <1>1
<1>4. ASSUME NEW p \in Annotated PROVE p.seq # packets[i].seq
  <2>1. p.packetID # 0 /\ p \in Elements(pcap) \cup Elements(packets)
    BY DEF Annotated, AllPackets, Attaches, Elements
  <2>2. CASE p \in Elements(pcap)
    <3>1. PICK j \in DOMAIN pcap : p = pcap[j]
      BY <2>2 DEF Elements
    <3> QED BY <1>0, <1>1, <3>1
  <2>3. CASE p \in Elements(packets)
    <3>1. PICK j \in DOMAIN packets : p = packets[j]
      BY <2>3 DEF Elements
    <3>2. j # i
      BY <1>2, <2>1, <3>1
    <3> QED BY <1>0, <1>1, <3>1, <3>2
  <2> QED BY <2>1, <2>2, <2>3
<1> QED BY <1>3, <1>4

\* Each of the six things a step does is a step of the ledger, or none.
LEMMA LedgerStep ==
  ASSUME BaseInv, TypeOK', [Next]_vars
  PROVE  [Ledger!LedgerNext]_(Ledger!ledgerVars)
<1>0. TypeOK /\ ControlInv /\ OnceInv /\ FreshInv
  BY DEF BaseInv, OrderInv
<1>1. jsonl' = jsonl => LedgerExported' = LedgerExported
  BY DEF LedgerExported, Elements
<1>2. Annotated' = Annotated => LedgerLink' = LedgerLink
  BY DEF LedgerLink
<1>3. /\ Ledger!ledgerVars = <<arrivals, Len(pcap), received, LedgerExported, LedgerLink>>
      /\ (Ledger!ledgerVars)' =
           <<arrivals', Len(pcap'), received', LedgerExported', LedgerLink'>>
  BY DEF Ledger!ledgerVars, LedgerExported, LedgerLink
<1>4. CASE Moves
  BY <1>1, <1>2, <1>3, <1>4 DEF Moves
<1>5. CASE Arrives
  <2>1. Ledger!Arrive
    BY <1>1, <1>2, <1>5 DEF Arrives, Ledger!Arrive, LedgerExported, LedgerLink
  <2> QED BY <2>1 DEF Ledger!LedgerNext
<1>6. CASE Receives
  <2>1. Ledger!Receive
    BY <1>1, <1>2, <1>6 DEF Receives, Ledger!Receive, LedgerExported, LedgerLink
  <2> QED BY <2>1 DEF Ledger!LedgerNext
<1>7. CASE Writes
  <2>1. Len(pcap) < arrivals
    <3>1. /\ Len(packets) \in Nat /\ Len(packets) > 0 /\ Len(pcap) \in Nat
          /\ Len(keptPackets) \in Nat /\ HeldPackets \in {0, 1}
      BY <1>0, <1>7 DEF Writes, TypeOK, HeldPackets
    <3>2. arrivals = Len(pcap) + Len(keptPackets) + Len(packets) + HeldPackets
      BY DEF BaseInv, OrderInv, PcapInArrivalOrder
    <3> QED BY <3>1, <3>2
  <2>2. Ledger!Write
    BY <1>1, <1>2, <1>7, <2>1 DEF Writes, Ledger!Write, LedgerExported, LedgerLink
  <2> QED BY <2>2 DEF Ledger!LedgerNext
<1>8. ASSUME NEW pt, pt \in Elements(pending) \/ (HeldPlaintexts = 1 /\ pt = arg),
             NEW a, NEW t, Export(pt, a, t)
      PROVE  /\ pt.id \in 1..received /\ pt.id \notin LedgerExported
             /\ LedgerExported' = LedgerExported \cup {pt.id}
  <2> DEFINE e == [id |-> pt.id, annotated |-> a, rec |-> pt.rec, tuple |-> t]
  <2>1. pt.id \in 1..received /\ pt.id \notin Ids(jsonl)
    BY <1>0, <1>8, WaitingIds
  <2>2. Elements(jsonl') = Elements(jsonl) \cup {e}
    BY <1>0, <1>8, ExportAppends
  <2>3. e.id = pt.id
    OBVIOUS
  <2>4. LedgerExported' = {d.id : d \in Elements(jsonl')}
    BY DEF LedgerExported, Elements
  <2> HIDE DEF e
  <2>5. LedgerExported' = LedgerExported \cup {pt.id}
    BY <2>2, <2>3, <2>4 DEF LedgerExported
  <2>6. pt.id \notin LedgerExported
    BY <2>1, ElementIds DEF LedgerExported
  <2> QED BY <2>1, <2>5, <2>6
<1>9. ASSUME NEW pt \in Plaintext, NEW t, ExportsAlone(pt, t) PROVE Ledger!LedgerNext
  <2>1. /\ pt.id \in 1..received /\ pt.id \notin LedgerExported
        /\ LedgerExported' = LedgerExported \cup {pt.id}
    BY <1>8, <1>9 DEF ExportsAlone
  <2>2. Ledger!ExportAlone(pt.id)
    BY <1>2, <1>9, <2>1 DEF ExportsAlone, Ledger!ExportAlone, LedgerExported, LedgerLink
  <2> QED BY <2>1, <2>2 DEF Ledger!LedgerNext
<1>10. ASSUME NEW pt \in Plaintext, NEW i \in DOMAIN packets, Attaches(pt, i)
       PROVE  Ledger!LedgerNext
  <2> DEFINE q == [packets[i] EXCEPT !.packetID = pt.id]
             n == packets[i].seq
  <2>1. /\ pt.id \in 1..received /\ pt.id \notin LedgerExported
        /\ LedgerExported' = LedgerExported \cup {pt.id}
    BY <1>8, <1>10 DEF Attaches, Matchable, HeldPlaintexts
  <2>2. packets[i] \in Packet
    BY <1>0 DEF TypeOK
  <2>3. q.seq = n /\ q.packetID = pt.id
    BY <2>2 DEF Packet
  <2>4. Annotated' = Annotated \cup {q} /\ UNCHANGED <<pcap, arrivals, received>>
    BY <1>10 DEF Attaches
  <2>5. n \in (Len(pcap) + 1)..arrivals /\ \A p \in Annotated : p.seq # n
    BY <1>10, AttachedPacket
  <2> HIDE DEF q, n
  <2>6. LedgerLink' = LedgerLink \cup {<<n, pt.id>>}
    BY <2>3, <2>4 DEF LedgerLink
  <2>7. \A l \in LedgerLink : l[1] # n
    BY <2>5 DEF LedgerLink
  <2>8. Ledger!ExportWith(n, pt.id)
    BY <2>1, <2>4, <2>5, <2>6, <2>7 DEF Ledger!ExportWith, LedgerExported, LedgerLink
  <2>9. n \in 1..arrivals
    <3>1. Len(pcap) \in Nat /\ arrivals \in Nat
      BY <1>0 DEF TypeOK
    <3> QED BY <2>5, <3>1
  <2> QED BY <2>1, <2>8, <2>9 DEF Ledger!LedgerNext
<1> QED BY <1>0, <1>4, <1>5, <1>6, <1>7, <1>9, <1>10, StepEffect

\* Seen from its two output files the buffer is a ledger: each of its steps writes
\* the next packet, exports one record, alone or attached to a packet yet to be
\* written, or changes nothing.
THEOREM LedgerRefined == Spec => LedgerRefinement
<1>1. Init => Ledger!LedgerInit
  <2> SUFFICES ASSUME Init PROVE Ledger!LedgerInit
    OBVIOUS
  <2>1. arrivals = 0 /\ received = 0 /\ pcap = <<>> /\ Len(<<>>) = 0
    BY DEF Init
  <2>2. Len(pcap) = 0
    BY <2>1
  <2> QED BY <2>1, <2>2, OutputsInit DEF Ledger!LedgerInit
<1>2. BaseInv /\ TypeOK' /\ [Next]_vars => [Ledger!LedgerNext]_(Ledger!ledgerVars)
  BY LedgerStep
<1> QED BY <1>1, <1>2, BaseCorrect, TypeCorrect, PTL DEF Spec, LedgerRefinement, Ledger!LedgerSpec
================================================================================
