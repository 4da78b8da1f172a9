------------------------------- MODULE WireMatch -------------------------------
(***************************************************************************)
(* How a TLS plaintext record is scored against a captured wire packet     *)
(* (cmd/packet_capture_wire_buffer.go, cmd/packet_capture_filters.go).     *)
(*                                                                         *)
(* A wire packet and a plaintext record are the fields of their            *)
(* config.GenericMap that the scoring reads.  An address that validIPString*)
(* rejects is NoAddr; a port mapPortFromGeneric cannot read is NoPort; a   *)
(* timestamp that is absent (time.Time{}) is NoTime.  Times are seconds.   *)
(***************************************************************************)
EXTENDS Integers

CONSTANTS
  Addrs,    \* the valid IP addresses
  NoAddr,   \* what validIPString makes of anything else
  Filters,  \* captureFilters: [ports, peerIPs, peerNets], each net a set of Addrs
  Window    \* plaintextCorrelationWindow (30 s in the program)

NoPort == -1
NoTime == 0

\* The scale of the program: scores, and the skew allowed between the agent's
\* two timestamps, in seconds.
StrictMatchBase == 100
RemoteMatchBase == 75
LooseMatchBase == 50
FilterMatchBase == 50
DirectionBonus == 5
AmbiguityMargin == 5
PayloadBonus == 20
PayloadSizeBonus == 5
TimeBonusMax == 10
MatchMaxSkew == 5
MatchMinDelta == -2

Sources == {"openssl", "gotls", "ktls", "none"}
Workloads == {"openssl", "gotls", "ktls", "other", "none"}

\* portInRange: a port is a uint16, or could not be read.
Port == 0..65535
AnyPort == Port \cup {NoPort}

WireRecord ==
  [src : Addrs \cup {NoAddr}, sport : AnyPort, dst : Addrs \cup {NoAddr}, dport : AnyPort,
   time : Nat, tcpLen : Int, srcPod : Workloads, dstPod : Workloads]

PlaintextRecord ==
  [src : Addrs \cup {NoAddr}, sport : AnyPort, dst : Addrs \cup {NoAddr}, dport : AnyPort,
   time : Nat, plainLen : Nat, source : Sources, dir : {"read", "write", "none"},
   kernel : BOOLEAN]

ASSUME WindowAssumption == Window \in Nat \ {0}
ASSUME AddrAssumption == NoAddr \notin Addrs
ASSUME FilterAssumption ==
  Filters \in [ports : SUBSET Port, peerIPs : SUBSET Addrs, peerNets : SUBSET SUBSET Addrs]

--------------------------------------------------------------------------------
(* Tuples and endpoints *)

HasTuple(m) ==
  /\ m.src # NoAddr /\ m.dst # NoAddr
  /\ m.sport # NoPort /\ m.dport # NoPort

Tuple(m) == <<m.src, m.sport, m.dst, m.dport>>
Reverse(t) == <<t[3], t[4], t[1], t[2]>>

\* The agent puts the local endpoint first; network order swaps a read.
Oriented(m) ==
  IF m.dir = "read"
  THEN [m EXCEPT !.src = m.dst, !.sport = m.dport, !.dst = m.src, !.dport = m.sport]
  ELSE m

NoEndpoint == <<NoAddr, NoPort>>

\* plaintextPodEndpoint: the first side with both an address and a non-zero port.
PodEndpoint(m) ==
  IF m.src # NoAddr /\ m.sport > 0 THEN <<m.src, m.sport>>
  ELSE IF m.dst # NoAddr /\ m.dport > 0 THEN <<m.dst, m.dport>>
  ELSE NoEndpoint

HasEndpoint(m) == PodEndpoint(m) # NoEndpoint

\* plaintextPeerIP: an address of the record that is not the pod's.
PeerIP(m) ==
  IF ~HasEndpoint(m) THEN NoAddr
  ELSE IF m.dst \notin {NoAddr, PodEndpoint(m)[1]} THEN m.dst
  ELSE IF m.src # PodEndpoint(m)[1] THEN m.src
  ELSE NoAddr

EgressFrom(w, endpoint) == <<w.src, w.sport>> = endpoint
IngressTo(w, endpoint) == <<w.dst, w.dport>> = endpoint
WireHasIP(w, ip) == ip \in {w.src, w.dst}
WireHasIPPort(w, endpoint) == EgressFrom(w, endpoint) \/ IngressTo(w, endpoint)

--------------------------------------------------------------------------------
(* Capture filters *)

FiltersActive == Filters.ports # {} \/ Filters.peerIPs # {} \/ Filters.peerNets # {}

SinglePort ==
  IF \E p \in Filters.ports : Filters.ports = {p} THEN CHOOSE p \in Filters.ports : TRUE ELSE 0
SinglePeerIP ==
  IF \E ip \in Filters.peerIPs : Filters.peerIPs = {ip}
  THEN CHOOSE ip \in Filters.peerIPs : TRUE ELSE NoAddr

WithPort(m) ==
  IF SinglePort > 0 /\ m.sport \in {NoPort, 0} THEN [m EXCEPT !.sport = SinglePort] ELSE m

\* enrichPlaintextFromCaptureFilters: hints complete the local endpoint only,
\* and never replace an address or a port the agent reported.
EnrichFromFilters(m) ==
  IF HasTuple(m) THEN m
  ELSE IF SinglePeerIP = NoAddr THEN WithPort(m)
  ELSE IF m.src \in {NoAddr, SinglePeerIP} THEN WithPort([m EXCEPT !.src = SinglePeerIP])
  ELSE m

WireMatchesFilters(w) ==
  /\ FiltersActive
  /\ Filters.ports # {} => {w.sport, w.dport} \cap Filters.ports # {}
  /\ Filters.peerIPs # {} => {w.src, w.dst} \cap Filters.peerIPs # {}
  /\ Filters.peerNets # {} => \E n \in Filters.peerNets : {w.src, w.dst} \cap n # {}

--------------------------------------------------------------------------------
(* Time.  pkt is a buffered packet and pt a pending plaintext: each a record *)
(* with the time it was received at.                                         *)

Abs(d) == IF d < 0 THEN -d ELSE d

BothTimed(pkt, pt) == pkt.wire.time # NoTime /\ pt.rec.time # NoTime
AgentDelta(pkt, pt) == pt.rec.time - pkt.wire.time
ReceiveDelta(pkt, pt) == Abs(pt.receivedAt - pkt.receivedAt)

TimesCorrelated(pkt, pt) ==
  IF BothTimed(pkt, pt)
  THEN AgentDelta(pkt, pt) >= MatchMinDelta /\ AgentDelta(pkt, pt) <= MatchMaxSkew
  ELSE ReceiveDelta(pkt, pt) <= Window

Proximity(delta, limit) ==
  IF delta <= limit THEN (TimeBonusMax * (limit - delta)) \div limit ELSE 0

TimeBonus(pkt, pt) ==
  IF ~BothTimed(pkt, pt) THEN Proximity(ReceiveDelta(pkt, pt), Window)
  ELSE IF AgentDelta(pkt, pt) < 0 THEN Proximity(-AgentDelta(pkt, pt), -MatchMinDelta)
  ELSE Proximity(AgentDelta(pkt, pt), MatchMaxSkew)

--------------------------------------------------------------------------------
(* What rules a packet out *)

\* wirePodIdentity: the destination workload when there is one, else the source.
PodIdentity(w) == IF w.dstPod # "none" THEN w.dstPod ELSE w.srcPod

PodCompatible(w, m) ==
  m.source = "none" \/
    CASE PodIdentity(w) = "openssl" -> m.source \in {"openssl", "ktls"}
      [] PodIdentity(w) = "gotls" -> m.source = "gotls"
      [] PodIdentity(w) = "ktls" -> m.source \in {"ktls", "openssl"}
      [] OTHER -> TRUE

\* Mutants: one side only is compared; addresses are compared but not ports.
EndpointsCompatibleSource(w, m) ==
  LET o == Oriented(m)
  IN  o.src # NoAddr => w.src = o.src /\ (o.sport > 0 => w.sport = o.sport)

EndpointsCompatibleAddrs(w, m) ==
  LET o == Oriented(m)
  IN  (o.src # NoAddr => w.src = o.src) /\ (o.dst # NoAddr => w.dst = o.dst)

\* plaintextEndpointsCompatible: what the record knows is never contradicted.
EndpointsCompatible(w, m) ==
  LET o == Oriented(m)
  IN  /\ o.src # NoAddr => w.src = o.src /\ (o.sport > 0 => w.sport = o.sport)
      /\ o.dst # NoAddr => w.dst = o.dst /\ (o.dport > 0 => w.dport = o.dport)

DirectionCompatible(w, m) ==
  HasEndpoint(m) =>
    /\ m.dir = "write" => EgressFrom(w, PodEndpoint(m))
    /\ m.dir = "read" => IngressTo(w, PodEndpoint(m))

Compatible(pkt, pt) ==
  LET m == EnrichFromFilters(pt.rec)
  IN  /\ TimesCorrelated(pkt, pt)
      /\ PodCompatible(pkt.wire, m)
      /\ EndpointsCompatible(pkt.wire, m)
      /\ DirectionCompatible(pkt.wire, m)

--------------------------------------------------------------------------------
(* Scores *)

Directed(w, m, endpoint) ==
  IF (m.dir = "write" /\ EgressFrom(w, endpoint)) \/ (m.dir = "read" /\ IngressTo(w, endpoint))
  THEN DirectionBonus ELSE 0

ScoreStrictTuple(w, m) ==
  IF ~HasTuple(m) \/ ~HasTuple(w) \/ Tuple(w) \notin {Tuple(m), Reverse(Tuple(m))} THEN -1
  ELSE StrictMatchBase +
       (IF (m.dir = "write" /\ Tuple(w) = Tuple(m)) \/
           (m.dir = "read" /\ Tuple(w) = Reverse(Tuple(m)))
        THEN DirectionBonus ELSE 0)

ScoreRemoteEndpoint(w, m) ==
  IF PeerIP(m) = NoAddr \/ ~WireHasIPPort(w, PodEndpoint(m)) \/ ~WireHasIP(w, PeerIP(m)) THEN -1
  ELSE RemoteMatchBase + Directed(w, m, PodEndpoint(m))

ScoreLooseEndpoint(w, m) ==
  IF ~HasEndpoint(m) \/ ~WireHasIPPort(w, PodEndpoint(m)) THEN -1
  ELSE LooseMatchBase + Directed(w, m, PodEndpoint(m))

ScoreCaptureFilter(w) ==
  IF ~WireMatchesFilters(w) THEN -1
  ELSE FilterMatchBase + (IF Filters.ports # {} THEN 1 ELSE 0)
         + (IF Filters.peerIPs # {} \/ Filters.peerNets # {} THEN 1 ELSE 0)

\* A full tuple is a constraint, never loosened; a partial one falls back tier
\* by tier (the strict tier needs a full tuple and cannot apply to it).
BaseScore(w, m) ==
  IF HasTuple(m) THEN ScoreStrictTuple(w, m)
  ELSE IF ScoreRemoteEndpoint(w, m) >= 0 THEN ScoreRemoteEndpoint(w, m)
  ELSE IF ScoreLooseEndpoint(w, m) >= 0 THEN ScoreLooseEndpoint(w, m)
  ELSE ScoreCaptureFilter(w)

\* applyWirePayloadScoreAdjustments; tcpLen < 0 is a frame without a TCP layer.
PayloadAdjustment(w, m) ==
  IF w.tcpLen < 0 THEN 0
  ELSE PayloadBonus + (IF m.plainLen > 0 /\ w.tcpLen >= m.plainLen THEN PayloadSizeBonus ELSE 0)

Score(pkt, pt) ==
  LET m == EnrichFromFilters(pt.rec)
  IN  IF ~Compatible(pkt, pt) \/ BaseScore(pkt.wire, m) < 0 \/ pkt.wire.tcpLen = 0 THEN -1
      ELSE BaseScore(pkt.wire, m) + TimeBonus(pkt, pt) + PayloadAdjustment(pkt.wire, m)

MinAnnotationScore(m) ==
  IF HasTuple(m) THEN StrictMatchBase
  ELSE IF HasEndpoint(m) /\ PeerIP(m) # NoAddr THEN RemoteMatchBase
  ELSE IF HasEndpoint(m) THEN LooseMatchBase
  ELSE IF FiltersActive THEN FilterMatchBase
  ELSE LooseMatchBase

\* Two buffered packets of the same TCP connection, whichever way each travels.
SameConnection(v, w) == Tuple(v) \in {Tuple(w), Reverse(Tuple(w))}

--------------------------------------------------------------------------------
(* Properties of the scoring, of one or two packets and a record. *)

\* "A supplied client port is a constraint, not a preference": a record with a
\* full tuple only scores against packets of that connection, travelling the way
\* the record says, whatever the payload and time bonuses would add.
NamesConnection(pkt, pt) ==
  (HasTuple(pt.rec) /\ Score(pkt, pt) >= 0) => Tuple(pkt.wire) = Tuple(Oriented(pt.rec))

\* "Falling back to a peer-IP match lets payload bonuses pass the strict threshold":
\* whatever the bonuses add, a packet passes the threshold that the record's own
\* fields set only on the evidence of its endpoints.
ThresholdOnEvidence(pkt, pt) ==
  LET m == EnrichFromFilters(pt.rec)
  IN  Score(pkt, pt) >= MinAnnotationScore(m) => BaseScore(pkt.wire, m) >= MinAnnotationScore(m)

\* The time bonus "can never let a lower match tier outrank a higher one", because
\* the packets that compete for a record are all of one tier.
Tier(w, m) ==
  IF HasTuple(m) THEN "strict"
  ELSE IF ScoreRemoteEndpoint(w, m) >= 0 THEN "remote"
  ELSE IF ScoreLooseEndpoint(w, m) >= 0 THEN "loose" ELSE "filter"
OneTier(p, q, pt) ==
  (Score(p, pt) >= 0 /\ Score(q, pt) >= 0) =>
    Tier(p.wire, EnrichFromFilters(pt.rec)) = Tier(q.wire, EnrichFromFilters(pt.rec))
================================================================================
