---------------------------- MODULE WireMatchProofs ----------------------------
(* What the scores mean, for any addresses, filters and window: the fields the *)
(* agent reported decide, the bonuses only order what is left.                 *)
EXTENDS WireMatch, TLAPS

\* Hints leave a record a record.
LEMMA EnrichedRecord ==
  ASSUME NEW rec \in PlaintextRecord
  PROVE  EnrichFromFilters(rec) \in PlaintextRecord
<1>1. SinglePort \in AnyPort /\ SinglePeerIP \in Addrs \cup {NoAddr}
  <2>1. SinglePort \in AnyPort
    <3>1. Filters.ports \subseteq Port
      BY FilterAssumption
    <3>2. SinglePort \in Filters.ports \/ SinglePort = 0
      BY DEF SinglePort
    <3>3. 0 \in Port
      BY DEF Port
    <3> QED BY <3>1, <3>2, <3>3 DEF AnyPort
  <2>2. SinglePeerIP \in Addrs \cup {NoAddr}
    BY FilterAssumption DEF SinglePeerIP
  <2> QED BY <2>1, <2>2
<1> QED BY <1>1 DEF EnrichFromFilters, WithPort, PlaintextRecord

\* Scores are integers, whatever is scored.
LEMMA BaseScoreType ==
  ASSUME NEW w, NEW m
  PROVE  /\ ScoreStrictTuple(w, m) \in Int /\ ScoreRemoteEndpoint(w, m) \in Int
         /\ ScoreLooseEndpoint(w, m) \in Int /\ ScoreCaptureFilter(w) \in Int
         /\ BaseScore(w, m) \in Int
<1>1. ScoreStrictTuple(w, m) \in Int
  BY DEF ScoreStrictTuple, StrictMatchBase, DirectionBonus
<1>2. ScoreRemoteEndpoint(w, m) \in Int /\ ScoreLooseEndpoint(w, m) \in Int
  BY DEF ScoreRemoteEndpoint, ScoreLooseEndpoint, Directed, RemoteMatchBase, LooseMatchBase,
         DirectionBonus
<1>3. ScoreCaptureFilter(w) \in Int
  BY DEF ScoreCaptureFilter, FilterMatchBase
<1> QED BY <1>1, <1>2, <1>3 DEF BaseScore

\* A packet that no known field contradicts carries the endpoint the record knows ...
LEMMA CompatibleCarriesEndpoint ==
  ASSUME NEW w \in WireRecord, NEW m \in PlaintextRecord, EndpointsCompatible(w, m), HasEndpoint(m)
  PROVE  WireHasIPPort(w, PodEndpoint(m)) /\ (PeerIP(m) # NoAddr => WireHasIP(w, PeerIP(m)))
<1>1. WireHasIPPort(w, PodEndpoint(m))
  BY AddrAssumption DEF EndpointsCompatible, Oriented, HasEndpoint, PodEndpoint, NoEndpoint,
     WireHasIPPort, EgressFrom, IngressTo, WireRecord, PlaintextRecord
<1>2. PeerIP(m) # NoAddr => WireHasIP(w, PeerIP(m))
  BY AddrAssumption DEF EndpointsCompatible, Oriented, HasEndpoint, PodEndpoint, NoEndpoint,
     PeerIP, WireHasIP, WireRecord, PlaintextRecord
<1> QED BY <1>1, <1>2

\* ... so each record scores in the tier of what it knows, and never below it.
LEMMA TierOfRecord ==
  ASSUME NEW w \in WireRecord, NEW m \in PlaintextRecord, EndpointsCompatible(w, m),
         BaseScore(w, m) >= 0
  PROVE  /\ BaseScore(w, m) >= MinAnnotationScore(m)
         /\ Tier(w, m) = IF HasTuple(m) THEN "strict"
                         ELSE IF HasEndpoint(m) /\ PeerIP(m) # NoAddr THEN "remote"
                         ELSE IF HasEndpoint(m) THEN "loose" ELSE "filter"
<1> USE DEF StrictMatchBase, RemoteMatchBase, LooseMatchBase, FilterMatchBase, DirectionBonus
<1>1. CASE HasTuple(m)
  BY <1>1 DEF BaseScore, ScoreStrictTuple, MinAnnotationScore, Tier
<1>2. CASE ~HasTuple(m) /\ HasEndpoint(m) /\ PeerIP(m) # NoAddr
  <2>1. ScoreRemoteEndpoint(w, m) >= RemoteMatchBase
    BY <1>2, CompatibleCarriesEndpoint DEF ScoreRemoteEndpoint, Directed
  <2> ScoreRemoteEndpoint(w, m) >= 0
    BY <2>1, BaseScoreType
  <2>2. MinAnnotationScore(m) = RemoteMatchBase /\ Tier(w, m) = "remote"
    BY <1>2, <2>1 DEF MinAnnotationScore, Tier
  <2>3. BaseScore(w, m) = ScoreRemoteEndpoint(w, m)
    BY <1>2, <2>1 DEF BaseScore
  <2> QED BY <1>2, <2>1, <2>2, <2>3
<1>3. CASE ~HasTuple(m) /\ HasEndpoint(m) /\ PeerIP(m) = NoAddr
  <2>1. ScoreRemoteEndpoint(w, m) = -1
    BY <1>3 DEF ScoreRemoteEndpoint
  <2>2. ScoreLooseEndpoint(w, m) >= LooseMatchBase
    BY <1>3, CompatibleCarriesEndpoint DEF ScoreLooseEndpoint, Directed
  <2> ScoreLooseEndpoint(w, m) >= 0 /\ ~(ScoreRemoteEndpoint(w, m) >= 0)
    BY <2>1, <2>2, BaseScoreType
  <2>3. MinAnnotationScore(m) = LooseMatchBase /\ Tier(w, m) = "loose"
    BY <1>3, <2>1, <2>2 DEF MinAnnotationScore, Tier
  <2>4. BaseScore(w, m) = ScoreLooseEndpoint(w, m)
    BY <1>3, <2>1, <2>2 DEF BaseScore
  <2> QED BY <1>3, <2>2, <2>3, <2>4
<1>4. CASE ~HasTuple(m) /\ ~HasEndpoint(m)
  <2>1. ScoreRemoteEndpoint(w, m) = -1 /\ ScoreLooseEndpoint(w, m) = -1
    BY <1>4 DEF ScoreRemoteEndpoint, ScoreLooseEndpoint, PeerIP
  <2>2. ScoreCaptureFilter(w) >= FilterMatchBase /\ FiltersActive
    BY <1>4, <2>1 DEF BaseScore, ScoreCaptureFilter, WireMatchesFilters
  <2> QED BY <1>4, <2>1, <2>2 DEF BaseScore, MinAnnotationScore, Tier
<1> QED BY <1>1, <1>2, <1>3, <1>4

\* No bonus carries a packet over the threshold of a record.
THEOREM EvidenceCorrect ==
  ASSUME NEW pkt, pkt.wire \in WireRecord, NEW pt, pt.rec \in PlaintextRecord
  PROVE  ThresholdOnEvidence(pkt, pt)
<1> DEFINE m == EnrichFromFilters(pt.rec)
<1>1. m \in PlaintextRecord /\ pkt.wire \in WireRecord
  BY EnrichedRecord
<1>2. MinAnnotationScore(m) \in Nat
  BY DEF MinAnnotationScore, StrictMatchBase, RemoteMatchBase, LooseMatchBase, FilterMatchBase
<1>3. ASSUME Score(pkt, pt) >= MinAnnotationScore(m)
      PROVE  BaseScore(pkt.wire, m) >= MinAnnotationScore(m)
  <2>1. EndpointsCompatible(pkt.wire, m) /\ BaseScore(pkt.wire, m) >= 0
    BY <1>2, <1>3, BaseScoreType DEF Score, Compatible
  <2> QED BY <1>1, <2>1, TierOfRecord
<1> QED BY <1>3 DEF ThresholdOnEvidence

\* All the packets that compete for a record do so in one tier.
THEOREM TierCorrect ==
  ASSUME NEW p, p.wire \in WireRecord, NEW q, q.wire \in WireRecord,
         NEW pt, pt.rec \in PlaintextRecord
  PROVE  OneTier(p, q, pt)
<1> DEFINE m == EnrichFromFilters(pt.rec)
<1>1. m \in PlaintextRecord /\ p.wire \in WireRecord /\ q.wire \in WireRecord
  BY EnrichedRecord
<1>2. ASSUME Score(p, pt) >= 0, Score(q, pt) >= 0
      PROVE  Tier(p.wire, m) = Tier(q.wire, m)
  <2>1. EndpointsCompatible(p.wire, m) /\ BaseScore(p.wire, m) >= 0
    BY <1>2, BaseScoreType DEF Score, Compatible
  <2>2. EndpointsCompatible(q.wire, m) /\ BaseScore(q.wire, m) >= 0
    BY <1>2, BaseScoreType DEF Score, Compatible
  <2>3. BaseScore(p.wire, m) >= 0 /\ BaseScore(q.wire, m) >= 0
    BY <2>1, <2>2
  <2> QED BY <1>1, <2>1, <2>2, TierOfRecord
<1> QED BY <1>2 DEF OneTier

\* A record with a full tuple scores against packets of its connection only,
\* travelling the way the bytes did.
THEOREM ConnectionCorrect ==
  ASSUME NEW pkt, pkt.wire \in WireRecord, NEW pt, pt.rec \in PlaintextRecord
  PROVE  NamesConnection(pkt, pt)
<1> SUFFICES ASSUME HasTuple(pt.rec), Score(pkt, pt) >= 0
             PROVE  Tuple(pkt.wire) = Tuple(Oriented(pt.rec))
  BY DEF NamesConnection
<1>1. EnrichFromFilters(pt.rec) = pt.rec
  BY DEF EnrichFromFilters
<1>2. EndpointsCompatible(pkt.wire, pt.rec) /\ BaseScore(pkt.wire, pt.rec) >= 0
  BY <1>1, BaseScoreType DEF Score, Compatible
<1>3. Tuple(pkt.wire) \in {Tuple(pt.rec), Reverse(Tuple(pt.rec))}
  BY <1>2 DEF BaseScore, ScoreStrictTuple
<1>4. pt.rec.sport \in Nat /\ pt.rec.dport \in Nat
  <2>1. pt.rec.sport \in Port /\ pt.rec.dport \in Port
    BY <1>1 DEF HasTuple, PlaintextRecord, AnyPort
  <2>2. \A n \in Port : n \in Nat
    BY DEF Port
  <2> QED BY <2>1, <2>2
<1> DEFINE w == pkt.wire
           m == pt.rec
<1>5. \/ w.src = m.src /\ w.sport = m.sport /\ w.dst = m.dst /\ w.dport = m.dport
      \/ w.src = m.dst /\ w.sport = m.dport /\ w.dst = m.src /\ w.dport = m.sport
  BY <1>3 DEF Tuple, Reverse
<1>6. CASE m.dir = "read"
  <2>1. /\ w.src = m.dst /\ (m.dport > 0 => w.sport = m.dport)
        /\ w.dst = m.src /\ (m.sport > 0 => w.dport = m.sport)
    BY <1>1, <1>2, <1>6 DEF EndpointsCompatible, Oriented, HasTuple, PlaintextRecord
  <2>2. w.sport = m.dport /\ w.dport = m.sport
    BY <1>4, <1>5, <2>1
  <2> QED BY <1>1, <1>6, <2>1, <2>2 DEF Tuple, Oriented, PlaintextRecord
<1>7. CASE m.dir # "read"
  <2>1. /\ w.src = m.src /\ (m.sport > 0 => w.sport = m.sport)
        /\ w.dst = m.dst /\ (m.dport > 0 => w.dport = m.dport)
    BY <1>2, <1>7 DEF EndpointsCompatible, Oriented, HasTuple
  <2>2. w.sport = m.sport /\ w.dport = m.dport
    BY <1>4, <1>5, <2>1
  <2> QED BY <1>7, <2>1, <2>2 DEF Tuple, Oriented
<1> QED BY <1>6, <1>7
================================================================================
