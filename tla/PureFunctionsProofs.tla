--------------------------- MODULE PureFunctionsProofs ---------------------------
(* The scoring, the scan, the INSERT statement and the TLS profile, for any    *)
(* packets, records, scores, flows and profiles.                               *)
EXTENDS PureFunctions, WireMatchProofs, WellFoundedInduction

\* What the scan has established of the packets before next.
ScanInv ==
  /\ TypeOK
  /\ bestIdx = None => bestScore = -1 /\ secondBest = -1
  /\ bestIdx # None =>
       /\ bestIdx < next /\ Candidate(bestIdx) /\ score[bestIdx] = bestScore
       /\ secondBest <= bestScore
  /\ \A j \in 1..(next - 1) :
       Candidate(j) => score[j] <= bestScore /\ (j # bestIdx => score[j] <= secondBest)
  /\ secondBest >= 0 =>
       \E j \in 1..(next - 1) : Candidate(j) /\ j # bestIdx /\ score[j] = secondBest

\* Whatever it has looked at, the scan knows the best and second best of it.
LEMMA ScanInvariant == (Init => ScanInv) /\ (ScanInv /\ [Next]_vars => ScanInv')
<1>1. Init => ScanInv
  BY ScanAssumption DEF Init, ScanInv, TypeOK, None, Candidate
<1>2. ScanInv /\ [Next]_vars => ScanInv'
  <2> SUFFICES ASSUME ScanInv, [Next]_vars PROVE ScanInv'
    OBVIOUS
  <2> USE ScanAssumption DEF ScanInv, TypeOK, None
  <2>1. CASE Skip
    <3> USE <2>1 DEF Skip, inputs
    <3>1. next \in 1..N /\ ~Candidate(next)
      BY DEF Candidate
    <3>2. \A j \in 1..N : Candidate(j)' <=> Candidate(j)
      BY DEF Candidate
    <3>3. \A j \in 1..(next' - 1) :
            Candidate(j)' => score'[j] <= bestScore' /\ (j # bestIdx' => score'[j] <= secondBest')
      BY <3>1, <3>2
    <3>4. TypeOK'
      BY <3>1
    <3>5. secondBest' >= 0 =>
            \E j \in 1..(next' - 1) : Candidate(j)' /\ j # bestIdx' /\ score'[j] = secondBest'
      BY <3>1, <3>2
    <3>6. bestIdx' # None =>
            /\ bestIdx' < next' /\ Candidate(bestIdx)' /\ score'[bestIdx'] = bestScore'
            /\ secondBest' <= bestScore'
      BY <3>1, <3>2
    <3> QED BY <3>3, <3>4, <3>5, <3>6
  <2>2. CASE NewBest
    <3> USE <2>2 DEF NewBest, inputs
    <3>1. next \in 1..N /\ score[next] \in -1..MaxScore
      OBVIOUS
    <3>2. Candidate(next)
      BY <3>1 DEF Candidate
    <3>3. \A j \in 1..N : Candidate(j)' <=> Candidate(j)
      BY DEF Candidate
    <3>4. TypeOK'
      BY <3>1
    <3>5. \A j \in 1..(next' - 1) :
            Candidate(j)' => score'[j] <= bestScore' /\ (j # bestIdx' => score'[j] <= secondBest')
      BY <3>1, <3>3
    <3>6. ASSUME bestScore >= 0
          PROVE  bestIdx \in 1..(next' - 1) /\ Candidate(bestIdx) /\ bestIdx # bestIdx'
      BY <3>1, <3>6 DEF Candidate
    <3>7. secondBest' >= 0 =>
            \E j \in 1..(next' - 1) : Candidate(j)' /\ j # bestIdx' /\ score'[j] = secondBest'
      BY <3>1, <3>3, <3>6
    <3>8. /\ bestIdx' < next' /\ Candidate(bestIdx)' /\ score'[bestIdx'] = bestScore'
          /\ secondBest' <= bestScore' /\ bestIdx' # None
      BY <3>1, <3>2, <3>3
    <3> QED BY <3>4, <3>5, <3>7, <3>8
  <2>3. CASE NotBest
    <3> USE <2>3 DEF NotBest, inputs
    <3>1. next \in 1..N /\ score[next] \in -1..MaxScore
      OBVIOUS
    <3>2. TypeOK' /\ bestIdx # next
      BY <3>1
    <3>3. \A j \in 1..N : Candidate(j)' <=> Candidate(j)
      BY DEF Candidate
    <3>4. \A j \in 1..(next' - 1) :
            Candidate(j)' => score'[j] <= bestScore' /\ (j # bestIdx' => score'[j] <= secondBest')
      BY <3>1 DEF Candidate
    <3>5. secondBest' >= 0 =>
            \E j \in 1..(next' - 1) : Candidate(j)' /\ j # bestIdx' /\ score'[j] = secondBest'
      BY <3>1, <3>2 DEF Candidate
    <3>6. bestIdx' = None => bestScore' = -1 /\ secondBest' = -1
      BY <3>1
    <3>7. bestIdx' # None =>
            /\ bestIdx' < next' /\ Candidate(bestIdx)' /\ score'[bestIdx'] = bestScore'
            /\ secondBest' <= bestScore'
      BY <3>1 DEF Candidate
    <3> QED BY <3>2, <3>4, <3>5, <3>6, <3>7
  <2>4. CASE UNCHANGED vars
    BY <2>4 DEF vars, inputs, Candidate
  <2> QED BY <2>1, <2>2, <2>3, <2>4 DEF Next
<1> QED BY <1>1, <1>2

\* At the end the best and the second best tell whether another candidate rivals.
LEMMA ScanSuffices == ScanInv => ScanFindsUnrivalled
<1>1. ScanInv => ScanFindsUnrivalled
  <2> SUFFICES ASSUME ScanInv, next = N + 1, NEW i \in 1..N
               PROVE (bestIdx = i /\ ~Ambiguous) <=> (Candidate(i) /\ ~Rivalled(i))
    BY DEF ScanFindsUnrivalled
  <2> USE ScanAssumption DEF ScanInv, TypeOK, None
  <2>1. \A j \in 1..N : score[j] \in -1..MaxScore
    OBVIOUS
  <2>2. ASSUME bestIdx = i, ~Ambiguous PROVE Candidate(i) /\ ~Rivalled(i)
    BY <2>1, <2>2 DEF Ambiguous, Rivalled, Candidate
  <2>3. ASSUME Candidate(i), ~Rivalled(i) PROVE bestIdx = i /\ ~Ambiguous
    <3>1. bestIdx # None
      BY <2>1, <2>3 DEF Candidate
    <3>2. bestIdx = i
      BY <2>1, <2>3, <3>1 DEF Rivalled, Candidate
    <3>3. ~Ambiguous
      BY <2>1, <2>3, <3>2 DEF Rivalled, Candidate, Ambiguous
    <3> QED BY <3>2, <3>3
  <2> QED BY <2>2, <2>3
<1> QED BY <1>1

\* The two scores the scan keeps decide whether the best match is unique, for any
\* number of buffered packets, any scores and any margin.
THEOREM ScanCorrect == Spec => []ScanFindsUnrivalled
BY ScanInvariant, ScanSuffices, PTL DEF Spec

--------------------------------------------------------------------------------
(* The inputs. *)

\* What each kind of state holds.
InputInv ==
  /\ kind = "pair" =>
       /\ pt \in [rec : Records, receivedAt : ReceiveTimes]
       /\ first \in [wire : Wires, receivedAt : ReceiveTimes]
       /\ second = Nothing \/ second \in [wire : Wires, receivedAt : ReceiveTimes]
  /\ ScanInv
  /\ kind = "flow" => input \in Flows
  /\ kind = "series" => input \in Answers
  /\ kind = "tls" => input \in Clusters

\* They hold it always.
LEMMA InputCorrect == FunctionsSpec => []InputInv
<1>1. FunctionsInit => InputInv
  <2>1. NoScan => ScanInv
    BY ScanInvariant, ScanAssumption DEF NoScan, Init, None
  <2>2. PairInit => InputInv
    BY <2>1 DEF PairInit, InputInv
  <2>3. ScanInit => InputInv
    BY ScanInvariant DEF ScanInit, InputInv
  <2>4. InputInit => InputInv
    BY <2>1 DEF InputInit, InputInv
  <2> QED BY <2>2, <2>3, <2>4 DEF FunctionsInit
<1>2. InputInv /\ [Compete \/ Scan]_<<kind, input, pairVars, vars>> => InputInv'
  <2> SUFFICES ASSUME InputInv, [Compete \/ Scan]_<<kind, input, pairVars, vars>>
               PROVE  InputInv'
    OBVIOUS
  <2>1. UNCHANGED vars => ScanInv'
    BY ScanInvariant DEF InputInv
  <2>2. CASE Compete
    <3>1. second' \in [wire : Wires, receivedAt : ReceiveTimes]
      BY <2>2, InputAssumption DEF Compete, Received
    <3> QED BY <2>1, <2>2, <3>1 DEF Compete, InputInv
  <2>3. CASE Scan
    BY <2>3, ScanInvariant DEF Scan, InputInv, pairVars
  <2>4. CASE UNCHANGED <<kind, input, pairVars, vars>>
    BY <2>1, <2>4 DEF InputInv, pairVars
  <2> QED BY <2>2, <2>3, <2>4
<1> QED BY <1>1, <1>2, PTL DEF FunctionsSpec

\* Whatever the bonuses add, a packet passes the threshold that the record's own
\* fields set only on the evidence of its endpoints.
THEOREM EvidenceIsNeeded == FunctionsSpec => []EvidenceNeeded
<1>1. InputInv => EvidenceNeeded
  BY EvidenceCorrect, InputAssumption DEF InputInv, EvidenceNeeded
<1> QED BY <1>1, InputCorrect, PTL

\* The packets that compete for a record do so in one tier, which the time bonus
\* cannot carry any of them out of.
THEOREM TierIsDecisive == FunctionsSpec => []TierDecides
<1>1. InputInv => TierDecides
  BY TierCorrect, InputAssumption DEF InputInv, TierDecides
<1> QED BY <1>1, InputCorrect, PTL

\* A scan ends with the packet that no other candidate rivals, if there is one.
THEOREM ScansFindUnrivalled == FunctionsSpec => []ScanFindsUnrivalled
<1>1. InputInv => ScanFindsUnrivalled
  BY ScanSuffices DEF InputInv
<1> QED BY <1>1, InputCorrect, PTL

--------------------------------------------------------------------------------
(* The TLS profile. *)

\* The kinds of profile fetchTLSProfile returns.
LEMMA FetchedKinds ==
  ASSUME NEW cluster \in Clusters
  PROVE  LET p == Fetched(cluster) IN
         \/ p.type \in {"Old", "Intermediate", "Modern"}
         \/ p.type = "Unknown"
         \/ p.type = "Custom" /\ ~p.given /\ p.spec = NoSpec
         \/ p.type = "Custom" /\ p.given /\ p.spec \in Specs /\ p = cluster
<1>1. DOMAIN Presets = {"Old", "Intermediate", "Modern"}
  BY DEF Presets
<1> QED BY <1>1 DEF Clusters, Fetched, Profile, Absent

\* A preset, by name.
LEMMA PresetSpecs ==
  /\ DOMAIN Presets = {"Old", "Intermediate", "Modern"}
  /\ Presets["Old"] =
       [min |-> 10, suites |-> {"aead", "cbc", "tls13", "unsupported"}, groups |-> AllGroups]
  /\ Presets["Intermediate"] = [min |-> 12, suites |-> {"aead", "tls13"}, groups |-> AllGroups]
  /\ Presets["Modern"] = [min |-> 13, suites |-> {"tls13"}, groups |-> AllGroups]
BY DEF Presets

\* The spec that a profile stands for: of a custom profile without one, nothing is set.
SpecOf(profile) == IF profile.type \in DOMAIN Presets THEN Presets[profile.type] ELSE profile.spec

\* What the collector is configured with, for each field of the spec.
LEMMA ComposedFields ==
  ASSUME NEW cluster \in Clusters
  PROVE  LET p == Fetched(cluster) spec == SpecOf(p) c == Compose(p) IN
         /\ spec.min \in Versions \cup {Unset}
         /\ spec.min # Unset => c.min = spec.min
         /\ spec.min = Unset => c.min = 12
         /\ Supported(spec.suites) # {} => c.suites = Supported(spec.suites)
         /\ Supported(spec.suites) = {} => c.suites = {"aead", "tls13"}
         /\ Supported(spec.groups) # {} => c.curves = Supported(spec.groups)
<1> DEFINE p == Fetched(cluster)
           spec == SpecOf(p)
<1>1. CASE p.type \in {"Old", "Intermediate", "Modern"}
  BY <1>1, PresetSpecs DEF SpecOf, Compose, Converted, Override, Base, Unset, Versions
<1>2. CASE p.type \notin {"Old", "Intermediate", "Modern"}
  <2>1. spec = p.spec
    BY <1>2, PresetSpecs DEF SpecOf
  <2>2. CASE p.type = "Custom" /\ p.given /\ p.spec \in Specs
    BY <2>1, <2>2, PresetSpecs DEF Compose, Converted, Override, Base, Unset, Versions, Specs
  <2>3. CASE p.spec = NoSpec /\ (p.type = "Unknown" \/ (p.type = "Custom" /\ ~p.given))
    BY <2>1, <2>3, PresetSpecs DEF Compose, Converted, Override, Base, Unset, Versions, NoSpec,
       Supported
  <2>4. p.type = "Unknown" => p.spec = NoSpec
    BY PresetSpecs DEF Clusters, Fetched, Profile, Absent
  <2> QED BY <1>2, <2>2, <2>3, <2>4, FetchedKinds
<1> QED BY <1>1, <1>2

\* A cluster's TLS profile reaches the collector, through the conversion, the
\* ConfigMap and the environment: its version, curves and suites, or the parts of it
\* that can be resolved.
THEOREM ProfilesAreHonoured == FunctionsSpec => []ProfilesHonoured
<1>1. ASSUME NEW cluster \in Clusters PROVE ProfileHonoured(cluster)
  <2> DEFINE p == Fetched(cluster)
             spec == SpecOf(p)
             c == Compose(p)
             config == CollectorConfig(cluster)
  <2>1. /\ config.min = c.min /\ config.curves = c.curves
        /\ config.suites = IF c.min = 13 THEN {} ELSE c.suites \ {"tls13"}
    BY DEF CollectorConfig, Applied, Env
  <2>2. spec.min # Unset => config.min = spec.min
    BY <2>1, ComposedFields
  <2>3. Supported(spec.groups) # {} => config.curves = Supported(spec.groups)
    BY <2>1, ComposedFields
  <2>4. ASSUME config.min < 13, Supported(spec.suites) \ {"tls13"} # {}
        PROVE  Offered(config) = Supported(spec.suites) \ {"tls13"}
    <3>1. config.min # 13
      BY <2>4
    <3>2. c.suites = Supported(spec.suites)
      BY <2>4, ComposedFields
    <3> QED BY <2>1, <2>4, <3>1, <3>2 DEF Offered
  <2> QED BY <2>2, <2>3, <2>4 DEF ProfileHonoured, SpecOf
<1>2. InputInv => ProfilesHonoured
  BY <1>1 DEF InputInv, ProfilesHonoured
<1> QED BY <1>2, InputCorrect, PTL

\* "The resulting ConfigMap is always populated with concrete values": a version and
\* suites, and below TLS 1.2 only when the profile says so.
THEOREM ConfigMapIsConcrete == FunctionsSpec => []ConfigMapConcrete
<1>1. ASSUME NEW cluster \in Clusters PROVE ResolvedIsConcrete(cluster)
  <2> DEFINE p == Fetched(cluster)
             spec == SpecOf(p)
             env == Env(Compose(p))
  <2>1. /\ env.minVersion = Compose(p).min /\ env.suites = Compose(p).suites
    BY DEF Env
  <2>2. env.minVersion # Unset /\ env.suites # {}
    BY <2>1, ComposedFields DEF Unset, Versions
  <2>3. ASSUME env.minVersion < 12
        PROVE  \/ cluster.type = "Old" /\ env.minVersion = Presets["Old"].min
               \/ cluster.type = "Custom" /\ env.minVersion = cluster.spec.min
    <3>1. env.minVersion = spec.min /\ spec.min # Unset
      BY <2>1, <2>3, ComposedFields
    <3>2. CASE p.type \in {"Old", "Intermediate", "Modern"}
      <4>1. p.type = "Old"
        BY <2>3, <3>1, <3>2, PresetSpecs DEF SpecOf
      <4>2. cluster.type = "Old"
        BY <4>1 DEF Fetched, Profile
      <4> QED BY <3>1, <4>1, <4>2, PresetSpecs DEF SpecOf
    <3>3. CASE p.type \notin {"Old", "Intermediate", "Modern"}
      <4>1. p = cluster /\ spec = p.spec
        BY <3>3, PresetSpecs DEF Fetched, Profile, SpecOf
      <4>2. p.type = "Unknown" => p.spec = NoSpec
        BY PresetSpecs DEF Clusters, Fetched, Profile, Absent
      <4>3. p.type = "Custom"
        BY <3>1, <3>3, <4>1, <4>2, FetchedKinds DEF NoSpec
      <4> QED BY <3>1, <4>1, <4>3
    <3> QED BY <3>2, <3>3
  <2> QED BY <2>2, <2>3 DEF ResolvedIsConcrete
<1>2. InputInv => ConfigMapConcrete
  BY <1>1 DEF InputInv, ConfigMapConcrete
<1> QED BY <1>2, InputCorrect, PTL

--------------------------------------------------------------------------------
(* The INSERT statement. *)

FullColumns == Common \o Drops \o Dns \o Rtt
FullKeys == <<"DNSErrno">> \o Tail(Common) \o Drops \o Dns \o Rtt

\* The columns of the table are distinct and, but for the first, the keys of a flow.
LEMMA FullStatement ==
  /\ DOMAIN FullColumns = 1..18 /\ Len(FullColumns) = 18 /\ Len(FullKeys) = 18
  /\ \A i \in 2..18 : FullColumns[i] = FullKeys[i]
  /\ \A i, j \in 1..18 : i # j => FullColumns[i] # FullColumns[j]
<1> DEFINE C == FullColumns
<1>1. DOMAIN C = 1..18 /\ Len(C) = 18 /\ Len(FullKeys) = 18
  BY DEF FullColumns, FullKeys, Common, Drops, Dns, Rtt
<1>2. \A i \in 2..18 : C[i] = FullKeys[i]
  BY DEF FullColumns, FullKeys, Common, Drops, Dns, Rtt
<1>3. /\ C[1] = "DnsErrno" /\ C[2] = "Dscp" /\ C[3] = "DstAddr" /\ C[4] = "DstPort"
      /\ C[5] = "Interface" /\ C[6] = "Proto" /\ C[7] = "SrcAddr" /\ C[8] = "SrcPort"
      /\ C[9] = "Bytes" /\ C[10] = "Packets"
  BY DEF FullColumns, Common, Drops, Dns, Rtt
<1>4. /\ C[11] = "PktDropLatestDropCause" /\ C[12] = "PktDropBytes" /\ C[13] = "PktDropPackets"
      /\ C[14] = "DnsId" /\ C[15] = "DnsName" /\ C[16] = "DnsFlagsResponseCode"
      /\ C[17] = "DnsLatencyMs" /\ C[18] = "TimeFlowRttNs"
  BY DEF FullColumns, Common, Drops, Dns, Rtt
<1>5. \A i \in 1..18 : i \in {1, 2, 3, 4, 5, 6, 7, 8, 9, 10, 11, 12, 13, 14, 15, 16, 17, 18}
  OBVIOUS
<1> HIDE DEF C
<1>6. \A i, j \in 1..18 : i # j => C[i] # C[j]
  BY <1>3, <1>4, <1>5
<1> QED BY <1>1, <1>2, <1>6 DEF C

\* Whatever JSON a flow has been decoded from, the two switches of insertFlowToDB agree:
\* its values fit the columns of its statement, although they test different keys.
THEOREM FlowsAlwaysFit == FunctionsSpec => []FlowsFit
<1>1. ASSUME NEW flow \in DecodedFlow PROVE StatementFits(flow)
  <2>1. \A v \in Decoded : Differs(v, Zero)
    BY DEF Decoded, Differs, Zero
  <2>2. /\ flow["PktDropPackets"] \in Decoded /\ flow["DnsId"] \in Decoded
        /\ flow["PktDropLatestDropCause"] \in Decoded
    BY DEF DecodedFlow
  <2>3. Columns(flow) = FullColumns /\ Keys(flow) = FullKeys
    BY <2>1, <2>2 DEF Columns, Keys, Section, FullColumns, FullKeys
  <2>4. TableColumns = {FullColumns[i] : i \in 1..18}
    BY DEF TableColumns, FullColumns
  <2> QED BY <2>3, <2>4, FullStatement DEF StatementFits
<1>2. InputInv => FlowsFit
  BY <1>1, InputAssumption DEF InputInv, FlowsFit
<1> QED BY <1>2, InputCorrect, PTL

--------------------------------------------------------------------------------
(* The series of an answer. *)

\* The least-number principle, for a set.
LEMMA LeastNatural ==
  ASSUME NEW T \in SUBSET Nat, T # {}
  PROVE  \E x \in T : \A y \in T : x <= y
<1> DEFINE R == {ss \in Nat \X Nat : ss[1] < ss[2]}
<1>1. IsWellFoundedOn(R, Nat)
  BY NatLessThanWellFounded DEF OpToRel
<1>2. \A x, y \in Nat : x < y => <<x, y>> \in R
  OBVIOUS
<1> HIDE DEF R
<1>3. PICK x \in T : \A y \in T : ~(<<y, x>> \in R)
  BY <1>1, WFMin
<1>4. ASSUME NEW y \in T PROVE x <= y
  <2>1. ~(y < x)
    BY <1>2, <1>3, Zenon
  <2> QED BY <2>1
<1> QED BY <1>4

\* Induction over a set of numbers.
LEMMA InductionOverSet ==
  ASSUME NEW T, 0 \in T, \A n \in Nat : n \in T => n + 1 \in T
  PROVE  Nat \subseteq T
<1> SUFFICES ASSUME Nat \ T # {} PROVE FALSE
  OBVIOUS
<1>1. PICK x \in Nat \ T : \A y \in Nat \ T : x <= y
  BY LeastNatural
<1>2. x - 1 \in Nat
  OBVIOUS
<1> QED BY <1>1, <1>2

\* When the first series is the longest, the scan ends with its length and times.
LEMMA ScannedAxis ==
  ASSUME NEW m \in Seq(Seq(Nat)), m # <<>>, \A i \in DOMAIN m : Len(m[i]) <= Len(m[1])
  PROVE  Scanned(m) = [len |-> Len(m[1]), times |-> m[1]]
<1> DEFINE axis == [len |-> Len(m[1]), times |-> m[1]]
           none == [len |-> 0, times |-> <<>>]
           Body(h, i) == IF i = 0 THEN none
                         ELSE IF Len(m[i]) > h[i - 1].len
                              THEN [len |-> Len(m[i]), times |-> h[i - 1].times \o m[i]]
                              ELSE h[i - 1]
           g == [i \in 0..Len(m) |-> IF i = 0 THEN none ELSE axis]
           f == CHOOSE h : h = [i \in 0..Len(m) |-> Body(h, i)]
<1>1. /\ Len(m) \in Nat /\ Len(m) >= 1 /\ DOMAIN m = 1..Len(m)
      /\ \A i \in 1..Len(m) : m[i] \in Seq(Nat) /\ Len(m[i]) \in Nat /\ Len(m[i]) <= Len(m[1])
  OBVIOUS
<1>2. <<>> \o m[1] = m[1] /\ (Len(m[1]) = 0 => m[1] = <<>>)
  BY <1>1
<1>3. ASSUME NEW i \in 0..Len(m) PROVE g[i] = Body(g, i)
  <2>1. CASE i = 0
    BY <2>1
  <2>2. CASE i = 1
    <3>1. g[i] = axis /\ g[i - 1] = none /\ none.len = 0 /\ none.times = <<>>
      BY <1>1, <2>2
    <3> HIDE DEF g
    <3>2. CASE Len(m[1]) > 0
      BY <1>2, <2>2, <3>1, <3>2
    <3>3. CASE Len(m[1]) = 0
      BY <1>2, <2>2, <3>1, <3>3
    <3> QED BY <1>1, <3>2, <3>3
  <2>3. CASE i > 1
    <3>1. g[i] = axis /\ g[i - 1] = axis /\ axis.len = Len(m[1]) /\ i \in 1..Len(m)
      BY <1>1, <2>3
    <3>2. ~(Len(m[i]) > axis.len)
      BY <1>1, <3>1
    <3> QED BY <2>3, <3>1, <3>2
  <2> QED BY <2>1, <2>2, <2>3
<1>4. g = [i \in 0..Len(m) |-> Body(g, i)]
  BY <1>3
<1>5. f = [i \in 0..Len(m) |-> Body(f, i)]
  <2> HIDE DEF g, Body
  <2>1. \E h : h = [i \in 0..Len(m) |-> Body(h, i)]
    BY <1>4
  <2> QED BY <2>1
<1>6. Scanned(m) = f[Len(m)]
  BY DEF Scanned
<1> HIDE DEF f
<1>7. ASSUME NEW i \in 0..Len(m) PROVE f[i] = Body(f, i)
  <2> HIDE DEF Body
  <2> QED BY <1>5
<1>8. f[0] = none
  <2>1. 0 \in 0..Len(m)
    BY <1>1
  <2>2. f[0] = Body(f, 0)
    BY <1>7, <2>1
  <2> QED BY <2>2
<1>9. ASSUME NEW i \in 1..Len(m), f[i - 1].len = Len(m[1]), f[i - 1] = axis PROVE f[i] = axis
  <2>1. f[i] = Body(f, i)
    <3> HIDE DEF Body
    <3>1. i \in 0..Len(m)
      BY <1>1
    <3> QED BY <1>7, <3>1
  <2>2. i # 0 /\ ~(Len(m[i]) > f[i - 1].len)
    BY <1>1, <1>9
  <2> HIDE DEF axis
  <2> QED BY <1>9, <2>1, <2>2
<1>10. f[1] = axis
  <2>1. f[1] = Body(f, 1)
    <3> HIDE DEF Body
    <3>1. 1 \in 0..Len(m)
      BY <1>1
    <3> QED BY <1>7, <3>1
  <2>2. f[1 - 1].len = 0 /\ f[1 - 1].times = <<>>
    BY <1>8
  <2>3. CASE Len(m[1]) > 0
    BY <1>2, <2>1, <2>2, <2>3
  <2>4. CASE Len(m[1]) = 0
    <3>1. f[1] = f[0]
      BY <2>1, <2>2, <2>4
    <3> QED BY <1>2, <1>8, <2>4, <3>1
  <2> QED BY <1>1, <2>3, <2>4
<1> DEFINE T == {n \in Nat : n + 1 <= Len(m) => f[n + 1] = axis}
<1>11. 0 \in T
  BY <1>10
<1>12. ASSUME NEW n \in Nat, n \in T PROVE n + 1 \in T
  <2> SUFFICES ASSUME (n + 1) + 1 <= Len(m) PROVE f[(n + 1) + 1] = axis
    OBVIOUS
  <2>1. f[n + 1] = axis
    BY <1>1, <1>12
  <2>2. (n + 1) + 1 \in 1..Len(m) /\ ((n + 1) + 1) - 1 = n + 1
    BY <1>1
  <2>3. f[((n + 1) + 1) - 1] = axis /\ axis.len = Len(m[1])
    BY <2>1, <2>2
  <2> HIDE DEF T, axis
  <2> QED BY <1>9, <2>2, <2>3
<1> HIDE DEF T
<1>13. Nat \subseteq T
  BY <1>11, <1>12, InductionOverSet
<1>14. f[Len(m)] = axis
  <2>1. Len(m) - 1 \in Nat /\ (Len(m) - 1) + 1 = Len(m) /\ Len(m) <= Len(m)
    BY <1>1
  <2>2. Len(m) - 1 \in T
    BY <1>13, <2>1
  <2>3. (Len(m) - 1) + 1 <= Len(m) => f[(Len(m) - 1) + 1] = axis
    <3> HIDE DEF axis
    <3> QED BY <2>2 DEF T
  <2> HIDE DEF axis
  <2> QED BY <2>1, <2>3
<1> QED BY <1>6, <1>14

\* A series that does not start with the axis starts at the first time that matches.
LEMMA StartMatches ==
  ASSUME NEW axis \in Seq(Nat), NEW scan, scan.times = axis, NEW s, Start(scan, s) # 0
  PROVE  /\ Start(scan, s) \in DOMAIN axis /\ Start(scan, s) + 1 \in DOMAIN axis
         /\ Matches(axis[Start(scan, s) + 1], s[1]) /\ ~Matches(axis[Start(scan, s)], s[1])
<1> DEFINE First(j) == /\ Matches(axis[j], s[1])
                       /\ \A k \in 1..(j - 1) : ~Matches(axis[k], s[1])
           j0 == CHOOSE j \in DOMAIN axis : First(j)
<1>1. (\E j \in DOMAIN axis : Matches(axis[j], s[1])) /\ Start(scan, s) = j0 - 1
  BY DEF Start
<1>2. \E j \in DOMAIN axis : First(j)
  <2> DEFINE T == {j \in DOMAIN axis : Matches(axis[j], s[1])}
  <2>1. T \in SUBSET Nat /\ T # {} /\ DOMAIN axis = 1..Len(axis) /\ Len(axis) \in Nat
    BY <1>1
  <2>2. PICK j \in T : \A k \in T : j <= k
    BY <2>1, LeastNatural
  <2>3. ASSUME NEW k \in 1..(j - 1) PROVE ~Matches(axis[k], s[1])
    <3>1. k \in DOMAIN axis /\ ~(j <= k)
      BY <2>1
    <3> QED BY <2>2, <3>1
  <2> QED BY <2>2, <2>3
<1>3. j0 \in DOMAIN axis /\ First(j0)
  <2> HIDE DEF First
  <2> QED BY <1>2
<1> HIDE DEF j0
<1>4. DOMAIN axis = 1..Len(axis) /\ Len(axis) \in Nat /\ j0 # 1
  BY <1>1
<1>5. (j0 - 1) + 1 = j0 /\ j0 - 1 \in DOMAIN axis /\ j0 - 1 \in 1..(j0 - 1)
  BY <1>3, <1>4
<1> QED BY <1>1, <1>3, <1>5

\* The place found for the first value of a series that follows the axis is its own.
LEMMA FoundPlace ==
  ASSUME NEW axis \in Seq(Nat), Ascending(axis), NEW b \in Nat, NEW o \in DOMAIN axis, b = axis[o],
         NEW start \in DOMAIN axis, start + 1 \in DOMAIN axis,
         axis[start + 1] >= b, ~(axis[start] >= b)
  PROVE  start + 1 = o
<1>1. /\ o \in Nat /\ start \in Nat
      /\ axis[o] \in Nat /\ axis[start] \in Nat /\ axis[start + 1] \in Nat
  OBVIOUS
<1>2. ~(o < start) /\ o # start
  BY <1>1 DEF Ascending
<1>3. ~(start + 1 < o)
  BY <1>1 DEF Ascending
<1> QED BY <1>1, <1>2, <1>3

\* ... and then the places of all its values are: those past the end of the axis have
\* times past its end.
LEMMA AlignedAt ==
  ASSUME NEW axis \in Seq(Nat), Ascending(axis), NEW s \in Seq(Nat), Ascending(s),
         NEW o \in DOMAIN axis, NEW p \in DOMAIN axis,
         \A k \in DOMAIN s : o + k - 1 \in DOMAIN axis => s[k] = axis[o + k - 1]
  PROVE  \A k \in DOMAIN s : s[k] = axis[p] <=> k = p - (o - 1)
<1>1. /\ o \in Nat /\ p \in Nat /\ Len(axis) \in Nat /\ Len(s) \in Nat
      /\ DOMAIN axis = 1..Len(axis) /\ DOMAIN s = 1..Len(s)
      /\ \A q \in DOMAIN axis : axis[q] \in Nat
      /\ \A k \in DOMAIN s : s[k] \in Nat
  OBVIOUS
<1>2. ASSUME NEW k \in DOMAIN s PROVE s[k] = axis[p] <=> k = p - (o - 1)
  <2>1. k \in Nat /\ k >= 1 /\ k <= Len(s) /\ o >= 1 /\ o <= Len(axis) /\ p >= 1 /\ p <= Len(axis)
    BY <1>1
  <2>2. CASE o + k - 1 \in DOMAIN axis
    <3>1. s[k] = axis[o + k - 1]
      BY <2>2
    <3>2. axis[o + k - 1] = axis[p] <=> o + k - 1 = p
      <4>1. o + k - 1 < p => axis[o + k - 1] < axis[p]
        BY <2>2 DEF Ascending
      <4>2. p < o + k - 1 => axis[p] < axis[o + k - 1]
        BY <2>2 DEF Ascending
      <4>3. o + k - 1 \in Nat /\ axis[o + k - 1] \in Nat /\ axis[p] \in Nat
        BY <1>1, <2>2
      <4>4. CASE o + k - 1 < p
        BY ONLY <1>1, <4>1, <4>3, <4>4
      <4>5. CASE p < o + k - 1
        BY ONLY <1>1, <4>2, <4>3, <4>5
      <4>6. o + k - 1 < p \/ p < o + k - 1 \/ o + k - 1 = p
        BY ONLY <1>1, <4>3
      <4> QED BY <4>4, <4>5, <4>6
    <3> QED BY <1>1, <2>1, <3>1, <3>2
  <2>3. CASE o + k - 1 \notin DOMAIN axis
    <3> DEFINE last == Len(axis) - (o - 1)
    <3>0. o + k - 1 > Len(axis)
      BY ONLY <1>1, <2>1, <2>3
    <3>1. last \in DOMAIN s /\ last < k /\ o + last - 1 = Len(axis) /\ Len(axis) \in DOMAIN axis
      <4>1. PICK l \in Nat, a \in Nat, b \in Nat, n \in Nat :
              l = Len(axis) /\ a = o /\ b = k /\ n = Len(s)
        BY ONLY <1>1, <2>1
      <4>2. a + b - 1 > l /\ a >= 1 /\ a <= l /\ b <= n
        BY ONLY <2>1, <3>0, <4>1
      <4>3. l - (a - 1) \in 1..n /\ l - (a - 1) < b /\ a + (l - (a - 1)) - 1 = l /\ l \in 1..l
        BY ONLY <4>2, l \in Nat, a \in Nat, b \in Nat, n \in Nat
      <4> QED BY ONLY <1>1, <4>1, <4>3 DEF last
    <3>2. s[last] = axis[Len(axis)]
      BY <3>1
    <3>3. s[last] < s[k]
      BY <3>1 DEF Ascending
    <3> HIDE DEF last
    <3>4. axis[p] <= axis[Len(axis)]
      <4>1. CASE p = Len(axis)
        BY <1>1, <4>1
      <4>2. CASE p < Len(axis)
        <5>1. axis[p] < axis[Len(axis)]
          BY <3>1, <4>2 DEF Ascending
        <5> QED BY ONLY <1>1, <3>1, <5>1
      <4> QED BY <2>1, <1>1, <4>1, <4>2
    <3>5. s[k] # axis[p]
      BY <1>1, <3>1, <3>2, <3>3, <3>4
    <3>6. k # p - (o - 1)
      BY <1>1, <2>1, <2>3
    <3> QED BY <3>5, <3>6
  <2> QED BY <2>2, <2>3
<1> QED BY <1>2

\* When the first series is the longest, a shorter one that is drawn and has no gap
\* against it has every value they share at its own time, and nothing elsewhere.
THEOREM SeriesStayInPlace == FunctionsSpec => []SeriesInPlace
<1>1. ASSUME NEW matrix \in Seq(Seq(Nat)) PROVE ShorterSeriesInPlace(matrix)
  <2> DEFINE m == Kept(matrix)
             axis == m[1]
             scan == Scanned(m)
             drawn == Drawn(matrix)
  <2>1. m \in Seq(Seq(Nat))
    BY ColorAssumption DEF Kept
  <2> SUFFICES ASSUME m # <<>>,
                      \A i \in DOMAIN m : Ascending(m[i]) /\ Len(m[i]) <= Len(axis),
                      NEW i \in DOMAIN drawn, drawn[i] # <<>>, Len(m[i]) < Len(axis),
                      Follows(m[i], axis),
                      NEW p \in DOMAIN axis
               PROVE  drawn[i][p] =
                        IF \E k \in DOMAIN m[i] : m[i][k] = axis[p] THEN axis[p] ELSE 0
    BY DEF ShorterSeriesInPlace
  <2> DEFINE s == m[i]
             start == Start(scan, s)
  <2>2. scan = [len |-> Len(axis), times |-> axis]
    BY <2>1, ScannedAxis
  <2>3. i \in DOMAIN m /\ i \in 1..i
    <3>1. DOMAIN drawn = DOMAIN m
      BY DEF Drawn
    <3> QED BY <2>1, <3>1
  <2>4. /\ ~Unmatched(scan, s)
        /\ drawn[i] = [q \in 1..scan.len |-> IF q - start \in DOMAIN s THEN s[q - start] ELSE 0]
    BY <2>3 DEF Drawn
  <2>5. s \in Seq(Nat) /\ axis \in Seq(Nat) /\ Ascending(s) /\ Ascending(axis) /\ Follows(s, axis)
    BY <2>1, <2>3
  <2>6. start # 0
    BY <2>2, <2>4 DEF Unmatched, Shorter
  <2> HIDE DEF m, scan, drawn
  <2>7. /\ start \in DOMAIN axis /\ start + 1 \in DOMAIN axis
        /\ Matches(axis[start + 1], s[1]) /\ ~Matches(axis[start], s[1])
    BY <2>2, <2>5, <2>6, StartMatches
  <2>8. drawn[i][p] = IF p - start \in DOMAIN s THEN s[p - start] ELSE 0
    BY <2>2, <2>4, <2>5
  <2> HIDE DEF s, start, axis
  <2>9. /\ Len(axis) \in Nat /\ DOMAIN axis = 1..Len(axis) /\ Len(s) \in Nat
        /\ DOMAIN s = 1..Len(s) /\ \A k \in DOMAIN s : s[k] \in Nat
        /\ \A k \in DOMAIN axis : axis[k] \in Nat
    BY <2>5
  <2>10. CASE s = <<>>
    BY <2>8, <2>10 DEF s
  <2>11. CASE s # <<>>
    <3>1. axis[start + 1] >= s[1] /\ ~(axis[start] >= s[1])
      BY <2>7 DEF Matches
    <3>2. PICK o \in DOMAIN axis :
            \A k \in DOMAIN s : o + k - 1 \in DOMAIN axis => s[k] = axis[o + k - 1]
      BY <2>5 DEF Follows
    <3>3. 1 \in DOMAIN s /\ o + 1 - 1 = o /\ o \in Nat
      <4>1. Len(s) # 0
        BY <2>5, <2>11
      <4> QED BY <2>9, <4>1
    <3>4. s[1] = axis[o] /\ s[1] \in Nat
      BY <3>2, <3>3, <2>9
    <3>5. start + 1 = o
      BY <2>5, <2>7, <3>1, <3>4, FoundPlace
    <3>6. \A k \in DOMAIN s : s[k] = axis[p] <=> k = p - (o - 1)
      BY <2>5, <3>2, AlignedAt
    <3>7. o - 1 = start
      BY <2>7, <2>9, <3>3, <3>5
    <3>8. \A k \in DOMAIN s : s[k] = axis[p] <=> k = p - start
      BY <3>6, <3>7
    <3> QED BY <2>8, <3>8 DEF s
  <2> QED BY <2>10, <2>11
<1>2. InputInv => SeriesInPlace
  BY <1>1, InputAssumption DEF InputInv, SeriesInPlace
<1> QED BY <1>2, InputCorrect, PTL
================================================================================
