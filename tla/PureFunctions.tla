------------------------------ MODULE PureFunctions ------------------------------
(***************************************************************************)
(* The parts of the program that only compute, over any inputs.  A state is*)
(* one input: a record and a packet to score, then a packet that competes; *)
(* a scan of scores on its way; a flow to store; an answer to draw; a      *)
(* cluster's TLS profile.                                                  *)
(***************************************************************************)
EXTENDS WireMatch, BestMatchScan, FlowStore, SeriesAlignment, TLSProfile

CONSTANTS
  Wires, Competitors,  \* the packets to score, and those of them that compete
  Records,             \* the plaintext records to score them for
  ReceiveTimes,        \* when the collector receives them
  Flows,               \* the flows to store
  Answers              \* the answers to draw: each a sequence of series

ASSUME InputAssumption ==
  /\ Wires \subseteq WireRecord /\ Competitors \subseteq Wires
  /\ Records \subseteq PlaintextRecord /\ ReceiveTimes \subseteq Nat
  /\ Flows \subseteq DecodedFlow
  /\ Answers \subseteq Seq(Seq(Nat))

VARIABLES kind, pt, first, second, input

pairVars == <<pt, first, second>>

Received(w, t) == [wire |-> w, receivedAt |-> t]
Nothing == [wire |-> "none"]

NoPair == pt = Nothing /\ first = Nothing /\ second = Nothing
NoScan ==
  /\ score = [i \in 1..N |-> -1] /\ consumed = [i \in 1..N |-> FALSE]
  /\ next = 1 /\ bestIdx = 0 /\ bestScore = -1 /\ secondBest = -1

PairInit ==
  /\ kind = "pair" /\ NoScan /\ input = <<>>
  /\ pt \in [rec : Records, receivedAt : ReceiveTimes]
  /\ first \in [wire : Wires, receivedAt : ReceiveTimes]
  /\ second = Nothing

ScanInit == kind = "scan" /\ Init /\ NoPair /\ input = <<>>

InputInit ==
  /\ NoPair /\ NoScan
  /\ \/ kind = "flow" /\ input \in Flows
     \/ kind = "series" /\ input \in Answers
     \/ kind = "tls" /\ input \in Clusters

FunctionsInit == PairInit \/ ScanInit \/ InputInit

Compete ==
  /\ kind = "pair" /\ second = Nothing /\ first.wire \in Competitors /\ Score(first, pt) >= 0
  /\ \E w \in Competitors, t \in ReceiveTimes :
       second' = Received(w, t) /\ Score(Received(w, t), pt) >= 0
  /\ UNCHANGED <<kind, input, pt, first, vars>>

Scan == kind = "scan" /\ Next /\ UNCHANGED <<kind, input, pairVars>>

FunctionsSpec == FunctionsInit /\ [][Compete \/ Scan]_<<kind, input, pairVars, vars>>

\* The bonuses cannot carry a packet over the record's threshold.
EvidenceNeeded == kind = "pair" => ThresholdOnEvidence(first, pt)

\* Two packets that compete for a record do so in the same tier.
TierDecides == (kind = "pair" /\ second # Nothing) => OneTier(first, second, pt)

\* Whatever a flow has of drops and DNS, its values fit the columns of its statement.
FlowsFit == kind = "flow" => StatementFits(input)

\* Shorter series that only start late or end early are drawn at their own times.
SeriesInPlace == kind = "series" => ShorterSeriesInPlace(input)

\* The collector's TLS settings are those of the cluster's profile.
ProfilesHonoured == kind = "tls" => ProfileHonoured(input)

\* What is written to the ConfigMap is concrete, and old TLS only where it is asked for.
ConfigMapConcrete == kind = "tls" => ResolvedIsConcrete(input)
================================================================================
