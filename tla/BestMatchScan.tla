------------------------------ MODULE BestMatchScan ------------------------------
(***************************************************************************)
(* The scan of bestWireMatchWithAmbiguityLocked over the buffered packets  *)
(* (cmd/packet_capture_wire_buffer.go), one packet a step.  It keeps the   *)
(* best and the second best score only; WirePacketBuffer states the outcome*)
(* it is meant to have (Unrivalled).  This module shows they agree.        *)
(***************************************************************************)
EXTENDS Integers

CONSTANTS N,         \* number of buffered packets
          MaxScore,  \* bound on a score
          Margin     \* scoreAmbiguityMargin

ASSUME ScanAssumption == N \in Nat /\ MaxScore \in Nat /\ Margin \in Nat

VARIABLES score,     \* of each packet, -1 when it cannot match
          consumed,  \* packets already annotated
          next, bestIdx, bestScore, secondBest

inputs == <<score, consumed>>
vars == <<inputs, next, bestIdx, bestScore, secondBest>>

None == 0

Init ==
  /\ score \in [1..N -> -1..MaxScore]
  /\ consumed \in [1..N -> BOOLEAN]
  /\ next = 1 /\ bestIdx = None /\ bestScore = -1 /\ secondBest = -1

Skip ==
  /\ next <= N /\ consumed[next]
  /\ next' = next + 1
  /\ UNCHANGED <<inputs, bestIdx, bestScore, secondBest>>

\* Mutant: the former best is not kept as the second best.
NewBestForgets ==
  /\ next <= N /\ ~consumed[next] /\ score[next] > bestScore
  /\ bestScore' = score[next] /\ bestIdx' = next
  /\ next' = next + 1
  /\ UNCHANGED <<inputs, secondBest>>

NewBest ==
  /\ next <= N /\ ~consumed[next] /\ score[next] > bestScore
  /\ secondBest' = bestScore /\ bestScore' = score[next] /\ bestIdx' = next
  /\ next' = next + 1
  /\ UNCHANGED inputs

NotBest ==
  /\ next <= N /\ ~consumed[next] /\ score[next] <= bestScore
  /\ secondBest' = IF score[next] > secondBest THEN score[next] ELSE secondBest
  /\ next' = next + 1
  /\ UNCHANGED <<inputs, bestIdx, bestScore>>

Next == Skip \/ NewBest \/ NotBest

Spec == Init /\ [][Next]_vars

Ambiguous == bestIdx # None /\ secondBest >= 0 /\ bestScore - secondBest <= Margin

Candidate(i) == i \in 1..N /\ ~consumed[i] /\ score[i] >= 0
Rivalled(i) == \E j \in 1..N : Candidate(j) /\ j # i /\ score[i] - score[j] <= Margin

TypeOK ==
  /\ score \in [1..N -> -1..MaxScore] /\ consumed \in [1..N -> BOOLEAN]
  /\ next \in 1..(N + 1)
  /\ bestIdx \in 0..N /\ bestScore \in -1..MaxScore /\ secondBest \in -1..MaxScore

\* When the scan ends it has named packet i unambiguously exactly when i is a
\* candidate that no other candidate rivals: keeping two scores out of N decides
\* uniqueness, whatever the order of the packets and however many scores tie.
ScanFindsUnrivalled ==
  next = N + 1 =>
    \A i \in 1..N :
      (bestIdx = i /\ ~Ambiguous) <=> (Candidate(i) /\ ~Rivalled(i))
================================================================================
