---------------------------- MODULE SeriesAlignment ----------------------------
(***************************************************************************)
(* How updateData (cmd/metric_display.go) puts the series of an answer on  *)
(* one axis.  A series is the sequence of the times it has a value at; the *)
(* value drawn is named by its time, and 0 where there is none.            *)
(***************************************************************************)
EXTENDS Integers, Sequences

CONSTANT NumColors \* len(colors)

ASSUME ColorAssumption == NumColors \in Nat

\* "avoid color indexing crash"
Kept(matrix) == IF Len(matrix) > NumColors THEN SubSeq(matrix, 1, NumColors) ELSE matrix

\* The first loop: the length of the longest series so far, and the times of each
\* series that was longer than those before it, one list after the other.
Scanned(matrix) ==
  LET f[i \in 0..Len(matrix)] ==
        IF i = 0 THEN [len |-> 0, times |-> <<>>]
        ELSE IF Len(matrix[i]) > f[i - 1].len
             THEN [len |-> Len(matrix[i]), times |-> f[i - 1].times \o matrix[i]]
             ELSE f[i - 1]
  IN f[Len(matrix)]

\* Mutant: t.After only.
MatchesAfter(t, first) == t > first

\* "the closest matching timestamp"
Matches(t, first) == t >= first

Shorter(scan, s) == Len(s) < scan.len

\* The place before the first value: 0 too when no time matches.
Start(scan, s) ==
  IF Shorter(scan, s) /\ \E j \in DOMAIN scan.times : Matches(scan.times[j], s[1])
  THEN (CHOOSE j \in DOMAIN scan.times :
          /\ Matches(scan.times[j], s[1])
          /\ \A k \in 1..(j - 1) : ~Matches(scan.times[k], s[1])) - 1
  ELSE 0

\* The break that is to skip one series leaves the loop over all of them.
Unmatched(scan, s) == Shorter(scan, s) /\ Start(scan, s) = 0

Drawn(matrix) ==
  LET m == Kept(matrix)
      scan == Scanned(m)
      Points(s) == [p \in 1..scan.len |->
                      IF p - Start(scan, s) \in DOMAIN s THEN s[p - Start(scan, s)] ELSE 0]
  IN [i \in DOMAIN m |-> IF \E k \in 1..i : Unmatched(scan, m[k]) THEN <<>> ELSE Points(m[i])]

Ascending(s) == \A j, k \in DOMAIN s : j < k => s[j] < s[k]

\* From its first time on, s has a value at every time of the axis, until one of them ends.
Follows(s, axis) ==
  \E o \in DOMAIN axis :
    \A k \in DOMAIN s : o + k - 1 \in DOMAIN axis => s[k] = axis[o + k - 1]

\* When the first series is the longest, its times are the axis, and a shorter series that
\* is drawn and only starts late or ends early has every value it shares with the axis at
\* its own time, and nothing elsewhere.  Of a series with a gap it says nothing.
ShorterSeriesInPlace(matrix) ==
  LET m == Kept(matrix) drawn == Drawn(matrix) axis == m[1] IN
  (m # <<>> /\ \A i \in DOMAIN m : Ascending(m[i]) /\ Len(m[i]) <= Len(axis)) =>
     \A i \in DOMAIN drawn :
       (drawn[i] # <<>> /\ Len(m[i]) < Len(axis) /\ Follows(m[i], axis)) =>
         \A p \in DOMAIN axis :
           drawn[i][p] = IF \E k \in DOMAIN m[i] : m[i][k] = axis[p] THEN axis[p] ELSE 0
================================================================================
