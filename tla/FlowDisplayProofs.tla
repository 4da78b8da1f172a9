--------------------------- MODULE FlowDisplayProofs ---------------------------
(* The rows of the table, for any records, buffers and table sizes.            *)
EXTENDS FlowDisplay, TLAPS, FiniteSetTheorems, SequenceTheorems, WellFoundedInduction

--------------------------------------------------------------------------------
(* Induction *)

\* The least-number principle, for a set.
LEMMA LeastNatural ==
  ASSUME NEW T \in SUBSET Nat, T # {}
  PROVE  \E x \in T : \A y \in T : x <= y
<1> DEFINE R == {ss \in Nat \X Nat : ss[1] < ss[2]}
<1>1. IsWellFoundedOn(R, Nat)
  BY NatLessThanWellFounded DEF OpToRel
<1>2. \A x, y \in Nat : x < y => <<x, y>> \in R
  OBVIOUS
<1> HIDE DEF R
<1>3. PICK x \in T : \A y \in T : ~(<<y, x>> \in R)
  BY <1>1, WFMin
<1>4. ASSUME NEW y \in T PROVE x <= y
  <2>1. ~(y < x)
    BY <1>2, <1>3, Zenon
  <2> QED BY <2>1
<1> QED BY <1>4

\* Induction up to a bound, over a set of numbers.
LEMMA InductionUpTo ==
  ASSUME NEW m \in Nat, NEW T, 0 \in T, \A n \in 0..(m - 1) : n \in T => n + 1 \in T
  PROVE  \A n \in 0..m : n \in T
<1> DEFINE F == {n \in 0..m : n \notin T}
<1> SUFFICES ASSUME F # {} PROVE FALSE
  OBVIOUS
<1>1. PICK x \in F : \A y \in F : x <= y
  <2>1. F \in SUBSET Nat
    OBVIOUS
  <2> HIDE DEF F
  <2> QED BY <2>1, LeastNatural
<1>2. x # 0 /\ x - 1 \in 0..(m - 1) /\ (x - 1) + 1 = x
  OBVIOUS
<1>3. x - 1 \in T
  BY <1>1, <1>2
<1> QED BY <1>2, <1>3

--------------------------------------------------------------------------------
(* The loop that keeps some of the rows *)

\* What the loop has kept after n rows.
Loop(f, s, Keep) ==
  /\ f[0] = <<>>
  /\ \A n \in 1..Len(s) : f[n] = IF s[n] \in Keep THEN Append(f[n - 1], s[n]) ELSE f[n - 1]

\* The loop ends, with what it has kept.
LEMMA LoopEnds ==
  ASSUME NEW X, NEW s \in Seq(X), NEW Keep
  PROVE  \E f : Loop(f, s, Keep) /\ Those(s, Keep) = f[Len(s)]
<1> DEFINE Body(f, n) == IF n = 0 THEN <<>>
                         ELSE IF s[n] \in Keep THEN Append(f[n - 1], s[n]) ELSE f[n - 1]
           T == {n \in Nat : \E f : f = [i \in 0..n |-> Body(f, i)]}
<1>1. Len(s) \in Nat
  OBVIOUS
<1>2. 0 \in T
  <2> DEFINE f == [i \in 0..0 |-> <<>>]
  <2>1. f = [i \in 0..0 |-> Body(f, i)]
    OBVIOUS
  <2> QED BY <2>1
<1>3. ASSUME NEW n \in 0..(Len(s) - 1), n \in T PROVE n + 1 \in T
  <2>1. PICK f : f = [i \in 0..n |-> Body(f, i)]
    BY <1>3
  <2> DEFINE g == [i \in 0..(n + 1) |-> IF i <= n THEN f[i] ELSE Body(f, i)]
  <2>2. ASSUME NEW i \in 0..(n + 1) PROVE g[i] = Body(g, i)
    <3>1. g[i] = Body(f, i)
      <4>1. CASE i <= n
        <5>1. i \in 0..n /\ g[i] = f[i]
          BY <1>1, <4>1
        <5> HIDE DEF Body, g
        <5> QED BY <2>1, <5>1
      <4>2. CASE ~(i <= n)
        <5> HIDE DEF Body
        <5> QED BY <4>2
      <4> QED BY <4>1, <4>2
    <3>2. i # 0 => i - 1 \in 0..(n + 1) /\ i - 1 <= n
      BY <1>1
    <3>3. i # 0 => g[i - 1] = f[i - 1]
      BY <3>2
    <3> HIDE DEF g
    <3> QED BY <3>1, <3>3
  <2>3. g = [i \in 0..(n + 1) |-> Body(g, i)]
    BY <2>2
  <2> HIDE DEF g, Body
  <2> QED BY <1>1, <2>3
<1> DEFINE f == CHOOSE h : h = [i \in 0..Len(s) |-> Body(h, i)]
<1>4. f = [i \in 0..Len(s) |-> Body(f, i)]
  <2> HIDE DEF Body
  <2>1. \A n \in 0..Len(s) : n \in T
    <3> HIDE DEF T
    <3> QED BY <1>1, <1>2, <1>3, InductionUpTo
  <2>2. \E h : h = [i \in 0..Len(s) |-> Body(h, i)]
    BY <1>1, <2>1
  <2> QED BY <2>2
<1>5. Those(s, Keep) = f[Len(s)]
  BY DEF Those
<1> HIDE DEF f
<1>6. ASSUME NEW n \in 0..Len(s) PROVE f[n] = Body(f, n)
  <2> HIDE DEF Body
  <2> QED BY <1>4
<1>7. Loop(f, s, Keep)
  <2>1. f[0] = <<>>
    BY <1>1, <1>6
  <2>2. ASSUME NEW n \in 1..Len(s)
        PROVE  f[n] = IF s[n] \in Keep THEN Append(f[n - 1], s[n]) ELSE f[n - 1]
    <3>1. n \in 0..Len(s) /\ n # 0
      BY <1>1
    <3> QED BY <1>6, <3>1
  <2> QED BY <2>1, <2>2 DEF Loop
<1> QED BY <1>5, <1>7

--------------------------------------------------------------------------------
(* Sequences *)

\* Each element stands in R to those after it.
Along(s, R) == \A i, j \in DOMAIN s : i < j => <<s[i], s[j]>> \in R

\* The empty sequence has no elements.
LEMMA NoElements == ToSet(<<>>) = {}
BY DEF ToSet

\* Append at the end: one element more, after the others.
LEMMA AppendLast ==
  ASSUME NEW X, NEW s \in Seq(X), NEW x \in X
  PROVE  /\ Append(s, x) \in Seq(X) /\ Len(Append(s, x)) = Len(s) + 1
         /\ ToSet(Append(s, x)) = ToSet(s) \cup {x}
         /\ \A R : Along(s, R) /\ (\A y \in ToSet(s) : <<y, x>> \in R) => Along(Append(s, x), R)
<1> DEFINE t == Append(s, x)
<1>1. /\ t \in Seq(X) /\ Len(t) = Len(s) + 1 /\ Len(s) \in Nat
      /\ DOMAIN s = 1..Len(s) /\ DOMAIN t = 1..(Len(s) + 1)
      /\ \A i \in 1..Len(s) : t[i] = s[i]
      /\ t[Len(s) + 1] = x
  OBVIOUS
<1> HIDE DEF t
<1>2. \A i \in DOMAIN t : i \in DOMAIN s \/ i = Len(s) + 1
  BY <1>1
<1>3. DOMAIN s \subseteq DOMAIN t /\ Len(s) + 1 \in DOMAIN t
  BY <1>1
<1>4. ToSet(t) = ToSet(s) \cup {x}
  BY <1>1, <1>2, <1>3 DEF ToSet
<1>5. ASSUME NEW R, Along(s, R), \A y \in ToSet(s) : <<y, x>> \in R PROVE Along(t, R)
  <2> SUFFICES ASSUME NEW i \in DOMAIN t, NEW k \in DOMAIN t, i < k PROVE <<t[i], t[k]>> \in R
    BY DEF Along
  <2>1. i \in DOMAIN s
    BY <1>1
  <2>2. CASE k \in DOMAIN s
    BY <1>1, <1>5, <2>1, <2>2 DEF Along
  <2>3. CASE k = Len(s) + 1
    <3>1. t[k] = x /\ t[i] = s[i] /\ s[i] \in ToSet(s)
      BY <1>1, <2>1, <2>3 DEF ToSet
    <3> QED BY <1>5, <3>1
  <2> QED BY <1>2, <2>2, <2>3
<1> QED BY <1>1, <1>4, <1>5 DEF t

\* The loop keeps the elements of Keep, in their order.
LEMMA ThoseKept ==
  ASSUME NEW X, NEW s \in Seq(X), NEW Keep
  PROVE  /\ Those(s, Keep) \in Seq(X)
         /\ ToSet(Those(s, Keep)) = ToSet(s) \cap Keep
         /\ \A R : Along(s, R) => Along(Those(s, Keep), R)
<1>1. PICK f : Loop(f, s, Keep) /\ Those(s, Keep) = f[Len(s)]
  BY LoopEnds
<1> DEFINE UpTo(n) == {s[j] : j \in 1..n}
           T == {n \in Nat : f[n] \in Seq(X) /\ ToSet(f[n]) = UpTo(n) \cap Keep}
<1>2. Len(s) \in Nat /\ DOMAIN s = 1..Len(s) /\ \A j \in 1..Len(s) : s[j] \in X
  OBVIOUS
<1>3. f[0] = <<>> /\ <<>> \in Seq(X) /\ ToSet(<<>>) = {} /\ UpTo(0) = {}
  BY <1>1 DEF Loop, ToSet
<1>4. ASSUME NEW n \in 0..(Len(s) - 1)
      PROVE  /\ n + 1 \in 1..Len(s) /\ s[n + 1] \in X /\ n \in Nat /\ n + 1 \in Nat
             /\ UpTo(n + 1) = UpTo(n) \cup {s[n + 1]}
             /\ f[n + 1] = IF s[n + 1] \in Keep THEN Append(f[n], s[n + 1]) ELSE f[n]
  <2>1. n + 1 \in 1..Len(s) /\ (n + 1) - 1 = n /\ n \in Nat
    BY <1>2
  <2>2. \A j : j \in 1..(n + 1) <=> j \in 1..n \/ j = n + 1
    BY <2>1
  <2> QED BY <1>1, <1>2, <2>1, <2>2 DEF Loop
<1>5. 0 \in T
  BY <1>3
<1>6. ASSUME NEW n \in 0..(Len(s) - 1), n \in T PROVE n + 1 \in T
  <2>1. f[n] \in Seq(X) /\ ToSet(f[n]) = UpTo(n) \cap Keep
    BY <1>6
  <2> HIDE DEF UpTo
  <2>2. CASE s[n + 1] \in Keep
    <3>1. /\ Append(f[n], s[n + 1]) \in Seq(X)
          /\ ToSet(Append(f[n], s[n + 1])) = ToSet(f[n]) \cup {s[n + 1]}
      BY <1>4, <2>1, AppendLast
    <3>2. f[n + 1] = Append(f[n], s[n + 1])
      BY <1>4, <2>2
    <3> QED BY <1>4, <2>1, <2>2, <3>1, <3>2
  <2>3. CASE s[n + 1] \notin Keep
    BY <1>4, <2>1, <2>3
  <2> QED BY <2>2, <2>3
<1>7. \A n \in 0..Len(s) : n \in T
  <2> HIDE DEF T
  <2> QED BY <1>2, <1>5, <1>6, InductionUpTo
<1>8. f[Len(s)] \in Seq(X) /\ ToSet(f[Len(s)]) = ToSet(s) \cap Keep
  <2>1. UpTo(Len(s)) = ToSet(s) /\ Len(s) \in 0..Len(s)
    BY <1>2 DEF ToSet
  <2> QED BY <1>7, <2>1
<1>9. ASSUME NEW R, Along(s, R) PROVE Along(f[Len(s)], R)
  <2> DEFINE A == {n \in Nat : Along(f[n], R)}
  <2>1. 0 \in A
    BY <1>3 DEF Along
  <2>2. ASSUME NEW n \in 0..(Len(s) - 1), n \in A PROVE n + 1 \in A
    <3>1. n \in 0..Len(s)
      BY <1>2
    <3>2. f[n] \in Seq(X) /\ ToSet(f[n]) \subseteq UpTo(n)
      BY <1>7, <3>1
    <3>3. \A y \in UpTo(n) : <<y, s[n + 1]>> \in R
      BY <1>2, <1>9 DEF Along
    <3> HIDE DEF UpTo, T
    <3>4. Along(f[n], R)
      BY <2>2
    <3> QED BY <1>4, <3>2, <3>3, <3>4, AppendLast
  <2>3. Len(s) \in A
    <3> HIDE DEF A
    <3>1. \A n \in 0..Len(s) : n \in A
      BY <1>2, <2>1, <2>2, InductionUpTo
    <3> QED BY <1>2, <3>1
  <2> QED BY <2>3
<1> QED BY <1>1, <1>8, <1>9

\* What the loop has kept is a sequence of elements at any time.
LEMMA LoopType ==
  ASSUME NEW X, NEW s \in Seq(X), NEW Keep, NEW f, Loop(f, s, Keep), NEW n \in 0..Len(s)
  PROVE  f[n] \in Seq(X)
<1> DEFINE T == {k \in Nat : f[k] \in Seq(X)}
<1>1. 0 \in T
  BY EmptySeq DEF Loop
<1>2. ASSUME NEW k \in 0..(Len(s) - 1), k \in T PROVE k + 1 \in T
  <2>1. k + 1 \in 1..Len(s) /\ (k + 1) - 1 = k /\ s[k + 1] \in X /\ k + 1 \in Nat
    OBVIOUS
  <2>2. f[k + 1] = IF s[k + 1] \in Keep THEN Append(f[k], s[k + 1]) ELSE f[k]
    BY <2>1 DEF Loop
  <2>3. f[k] \in Seq(X)
    BY <1>2
  <2>4. Append(f[k], s[k + 1]) \in Seq(X)
    BY <2>1, <2>3, AppendLast
  <2> QED BY <2>1, <2>2, <2>3, <2>4
<1> HIDE DEF T
<1>3. n \in T
  <2>1. Len(s) \in Nat
    OBVIOUS
  <2>2. \A k \in 0..Len(s) : k \in T
    BY <1>1, <1>2, <2>1, InductionUpTo
  <2> QED BY <2>2
<1> QED BY <1>3 DEF T

\* The loop over two sequences is the two loops, one after the other.
LEMMA ThoseCat ==
  ASSUME NEW X, NEW s \in Seq(X), NEW t \in Seq(X), NEW K, NEW KS, NEW KT,
         \A x \in ToSet(s) : x \in K <=> x \in KS,
         \A x \in ToSet(t) : x \in K <=> x \in KT
  PROVE  Those(s \o t, K) = Those(s, KS) \o Those(t, KT)
<1> DEFINE c == s \o t
           p == Len(s)
           q == Len(t)
<1>1. /\ c \in Seq(X) /\ Len(c) = p + q /\ p \in Nat /\ q \in Nat
      /\ \A i \in 1..p : c[i] = s[i] /\ s[i] \in ToSet(s)
      /\ \A i \in 1..q : c[p + i] = t[i] /\ t[i] \in ToSet(t) /\ t[i] \in X
  BY DEF ToSet
<1> HIDE DEF c, p, q
<1>2. PICK f : Loop(f, c, K) /\ Those(c, K) = f[p + q]
  BY <1>1, LoopEnds
<1>3. PICK g : Loop(g, s, KS) /\ Those(s, KS) = g[p]
  BY LoopEnds DEF p
<1>4. PICK h : Loop(h, t, KT) /\ Those(t, KT) = h[q]
  BY LoopEnds DEF q
<1> DEFINE F == {n \in Nat : f[n] = g[n]}
           G == {n \in Nat : f[p + n] = g[p] \o h[n]}
<1>5. 0 \in F
  BY <1>2, <1>3 DEF Loop
<1>6. ASSUME NEW n \in 0..(p - 1), n \in F PROVE n + 1 \in F
  <2>1. n + 1 \in 1..p /\ (n + 1) - 1 = n /\ n + 1 \in 1..Len(c) /\ n + 1 \in Nat
    BY <1>1
  <2>2. f[n + 1] = IF c[n + 1] \in K THEN Append(f[n], c[n + 1]) ELSE f[n]
    BY <1>2, <2>1 DEF Loop
  <2>3. g[n + 1] = IF s[n + 1] \in KS THEN Append(g[n], s[n + 1]) ELSE g[n]
    BY <1>3, <2>1 DEF Loop, p
  <2>4. c[n + 1] = s[n + 1] /\ (s[n + 1] \in K <=> s[n + 1] \in KS) /\ f[n] = g[n]
    BY <1>1, <1>6, <2>1
  <2> QED BY <2>1, <2>2, <2>3, <2>4
<1>7. f[p] = g[p]
  <2> HIDE DEF F
  <2>1. \A n \in 0..p : n \in F
    BY <1>1, <1>5, <1>6, InductionUpTo
  <2>2. p \in F
    BY <1>1, <2>1
  <2> QED BY <2>2 DEF F
<1>8. g[p] \in Seq(X)
  BY <1>1, <1>3, LoopType DEF p
<1>9. 0 \in G
  <2>1. h[0] = <<>> /\ g[p] \o <<>> = g[p] /\ p + 0 = p
    BY <1>1, <1>4, <1>8 DEF Loop
  <2> QED BY <1>7, <2>1
<1>10. ASSUME NEW n \in 0..(q - 1), n \in G PROVE n + 1 \in G
  <2>1. /\ n + 1 \in 1..q /\ (n + 1) - 1 = n /\ p + (n + 1) \in 1..Len(c) /\ n + 1 \in Nat
        /\ (p + (n + 1)) - 1 = p + n /\ n \in 0..q
    BY <1>1
  <2>2. f[p + (n + 1)] =
          IF c[p + (n + 1)] \in K THEN Append(f[p + n], c[p + (n + 1)]) ELSE f[p + n]
    BY <1>2, <2>1 DEF Loop
  <2>3. h[n + 1] = IF t[n + 1] \in KT THEN Append(h[n], t[n + 1]) ELSE h[n]
    BY <1>4, <2>1 DEF Loop, q
  <2>4. /\ c[p + (n + 1)] = t[n + 1] /\ (t[n + 1] \in K <=> t[n + 1] \in KT)
        /\ t[n + 1] \in X /\ f[p + n] = g[p] \o h[n]
    BY <1>1, <1>10, <2>1
  <2>5. h[n] \in Seq(X)
    BY <1>4, <2>1, LoopType DEF q
  <2>6. Append(g[p] \o h[n], t[n + 1]) = g[p] \o Append(h[n], t[n + 1])
    <3>1. PICK a \in Seq(X), b \in Seq(X), x \in X : a = g[p] /\ b = h[n] /\ x = t[n + 1]
      BY <1>8, <2>4, <2>5
    <3> DEFINE u == Append(a \o b, x)
               v == a \o Append(b, x)
    <3>2. /\ u \in Seq(X) /\ v \in Seq(X) /\ Len(u) = Len(v)
          /\ Len(u) = Len(a) + Len(b) + 1 /\ Len(a) \in Nat /\ Len(b) \in Nat
      BY ONLY a \in Seq(X), b \in Seq(X), x \in X
    <3>3. ASSUME NEW i \in 1..Len(u) PROVE u[i] = v[i]
      <4> DEFINE ab == a \o b
                 bx == Append(b, x)
      <4>1. /\ ab \in Seq(X) /\ Len(ab) = Len(a) + Len(b)
            /\ \A k \in 1..(Len(a) + Len(b)) : ab[k] = IF k <= Len(a) THEN a[k] ELSE b[k - Len(a)]
        BY ConcatProperties
      <4>2. /\ bx \in Seq(X) /\ Len(bx) = Len(b) + 1
            /\ \A k \in 1..Len(b) : bx[k] = b[k]
            /\ bx[Len(b) + 1] = x
        BY AppendProperties
      <4>3. \A k \in 1..(Len(a) + Len(bx)) : v[k] = IF k <= Len(a) THEN a[k] ELSE bx[k - Len(a)]
        BY <4>2, ConcatProperties
      <4>4. (\A k \in 1..Len(ab) : u[k] = ab[k]) /\ u[Len(ab) + 1] = x
        BY <4>1, AppendProperties
      <4> HIDE DEF ab, bx, u, v
      <4>5. i \in Nat /\ i >= 1 /\ i <= Len(a) + Len(b) + 1
        BY <3>2
      <4>6. CASE i <= Len(a)
        <5>1. /\ i \in 1..(Len(a) + Len(b)) /\ i \in 1..Len(ab) /\ i \in 1..(Len(a) + Len(bx))
          BY <3>2, <4>1, <4>2, <4>5, <4>6
        <5> QED BY <4>1, <4>3, <4>4, <4>6, <5>1
      <4>7. CASE i > Len(a) /\ i <= Len(a) + Len(b)
        <5>1. /\ i \in 1..(Len(a) + Len(b)) /\ i \in 1..Len(ab) /\ i \in 1..(Len(a) + Len(bx))
              /\ i - Len(a) \in 1..Len(b) /\ ~(i <= Len(a))
          BY <3>2, <4>1, <4>2, <4>5, <4>7
        <5> QED BY <4>1, <4>2, <4>3, <4>4, <5>1
      <4>8. CASE i = Len(a) + Len(b) + 1
        <5>1. /\ i = Len(ab) + 1 /\ i \in 1..(Len(a) + Len(bx))
              /\ i - Len(a) = Len(b) + 1 /\ ~(i <= Len(a))
          BY <3>2, <4>1, <4>2, <4>5, <4>8
        <5> QED BY <4>2, <4>3, <4>4, <5>1
      <4>9. \/ i <= Len(a)
            \/ i > Len(a) /\ i <= Len(a) + Len(b)
            \/ i = Len(a) + Len(b) + 1
        <5>1. PICK la \in Nat, lb \in Nat : la = Len(a) /\ lb = Len(b)
          BY <3>2
        <5>2. i \in Nat /\ i <= la + lb + 1
          BY <4>5, <5>1
        <5>3. i <= la \/ (i > la /\ i <= la + lb) \/ i = la + lb + 1
          BY ONLY la \in Nat, lb \in Nat, <5>2
        <5> QED BY ONLY <5>1, <5>3
      <4> QED BY ONLY <4>6, <4>7, <4>8, <4>9
    <3>4. u = Append(g[p] \o h[n], t[n + 1]) /\ v = g[p] \o Append(h[n], t[n + 1])
      BY ONLY <3>1
    <3> HIDE DEF u, v
    <3>5. u = v
      BY <3>2, <3>3, SeqEqual
    <3> QED BY ONLY <3>4, <3>5
  <2>7. f[p + (n + 1)] = g[p] \o h[n + 1]
    BY <2>2, <2>3, <2>4, <2>6
  <2> QED BY <2>1, <2>7
<1>11. f[p + q] = g[p] \o h[q]
  <2> HIDE DEF G
  <2>1. \A n \in 0..q : n \in G
    BY <1>1, <1>9, <1>10, InductionUpTo
  <2>2. q \in G
    BY <1>1, <2>1
  <2> QED BY <2>2 DEF G
<1> QED BY <1>2, <1>3, <1>4, <1>11 DEF c

\* A loop that keeps everything changes nothing.
LEMMA ThoseAll ==
  ASSUME NEW X, NEW s \in Seq(X), NEW Keep, ToSet(s) \subseteq Keep
  PROVE  Those(s, Keep) = s
<1>1. PICK f : Loop(f, s, Keep) /\ Those(s, Keep) = f[Len(s)]
  BY LoopEnds
<1> DEFINE T == {n \in Nat : /\ f[n] \in Seq(X) /\ Len(f[n]) = n
                             /\ \A i \in 1..n : f[n][i] = s[i]}
<1>2. Len(s) \in Nat /\ \A i \in 1..Len(s) : s[i] \in X /\ s[i] \in Keep
  BY DEF ToSet
<1>3. 0 \in T
  <2>1. f[0] = <<>> /\ <<>> \in Seq(X) /\ Len(<<>>) = 0
    BY <1>1, EmptySeq DEF Loop
  <2>2. Len(f[0]) = 0 /\ f[0] \in Seq(X) /\ 1..0 = {}
    BY <2>1
  <2> QED BY <2>2
<1>4. ASSUME NEW n \in 0..(Len(s) - 1), n \in T PROVE n + 1 \in T
  <2>1. n + 1 \in 1..Len(s) /\ (n + 1) - 1 = n /\ n + 1 \in Nat /\ n \in Nat
    BY <1>2
  <2>2. f[n + 1] = Append(f[n], s[n + 1]) /\ s[n + 1] \in X
    BY <1>1, <1>2, <2>1 DEF Loop
  <2>3. f[n] \in Seq(X) /\ Len(f[n]) = n /\ \A i \in 1..n : f[n][i] = s[i]
    BY <1>4
  <2>4. /\ Append(f[n], s[n + 1]) \in Seq(X) /\ Len(Append(f[n], s[n + 1])) = n + 1
        /\ \A i \in 1..n : Append(f[n], s[n + 1])[i] = s[i]
        /\ Append(f[n], s[n + 1])[n + 1] = s[n + 1]
    BY <2>1, <2>2, <2>3
  <2>5. \A i \in 1..(n + 1) : i \in 1..n \/ i = n + 1
    BY <2>1
  <2> QED BY <2>1, <2>2, <2>4, <2>5
<1>5. Len(s) \in T
  <2> HIDE DEF T
  <2>1. \A n \in 0..Len(s) : n \in T
    BY <1>2, <1>3, <1>4, InductionUpTo
  <2> QED BY <1>2, <2>1
<1>6. f[Len(s)] = s
  BY <1>5
<1> QED BY <1>1, <1>6

\* A loop that keeps nothing ends with nothing.
LEMMA ThoseNone ==
  ASSUME NEW X, NEW s \in Seq(X), NEW Keep, ToSet(s) \cap Keep = {}
  PROVE  Those(s, Keep) = <<>>
<1> DEFINE t == Those(s, Keep)
<1>1. t \in Seq(X) /\ ToSet(t) = {}
  BY ThoseKept
<1> HIDE DEF t
<1>2. Len(t) \in Nat /\ Len(t) = 0
  <2>1. ASSUME Len(t) # 0 PROVE FALSE
    <3>1. t[1] \in ToSet(t)
      BY <1>1, <2>1 DEF ToSet
    <3> QED BY <1>1, <3>1
  <2> QED BY <1>1, <2>1
<1>3. t = <<>>
  BY <1>1, <1>2, EmptySeq
<1> QED BY <1>3 DEF t

\* The last n of a sequence, each at its distance from the end.
LEMMA LastOfAt ==
  ASSUME NEW X, NEW s \in Seq(X), NEW n \in Nat
  PROVE  /\ LastOf(s, n) \in Seq(X)
         /\ Len(LastOf(s, n)) = IF Len(s) > n THEN n ELSE Len(s)
         /\ \A i \in 1..Len(LastOf(s, n)) :
              /\ LastOf(s, n)[i] = s[Len(s) - Len(LastOf(s, n)) + i]
              /\ Len(s) - Len(LastOf(s, n)) + i \in 1..Len(s)
<1>1. Len(s) \in Nat
  OBVIOUS
<1>2. CASE Len(s) > n
  <2> DEFINE m == Len(s) - n + 1
             t == SubSeq(s, m, Len(s))
  <2>1. m \in Int /\ Len(s) - m + 1 = n /\ m >= 1 /\ \A i \in m..Len(s) : s[i] \in X
    BY <1>1, <1>2
  <2>2. (m <= Len(s) <=> n > 0) /\ Len(s) \in Int
    BY <1>1
  <2> HIDE DEF m
  <2>3. /\ t \in Seq(X) /\ Len(t) = IF m <= Len(s) THEN Len(s) - m + 1 ELSE 0
        /\ \A i \in 1..(Len(s) - m + 1) : t[i] = s[m + i - 1]
    BY <2>1, <2>2, SubSeqProperties
  <2>4. LastOf(s, n) = t
    BY <1>2 DEF LastOf, m
  <2> HIDE DEF t
  <2>5. Len(t) = n
    BY <2>1, <2>2, <2>3
  <2>6. ASSUME NEW i \in 1..Len(t)
        PROVE  t[i] = s[Len(s) - Len(t) + i] /\ Len(s) - Len(t) + i \in 1..Len(s)
    <3>1. m + i - 1 = Len(s) - n + i
      BY <1>1, <2>5 DEF m
    <3> QED BY <1>1, <1>2, <2>1, <2>3, <2>5, <3>1
  <2> QED BY <1>2, <2>3, <2>4, <2>5, <2>6
<1>3. CASE ~(Len(s) > n)
  <2>1. LastOf(s, n) = s
    BY <1>3 DEF LastOf
  <2>2. \A i \in 1..Len(s) : Len(s) - Len(s) + i = i
    BY <1>1
  <2> QED BY <1>3, <2>1, <2>2
<1> QED BY <1>2, <1>3

\* They are in their order, and what is cut off stands before all of them.
LEMMA LastOfKept ==
  ASSUME NEW X, NEW s \in Seq(X), NEW n \in Nat
  PROVE  /\ ToSet(LastOf(s, n)) \subseteq ToSet(s)
         /\ \A R : Along(s, R) =>
              /\ Along(LastOf(s, n), R)
              /\ \A x \in ToSet(s) \ ToSet(LastOf(s, n)) :
                   /\ Len(LastOf(s, n)) = n
                   /\ \A y \in ToSet(LastOf(s, n)) : <<x, y>> \in R
<1> DEFINE t == LastOf(s, n)
           d == Len(s) - Len(t)
<1>1. /\ t \in Seq(X) /\ Len(t) = (IF Len(s) > n THEN n ELSE Len(s))
      /\ \A i \in 1..Len(t) : t[i] = s[d + i] /\ d + i \in 1..Len(s)
  BY LastOfAt
<1> HIDE DEF t
<1>2. /\ Len(s) \in Nat /\ Len(t) \in Nat /\ d \in Nat
      /\ DOMAIN s = 1..Len(s) /\ DOMAIN t = 1..Len(t)
  BY <1>1
<1>3. ToSet(t) \subseteq ToSet(s)
  BY <1>1, <1>2 DEF ToSet
<1>4. ASSUME NEW R, Along(s, R) PROVE Along(t, R)
  <2> SUFFICES ASSUME NEW i \in 1..Len(t), NEW j \in 1..Len(t), i < j PROVE <<t[i], t[j]>> \in R
    BY <1>2 DEF Along
  <2>1. d + i < d + j
    BY <1>2
  <2> HIDE DEF d
  <2> QED BY <1>1, <1>2, <1>4, <2>1 DEF Along
<1>5. ASSUME NEW R, Along(s, R), NEW x \in ToSet(s) \ ToSet(t)
      PROVE  Len(t) = n /\ \A y \in ToSet(t) : <<x, y>> \in R
  <2>1. PICK k \in 1..Len(s) : x = s[k]
    BY <1>2 DEF ToSet
  <2>2. k <= d
    <3> SUFFICES ASSUME k > d PROVE FALSE
      BY <1>2
    <3>1. k - d \in 1..Len(t) /\ d + (k - d) = k
      BY <1>2
    <3>2. t[k - d] = x
      BY <1>1, <2>1, <3>1
    <3> QED BY <1>2, <3>1, <3>2 DEF ToSet
  <2>3. Len(t) = n
    <3>1. k \in Nat /\ k >= 1 /\ k <= Len(s) - Len(t)
      BY <1>2, <2>2
    <3>2. Len(s) > Len(t)
      BY ONLY <1>2, <3>1
    <3> QED BY <1>1, <3>2
  <2>4. ASSUME NEW y \in ToSet(t) PROVE <<x, y>> \in R
    <3>1. PICK i \in 1..Len(t) : y = t[i]
      BY <1>2 DEF ToSet
    <3>2. k < d + i
      BY <1>2, <2>2
    <3> HIDE DEF d
    <3> QED BY <1>1, <1>2, <1>5, <2>1, <3>1, <3>2 DEF Along
  <2> QED BY <2>3, <2>4
<1> QED BY <1>3, <1>4, <1>5 DEF t

\* Two sequences, one after the other.
LEMMA CatElements ==
  ASSUME NEW X, NEW a \in Seq(X), NEW b \in Seq(X)
  PROVE  /\ a \o b \in Seq(X)
         /\ ToSet(a \o b) = ToSet(a) \cup ToSet(b)
         /\ \A R : (/\ Along(a, R) /\ Along(b, R)
                    /\ \A x \in ToSet(a), y \in ToSet(b) : <<x, y>> \in R) => Along(a \o b, R)
<1> DEFINE c == a \o b
<1>1. /\ c \in Seq(X) /\ Len(c) = Len(a) + Len(b) /\ Len(a) \in Nat /\ Len(b) \in Nat
      /\ \A i \in 1..(Len(a) + Len(b)) : c[i] = IF i <= Len(a) THEN a[i] ELSE b[i - Len(a)]
  BY ConcatProperties
<1> HIDE DEF c
<1>2. DOMAIN a = 1..Len(a) /\ DOMAIN b = 1..Len(b) /\ DOMAIN c = 1..Len(c)
  BY <1>1
<1>3. /\ \A i \in DOMAIN a : i \in DOMAIN c /\ c[i] = a[i]
      /\ \A i \in DOMAIN b : Len(a) + i \in DOMAIN c /\ c[Len(a) + i] = b[i]
  BY <1>1, <1>2
<1>4. \A k \in DOMAIN c : k \in DOMAIN a \/ \E i \in DOMAIN b : k = Len(a) + i
  <2> SUFFICES ASSUME NEW k \in DOMAIN c, k \notin DOMAIN a
               PROVE  \E i \in DOMAIN b : k = Len(a) + i
    OBVIOUS
  <2>1. k - Len(a) \in DOMAIN b /\ k = Len(a) + (k - Len(a))
    BY <1>1, <1>2
  <2> QED BY <2>1
<1>5. ToSet(c) = ToSet(a) \cup ToSet(b)
  BY <1>3, <1>4 DEF ToSet
<1>6. ASSUME NEW R, Along(a, R), Along(b, R),
             \A x \in ToSet(a), y \in ToSet(b) : <<x, y>> \in R
      PROVE  Along(c, R)
  <2> SUFFICES ASSUME NEW i \in DOMAIN c, NEW j \in DOMAIN c, i < j PROVE <<c[i], c[j]>> \in R
    BY DEF Along
  <2>1. CASE j \in DOMAIN a
    <3>1. i \in DOMAIN a
      BY <1>1, <1>2, <2>1
    <3> QED BY <1>3, <1>6, <2>1, <3>1 DEF Along
  <2>2. ASSUME NEW l \in DOMAIN b, j = Len(a) + l PROVE <<c[i], c[j]>> \in R
    <3>1. CASE i \in DOMAIN a
      <4>1. c[i] \in ToSet(a) /\ c[j] \in ToSet(b)
        BY <1>3, <2>2, <3>1 DEF ToSet
      <4> QED BY <1>6, <4>1
    <3>2. ASSUME NEW k \in DOMAIN b, i = Len(a) + k PROVE <<c[i], c[j]>> \in R
      <4>1. k < l
        BY <1>1, <1>2, <2>2, <3>2
      <4>2. c[i] = b[k] /\ c[j] = b[l]
        BY <1>3, <2>2, <3>2
      <4> QED BY <1>6, <4>1, <4>2 DEF Along
    <3> QED BY <1>4, <3>1, <3>2
  <2> QED BY <1>4, <2>1, <2>2
<1> QED BY <1>1, <1>5, <1>6 DEF c

\* The last n of two sequences.
LEMMA LastOfCat ==
  ASSUME NEW X, NEW a \in Seq(X), NEW b \in Seq(X), NEW n \in Nat
  PROVE  LastOf(a \o b, n) =
           IF Len(b) >= n THEN LastOf(b, n) ELSE LastOf(a, n - Len(b)) \o b
<1> DEFINE c == a \o b
           u == LastOf(c, n)
<1>1. /\ c \in Seq(X) /\ Len(c) = Len(a) + Len(b) /\ Len(a) \in Nat /\ Len(b) \in Nat
      /\ \A i \in 1..(Len(a) + Len(b)) : c[i] = IF i <= Len(a) THEN a[i] ELSE b[i - Len(a)]
  BY ConcatProperties
<1> HIDE DEF c
<1>2. /\ u \in Seq(X) /\ Len(u) = (IF Len(c) > n THEN n ELSE Len(c))
      /\ \A i \in 1..Len(u) : u[i] = c[Len(c) - Len(u) + i]
  BY <1>1, LastOfAt
<1> HIDE DEF u
<1>3. CASE Len(b) >= n
  <2> DEFINE v == LastOf(b, n)
  <2>1. /\ v \in Seq(X) /\ Len(v) = (IF Len(b) > n THEN n ELSE Len(b))
        /\ \A i \in 1..Len(v) : v[i] = b[Len(b) - Len(v) + i]
    BY LastOfAt
  <2> HIDE DEF v
  <2>2. Len(u) = n /\ Len(v) = n
    BY <1>1, <1>2, <1>3, <2>1
  <2>3. ASSUME NEW i \in 1..Len(u) PROVE u[i] = v[i]
    <3>1. /\ Len(c) - n + i \in 1..(Len(a) + Len(b)) /\ ~(Len(c) - n + i <= Len(a))
          /\ (Len(c) - n + i) - Len(a) = Len(b) - n + i
      BY <1>1, <1>3, <2>2
    <3>2. u[i] = c[Len(c) - n + i] /\ v[i] = b[Len(b) - n + i]
      BY <1>2, <2>1, <2>2
    <3> QED BY <1>1, <3>1, <3>2
  <2>4. u = v
    BY <1>2, <2>1, <2>2, <2>3, SeqEqual
  <2> QED BY <1>3, <2>4 DEF u, v, c
<1>4. CASE ~(Len(b) >= n)
  <2> DEFINE m == n - Len(b)
             w == LastOf(a, m)
             v == w \o b
  <2>1. m \in Nat
    BY <1>1, <1>4
  <2>2. /\ w \in Seq(X) /\ Len(w) = (IF Len(a) > m THEN m ELSE Len(a))
        /\ \A i \in 1..Len(w) : w[i] = a[Len(a) - Len(w) + i]
    BY <2>1, LastOfAt
  <2> HIDE DEF w
  <2>3. /\ v \in Seq(X) /\ Len(v) = Len(w) + Len(b) /\ Len(w) \in Nat
        /\ \A i \in 1..(Len(w) + Len(b)) : v[i] = IF i <= Len(w) THEN w[i] ELSE b[i - Len(w)]
    <3>1. w \in Seq(X) /\ Len(w) \in Nat
      BY <2>2
    <3> QED BY <3>1, ConcatProperties
  <2> HIDE DEF v
  <2>4. Len(u) = Len(v) /\ Len(c) - Len(u) = Len(a) - Len(w) /\ Len(w) <= Len(a)
    <3>1. Len(u) = (IF Len(c) > n THEN n ELSE Len(c)) /\ Len(c) = Len(a) + Len(b)
      BY <1>1, <1>2
    <3>2. Len(w) = (IF Len(a) > n - Len(b) THEN n - Len(b) ELSE Len(a)) /\ Len(v) = Len(w) + Len(b)
      BY <2>2, <2>3
    <3>3. PICK la \in Nat, lb \in Nat : la = Len(a) /\ lb = Len(b)
      BY <1>1
    <3>4. PICK lu \in Nat, lv \in Nat, lw \in Nat, lc \in Nat :
            lu = Len(u) /\ lv = Len(v) /\ lw = Len(w) /\ lc = Len(c)
      BY <1>1, <1>2, <2>2, <2>3
    <3>5. /\ lu = (IF lc > n THEN n ELSE lc) /\ lc = la + lb /\ lb < n
          /\ lw = (IF la > n - lb THEN n - lb ELSE la) /\ lv = lw + lb
      BY <1>4, <3>1, <3>2, <3>3, <3>4
    <3>6. lu = lv /\ lc - lu = la - lw /\ lw <= la
      BY ONLY n \in Nat, la \in Nat, lb \in Nat, lu \in Nat, lv \in Nat, lw \in Nat,
              lc \in Nat, <3>5
    <3> QED BY ONLY <3>3, <3>4, <3>6
  <2>5. ASSUME NEW i \in 1..Len(u) PROVE u[i] = v[i]
    <3>1. u[i] = c[Len(a) - Len(w) + i] /\ i \in 1..(Len(w) + Len(b))
      BY <1>2, <2>3, <2>4
    <3>2. Len(a) - Len(w) + i \in 1..(Len(a) + Len(b))
      BY <1>1, <2>3, <2>4, <3>1
    <3>3. CASE i <= Len(w)
      <4>1. Len(a) - Len(w) + i <= Len(a) /\ i \in 1..Len(w)
        BY <1>1, <2>3, <2>4, <3>1, <3>3
      <4> QED BY <1>1, <2>2, <2>3, <3>1, <3>2, <3>3, <4>1
    <3>4. CASE ~(i <= Len(w))
      <4>1. /\ ~(Len(a) - Len(w) + i <= Len(a))
            /\ (Len(a) - Len(w) + i) - Len(a) = i - Len(w)
        BY <1>1, <2>3, <2>4, <3>1, <3>4
      <4> QED BY <1>1, <2>3, <3>1, <3>2, <3>4, <4>1
    <3> QED BY <3>3, <3>4
  <2>6. u = v
    BY <1>2, <2>3, <2>4, <2>5, SeqEqual
  <2> QED BY <1>4, <2>6 DEF u, v, c, w
<1> QED BY <1>3, <1>4

--------------------------------------------------------------------------------
(* A quiet table *)

Entry == [index : Nat, time : Nat, type : {"wire", "plaintext", "other"}, match : BOOLEAN]

TypeOK ==
  /\ capture \in Captures
  /\ lastFlows \in Seq(Entry) /\ lastWirePackets \in Seq(Entry)
  /\ lastPlaintextFlows \in Seq(Entry)
  /\ flowIndex \in Nat /\ appending \in Entry \cup {None}
  /\ accepted \subseteq Entry
  /\ heartbeat \in {"idle", "snapshot", "returned"}
  /\ snapshot \in Seq(Entry) /\ seen \in Nat /\ table \in Seq(Entry)
  /\ paused \in BOOLEAN /\ showCount \in Nat /\ regexes \in Nat

\* Only the elements count.
LEMMA ThoseSame ==
  ASSUME NEW X, NEW s \in Seq(X), NEW K, NEW L, \A x \in ToSet(s) : x \in K <=> x \in L
  PROVE  Those(s, K) = Those(s, L)
<1>1. PICK e \in Seq(X) : e = <<>> /\ ToSet(e) = {}
  BY EmptySeq, NoElements
<1>2. Those(s \o e, K) = Those(s, L) \o Those(e, L)
  <2>1. \A x \in ToSet(e) : x \in K <=> x \in L
    BY <1>1
  <2> QED BY <2>1, ThoseCat
<1>3. Those(e, L) = e
  BY <1>1, ThoseNone
<1>4. Those(s, L) \in Seq(X) /\ s \o <<>> = s
  BY ThoseKept, ConcatEmptySeq
<1>5. Those(s, L) \o <<>> = Those(s, L)
  BY <1>4, ConcatEmptySeq
<1> QED BY <1>1, <1>2, <1>3, <1>4, <1>5

\* The rows that the filters let through.
Wanted == IF regexes > 0 THEN {r \in Entry : r.match} ELSE Entry

\* The filters are a loop that keeps those.
LEMMA MatchingThose ==
  ASSUME NEW s \in Seq(Entry)
  PROVE  Matching(s) = Those(s, Wanted)
<1>1. \A x \in ToSet(s) : x \in Entry
  BY DEF ToSet
<1>2. CASE regexes > 0
  <2>1. \A x \in ToSet(s) : x \in {r \in ToSet(s) : r.match} <=> x \in Wanted
    BY <1>1, <1>2 DEF Wanted
  <2> QED BY <1>2, <2>1, ThoseSame DEF Matching
<1>3. CASE ~(regexes > 0)
  <2>1. Wanted = Entry
    BY <1>3 DEF Wanted
  <2> QED BY <1>1, <1>3, <2>1, ThoseAll DEF Matching
<1> QED BY <1>2, <1>3

\* A second refresh of a table of flows changes nothing.
LEMMA RefreshTwice ==
  ASSUME capture = "flow", showCount \in Nat, NEW lf \in Seq(Entry), NEW rows \in Seq(Entry)
  PROVE  Rows(lf, Rows(lf, rows)) = Rows(lf, rows)
<1> DEFINE Out == Entry \ ToSet(lf)
           n == showCount
           b == Those(lf, Wanted)
           a == Those(Those(rows, Out), Wanted)
           shown == Rows(lf, rows)
<1>0. ASSUME NEW s \in Seq(Entry) PROVE ToSet(s) \subseteq Entry
  BY DEF ToSet
<1>1. ASSUME NEW r \in Seq(Entry)
      PROVE  /\ Those(r, Out) \in Seq(Entry)
             /\ Rows(lf, r) = LastOf(Those(Those(r, Out), Wanted) \o b, n)
  <2> DEFINE w == Those(r, Out)
  <2>1. w = Those(r, ToSet(r) \ ToSet(lf))
    <3>1. \A x \in ToSet(r) : x \in Out <=> x \in ToSet(r) \ ToSet(lf)
      BY <1>0
    <3> HIDE DEF Out
    <3> QED BY <3>1, ThoseSame
  <2>2. w \in Seq(Entry)
    BY ThoseKept
  <2> HIDE DEF w
  <2>3. WithMissing(lf, r) = w \o lf /\ w \o lf \in Seq(Entry)
    BY <2>1, <2>2, CatElements DEF WithMissing
  <2>4. Matching(w \o lf) = Those(w \o lf, Wanted)
    BY <2>3, MatchingThose
  <2>5. Those(w \o lf, Wanted) = Those(w, Wanted) \o b
    BY <2>2, ThoseCat
  <2>6. Rows(lf, r) = LastOf(Matching(w \o lf), n)
    BY <2>3 DEF Rows, Trimmed
  <2> QED BY <2>2, <2>4, <2>5, <2>6 DEF w
<1>2. /\ a \in Seq(Entry) /\ ToSet(a) \subseteq Out /\ ToSet(a) \subseteq Wanted
      /\ b \in Seq(Entry) /\ ToSet(b) \subseteq ToSet(lf) /\ ToSet(b) \subseteq Wanted
  <2>1. Those(rows, Out) \in Seq(Entry) /\ ToSet(Those(rows, Out)) \subseteq Out
    BY ThoseKept
  <2> HIDE DEF Out
  <2>2. a \in Seq(Entry) /\ ToSet(a) = ToSet(Those(rows, Out)) \cap Wanted
    BY <2>1, ThoseKept
  <2>3. b \in Seq(Entry) /\ ToSet(b) = ToSet(lf) \cap Wanted
    BY ThoseKept
  <2> QED BY <2>1, <2>2, <2>3
<1>3. shown = LastOf(a \o b, n)
  BY <1>1
<1>4. Len(b) \in Nat /\ n \in Nat
  BY <1>2
<1> HIDE DEF a, b, shown, n
<1>5. CASE Len(b) >= n
  <2>1. shown = LastOf(b, n)
    BY <1>2, <1>3, <1>4, <1>5, LastOfCat
  <2>2. shown \in Seq(Entry) /\ ToSet(shown) \cap Out = {}
    BY <1>2, <1>4, <2>1, LastOfAt, LastOfKept
  <2>3. Those(shown, Out) = <<>>
    BY <2>2, ThoseNone
  <2>4. Those(<<>>, Wanted) = <<>>
    <3>1. PICK e \in Seq(Entry) : e = <<>> /\ ToSet(e) = {}
      BY EmptySeq, NoElements
    <3>2. Those(e, Wanted) = <<>>
      BY <3>1, ThoseNone
    <3> QED BY <3>1, <3>2
  <2>5. Rows(lf, shown) = LastOf(<<>> \o b, n)
    BY <1>1, <2>2, <2>3, <2>4
  <2>6. <<>> \o b = b
    BY <1>2, ConcatEmptySeq
  <2> QED BY <2>1, <2>5, <2>6 DEF shown
<1>6. CASE ~(Len(b) >= n)
  <2> DEFINE m == n - Len(b)
             c == LastOf(a, m)
  <2>1. m \in Nat
    BY <1>4, <1>6
  <2> HIDE DEF m
  <2>2. /\ c \in Seq(Entry) /\ Len(c) <= m
        /\ ToSet(c) \subseteq Out /\ ToSet(c) \subseteq Wanted
    <3>1. c \in Seq(Entry) /\ Len(c) = (IF Len(a) > m THEN m ELSE Len(a))
      BY <1>2, <2>1, LastOfAt
    <3>2. ToSet(c) \subseteq ToSet(a)
      BY <1>2, <2>1, LastOfKept
    <3>3. Len(a) \in Nat
      BY <1>2
    <3> QED BY <1>2, <2>1, <3>1, <3>2, <3>3
  <2>3. shown = c \o b
    BY <1>2, <1>3, <1>4, <1>6, LastOfCat DEF m
  <2> HIDE DEF c
  <2>4. Those(c \o b, Out) = Those(c, Out) \o Those(b, Out)
    <3> HIDE DEF Out
    <3> QED BY <1>2, <2>2, ThoseCat
  <2>5. Those(c, Out) = c /\ Those(b, Out) = <<>>
    <3>1. ToSet(b) \cap Out = {}
      BY <1>2
    <3> QED BY <1>2, <2>2, <3>1, ThoseAll, ThoseNone
  <2>6. Those(shown, Out) = c
    BY <2>2, <2>3, <2>4, <2>5, ConcatEmptySeq
  <2>7. shown \in Seq(Entry)
    BY <1>2, <2>2, <2>3, CatElements
  <2>8. Those(c, Wanted) = c
    BY <2>2, ThoseAll
  <2>9. Rows(lf, shown) = LastOf(c \o b, n)
    BY <1>1, <2>6, <2>7, <2>8
  <2>10. LastOf(c \o b, n) = LastOf(c, n - Len(b)) \o b
    BY <1>2, <1>4, <1>6, <2>2, LastOfCat
  <2>11. LastOf(c, n - Len(b)) = c
    <3>1. Len(c) \in Nat /\ ~(Len(c) > m)
      BY <2>1, <2>2
    <3> QED BY <3>1 DEF LastOf, m
  <2> QED BY <2>3, <2>9, <2>10, <2>11 DEF shown
<1> QED BY <1>4, <1>5, <1>6

--------------------------------------------------------------------------------
(* Sorting *)

\* A sequence of a set has each of its elements once.
LEMMA SeqOfSet ==
  ASSUME NEW S, IsFiniteSet(S), NEW s \in SetToSeqs(S)
  PROVE  /\ s \in Seq(S) /\ Len(s) = Cardinality(S) /\ ToSet(s) = S
         /\ \A i, j \in DOMAIN s : i # j => s[i] # s[j]
<1> DEFINE n == Cardinality(S)
<1>1. n \in Nat
  BY FS_CardinalityType
<1>2. s \in [1..n -> S] /\ \A i, j \in 1..n : i # j => s[i] # s[j]
  BY DEF SetToSeqs
<1>3. s \in Injection(1..n, S)
  BY <1>2 DEF Injection, IsInjective
<1>4. IsFiniteSet(1..n) /\ Cardinality(1..n) = n
  BY <1>1, FS_Interval
<1>5. s \in Surjection(1..n, S)
  BY <1>3, <1>4, FS_Injection
<1> HIDE DEF n
<1>6. s \in Seq(S) /\ Len(s) = n /\ DOMAIN s = 1..n
  BY <1>1, <1>2
<1>7. ToSet(s) = S
  BY <1>2, <1>5, <1>6 DEF ToSet, Surjection
<1> QED BY <1>2, <1>6, <1>7 DEF n

\* A place for one more in a sequence in order: before the first that it stands before.
LEMMA Insert ==
  ASSUME NEW U, NEW n \in Nat, NEW x \in U, NEW t \in [1..n -> U \ {x}], NEW R,
         \A i, j \in 1..n : i # j => t[i] # t[j],
         \A i, j \in 1..n : i < j => <<t[i], t[j]>> \in R,
         \A a, b \in U : a = b \/ <<a, b>> \in R \/ <<b, a>> \in R,
         \A a, b, c \in U : <<a, b>> \in R /\ <<b, c>> \in R => <<a, c>> \in R
  PROVE  \E u \in [1..(n + 1) -> U] :
           /\ \A i, j \in 1..(n + 1) : i # j => u[i] # u[j]
           /\ \A i, j \in 1..(n + 1) : i < j => <<u[i], u[j]>> \in R
<1> DEFINE I == {i \in 1..n : <<x, t[i]>> \in R} \cup {n + 1}
<1>1. PICK k \in I : \A i \in I : k <= i
  <2>1. I \in SUBSET Nat /\ I # {}
    OBVIOUS
  <2> HIDE DEF I
  <2> QED BY <2>1, LeastNatural
<1> DEFINE u == [i \in 1..(n + 1) |-> IF i < k THEN t[i] ELSE IF i = k THEN x ELSE t[i - 1]]
<1>2. k \in 1..(n + 1)
  BY <1>1
<1>3. ASSUME NEW i \in 1..(n + 1)
      PROVE  \/ i < k /\ i \in 1..n /\ u[i] = t[i]
             \/ i = k /\ u[i] = x
             \/ i > k /\ i - 1 \in 1..n /\ i - 1 >= k /\ u[i] = t[i - 1]
  BY <1>2
<1>4. ASSUME NEW i \in 1..n PROVE t[i] \in U /\ t[i] # x
  OBVIOUS
<1>5. ASSUME NEW i \in 1..n, i < k PROVE <<t[i], x>> \in R
  <2>1. i \notin I
    BY <1>1, <1>2, <1>5
  <2>2. <<x, t[i]>> \notin R
    BY <2>1
  <2> QED BY <1>4, <2>2
<1>6. ASSUME NEW i \in 1..n, i >= k PROVE <<x, t[i]>> \in R
  <2>1. k \in 1..n /\ <<x, t[k]>> \in R
    BY <1>1, <1>2, <1>6
  <2>2. CASE i = k
    BY <2>1, <2>2
  <2>3. CASE i # k
    <3>1. k < i
      BY <1>2, <1>6, <2>3
    <3>2. <<t[k], t[i]>> \in R
      BY <2>1, <3>1
    <3> QED BY <1>4, <2>1, <3>2
  <2> QED BY <2>2, <2>3
<1>7. u \in [1..(n + 1) -> U]
  <2>1. \A i \in 1..(n + 1) : u[i] \in U
    <3> HIDE DEF u
    <3> QED BY <1>3, <1>4
  <2> QED BY <2>1
<1> HIDE DEF u, I
<1>8. ASSUME NEW i \in 1..(n + 1), NEW j \in 1..(n + 1), i < j
      PROVE  u[i] # u[j] /\ <<u[i], u[j]>> \in R
  <2>1. CASE i < k /\ j < k
    <3>1. i \in 1..n /\ j \in 1..n /\ u[i] = t[i] /\ u[j] = t[j] /\ i # j
      BY <1>2, <1>3, <1>8, <2>1
    <3> QED BY <1>8, <3>1
  <2>2. CASE i < k /\ j = k
    <3>1. i \in 1..n /\ u[i] = t[i] /\ u[j] = x
      BY <1>2, <1>3, <2>2
    <3> QED BY <1>4, <1>5, <2>2, <3>1
  <2>3. CASE i < k /\ j > k
    <3>1. i \in 1..n /\ j - 1 \in 1..n /\ u[i] = t[i] /\ u[j] = t[j - 1] /\ i < j - 1
      BY <1>2, <1>3, <2>3
    <3> QED BY <3>1
  <2>4. CASE i = k /\ j > k
    <3>1. j - 1 \in 1..n /\ j - 1 >= k /\ u[i] = x /\ u[j] = t[j - 1]
      BY <1>2, <1>3, <2>4
    <3> QED BY <1>4, <1>6, <3>1
  <2>5. CASE i > k /\ j > k
    <3>1. /\ i - 1 \in 1..n /\ j - 1 \in 1..n /\ i - 1 < j - 1
          /\ u[i] = t[i - 1] /\ u[j] = t[j - 1]
      BY <1>2, <1>3, <1>8, <2>5
    <3> QED BY <3>1
  <2> QED BY <1>2, <1>8, <2>1, <2>2, <2>3, <2>4, <2>5
<1>9. \A i, j \in 1..(n + 1) : i # j => u[i] # u[j]
  <2> SUFFICES ASSUME NEW i \in 1..(n + 1), NEW j \in 1..(n + 1), i # j PROVE u[i] # u[j]
    OBVIOUS
  <2>1. i < j \/ j < i
    OBVIOUS
  <2> QED BY <1>8, <2>1
<1> QED BY <1>7, <1>8, <1>9

\* A finite set can be put in a total order.
LEMMA CanSort ==
  ASSUME NEW S, IsFiniteSet(S), NEW R,
         \A a, b \in S : a = b \/ <<a, b>> \in R \/ <<b, a>> \in R,
         \A a, b, c \in S : <<a, b>> \in R /\ <<b, c>> \in R => <<a, c>> \in R
  PROVE  \E s \in SetToSeqs(S) : Along(s, R)
<1> DEFINE T == {n \in Nat : \A U \in SUBSET S : Cardinality(U) = n =>
                   \E s \in [1..n -> U] :
                     /\ \A i, j \in 1..n : i # j => s[i] # s[j]
                     /\ \A i, j \in 1..n : i < j => <<s[i], s[j]>> \in R}
           m == Cardinality(S)
<1>1. m \in Nat
  BY FS_CardinalityType
<1>2. \A U \in SUBSET S : IsFiniteSet(U)
  BY FS_Subset
<1>3. 0 \in T
  <2> SUFFICES ASSUME NEW U \in SUBSET S
               PROVE  \E s \in [1..0 -> U] :
                        /\ \A i, j \in 1..0 : i # j => s[i] # s[j]
                        /\ \A i, j \in 1..0 : i < j => <<s[i], s[j]>> \in R
    OBVIOUS
  <2>1. \A i \in 1..0 : FALSE
    OBVIOUS
  <2>2. PICK s : s = [i \in 1..0 |-> i]
    OBVIOUS
  <2>3. s \in [1..0 -> U]
    BY <2>1, <2>2
  <2> QED BY <2>1, <2>3
<1>4. ASSUME NEW n \in 0..(m - 1), n \in T PROVE n + 1 \in T
  <2>1. n \in Nat /\ n + 1 \in Nat
    BY <1>1
  <2> SUFFICES ASSUME NEW U \in SUBSET S, Cardinality(U) = n + 1
               PROVE  \E s \in [1..(n + 1) -> U] :
                        /\ \A i, j \in 1..(n + 1) : i # j => s[i] # s[j]
                        /\ \A i, j \in 1..(n + 1) : i < j => <<s[i], s[j]>> \in R
    BY <2>1
  <2>2. U # {}
    <3>1. n + 1 # 0
      BY <2>1
    <3>2. Cardinality({}) = 0
      BY FS_EmptySet
    <3> HIDE DEF T, m
    <3> QED BY <3>1, <3>2
  <2>3. PICK x \in U : TRUE
    BY <2>2
  <2>4. U \ {x} \in SUBSET S /\ Cardinality(U \ {x}) = n
    <3>1. Cardinality(U \ {x}) = Cardinality(U) - 1
      BY <1>2, FS_RemoveElement
    <3> QED BY <2>1, <3>1
  <2>5. PICK t \in [1..n -> U \ {x}] :
          /\ \A i, j \in 1..n : i # j => t[i] # t[j]
          /\ \A i, j \in 1..n : i < j => <<t[i], t[j]>> \in R
    BY <1>4, <2>4
  <2>6. /\ \A a, b \in U : a = b \/ <<a, b>> \in R \/ <<b, a>> \in R
        /\ \A a, b, c \in U : <<a, b>> \in R /\ <<b, c>> \in R => <<a, c>> \in R
    OBVIOUS
  <2> HIDE DEF T, m
  <2> QED BY <2>1, <2>3, <2>5, <2>6, Insert
<1>5. m \in T
  <2> HIDE DEF T
  <2>1. \A n \in 0..m : n \in T
    BY <1>1, <1>3, <1>4, InductionUpTo
  <2> QED BY <1>1, <2>1
<1>6. PICK s \in [1..m -> S] :
        /\ \A i, j \in 1..m : i # j => s[i] # s[j]
        /\ \A i, j \in 1..m : i < j => <<s[i], s[j]>> \in R
  BY <1>5
<1>7. s \in SetToSeqs(S)
  BY <1>6 DEF SetToSeqs
<1>8. Along(s, R)
  <2>1. DOMAIN s = 1..m
    OBVIOUS
  <2> HIDE DEF m, T
  <2> QED BY <1>6, <2>1 DEF Along
<1> QED BY <1>7, <1>8

--------------------------------------------------------------------------------
(* Rows in order *)

\* The order of the rows: by time, and by index too for packets; no row comes twice.
RowOrder ==
  {p \in Entry \X Entry :
     p[1] # p[2] /\ IF capture = "flow" THEN p[1].time <= p[2].time ELSE Before(p[1], p[2])}

\* A set of records as accepted holds them: one of each index.
RecordSet(S) ==
  IsFiniteSet(S) /\ S \subseteq Entry /\ \A a, b \in S : a.index = b.index => a = b

\* Two records of such a set have an order, and the order passes on.
LEMMA RowsOrdered ==
  ASSUME NEW S, RecordSet(S)
  PROVE  /\ \A a, b \in S : a = b \/ <<a, b>> \in RowOrder \/ <<b, a>> \in RowOrder
         /\ capture # "flow" => \A a, b, c \in S :
              <<a, b>> \in RowOrder /\ <<b, c>> \in RowOrder => <<a, c>> \in RowOrder
         /\ \A a, b \in S :
              <<a, b>> \in RowOrder <=>
                a # b /\ IF capture = "flow" THEN a.time <= b.time ELSE Before(a, b)
<1>1. \A a \in S : a \in Entry /\ a.index \in Nat /\ a.time \in Nat
  BY DEF RecordSet, Entry
<1>2. \A a, b \in S : <<a, b>> \in RowOrder <=>
        a # b /\ IF capture = "flow" THEN a.time <= b.time ELSE Before(a, b)
  BY <1>1 DEF RowOrder
<1>3. ASSUME NEW a \in S, NEW b \in S, a # b
      PROVE  <<a, b>> \in RowOrder \/ <<b, a>> \in RowOrder
  <2>1. a.index # b.index
    BY <1>3 DEF RecordSet
  <2> QED BY <1>1, <1>2, <1>3, <2>1 DEF Before
<1>4. ASSUME capture # "flow", NEW a \in S, NEW b \in S, NEW c \in S,
             <<a, b>> \in RowOrder, <<b, c>> \in RowOrder
      PROVE  <<a, c>> \in RowOrder
  <2>1. Before(a, b) /\ Before(b, c)
    BY <1>2, <1>4
  <2>2. Before(a, c) /\ a # c
    BY <1>1, <2>1 DEF Before
  <2> QED BY <1>2, <1>4, <2>2
<1> QED BY <1>2, <1>3, <1>4

\* Sorting gives a sequence of the set, in the order of the rows.
LEMMA SortedRows ==
  ASSUME NEW S, RecordSet(S), NEW s \in Sorted(S)
  PROVE  /\ s \in Seq(S) /\ Len(s) = Cardinality(S) /\ ToSet(s) = S
         /\ Along(s, RowOrder)
<1>1. IsFiniteSet(S)
  BY DEF RecordSet
<1>2. ASSUME NEW t \in SetToSeqs(S)
      PROVE  /\ \A i, j \in DOMAIN t : i < j => t[i] \in S /\ t[j] \in S /\ t[i] # t[j]
             /\ t \in Seq(S) /\ Len(t) = Cardinality(S) /\ ToSet(t) = S
  <2>1. /\ t \in Seq(S) /\ Len(t) = Cardinality(S) /\ ToSet(t) = S
        /\ \A i, j \in DOMAIN t : i # j => t[i] # t[j]
    BY <1>1, SeqOfSet
  <2>2. \A i \in DOMAIN t : i \in Nat /\ t[i] \in S
    BY <2>1
  <2> QED BY <2>1, <2>2
<1>3. CASE capture = "flow"
  <2>1. s \in SetToSeqs(S) /\ InTimeOrder(s)
    BY <1>3 DEF Sorted
  <2>2. Along(s, RowOrder)
    BY <1>2, <1>3, <2>1, RowsOrdered DEF Along, InTimeOrder
  <2> QED BY <1>2, <2>1, <2>2
<1>4. CASE capture # "flow"
  <2>1. PICK t \in SetToSeqs(S) : Along(t, RowOrder)
    BY <1>1, <1>4, RowsOrdered, CanSort
  <2>2. InOrder(t)
    BY <1>2, <1>4, <2>1, RowsOrdered DEF Along, InOrder
  <2>3. s \in SetToSeqs(S) /\ InOrder(s)
    BY <1>4, <2>1, <2>2 DEF Sorted, SortPacketFlows
  <2>4. Along(s, RowOrder)
    BY <1>2, <1>4, <2>3, RowsOrdered DEF Along, InOrder
  <2> QED BY <1>2, <2>3, <2>4
<1> QED BY <1>3, <1>4

\* Rows in order are as many as their records.
LEMMA DistinctRows ==
  ASSUME NEW X, NEW s \in Seq(X), Along(s, RowOrder)
  PROVE  IsFiniteSet(ToSet(s)) /\ Cardinality(ToSet(s)) = Len(s)
<1>1. /\ Len(s) \in Nat /\ DOMAIN s = 1..Len(s)
      /\ s \in [1..Len(s) -> ToSet(s)] /\ \A y \in ToSet(s) : \E i \in 1..Len(s) : s[i] = y
  BY DEF ToSet
<1>2. ASSUME NEW i \in 1..Len(s), NEW j \in 1..Len(s), i < j PROVE s[i] # s[j]
  <2>1. <<s[i], s[j]>> \in RowOrder
    BY <1>1, <1>2 DEF Along
  <2> QED BY <2>1 DEF RowOrder
<1>3. \A i, j \in 1..Len(s) : s[i] = s[j] => i = j
  <2> SUFFICES ASSUME NEW i \in 1..Len(s), NEW j \in 1..Len(s), s[i] = s[j], i # j PROVE FALSE
    OBVIOUS
  <2>1. i < j \/ j < i
    OBVIOUS
  <2> QED BY <1>2, <2>1
<1>4. s \in Surjection(1..Len(s), ToSet(s)) /\ s \in Injection(1..Len(s), ToSet(s))
  BY <1>1, <1>3 DEF Surjection, Injection, IsInjective
<1>5. IsFiniteSet(1..Len(s)) /\ Cardinality(1..Len(s)) = Len(s)
  <2>1. PICK n \in Nat : n = Len(s)
    BY <1>1
  <2>2. IsFiniteSet(1..n) /\ Cardinality(1..n) = n
    BY FS_Interval
  <2> QED BY <2>1, <2>2
<1> QED BY <1>4, <1>5, FS_Surjection

--------------------------------------------------------------------------------
(* The inductive invariant *)

\* The records of S that each buffer holds.
Plaintexts(S) == {r \in S : capture = "tls" /\ r.type = "plaintext"}
Wires(S) == {r \in S : capture = "tls" /\ r.type = "wire"}
Others(S) == {r \in S : capture = "tls" => r.type = "other"}

\* The buffer has the last records of S, as many as it keeps.
Latest(buf, keep, S) ==
  /\ ToSet(buf) \subseteq S
  /\ Along(buf, RowOrder)
  /\ \A r \in S \ ToSet(buf) :
       Len(buf) = keep /\ \A x \in ToSet(buf) : <<r, x>> \in RowOrder

Buffered ==
  /\ Latest(lastFlows, KeepCount, Others(accepted))
  /\ Latest(lastWirePackets, WirePacketKeepCount, Wires(accepted))
  /\ Latest(lastPlaintextFlows, PlaintextKeepCount, Plaintexts(accepted))

\* Each record has an index of its own.
Numbered ==
  /\ RecordSet(accepted)
  /\ \A r \in accepted : r.index < flowIndex
  /\ appending # None =>
       appending.index < flowIndex /\ \A r \in accepted : r.index # appending.index

\* Rows of the accepted records that are shown, in order.
Shown(rows) ==
  /\ \A r \in ToSet(rows) : r \in accepted /\ Visible(r)
  /\ Along(rows, RowOrder)

\* A copy of the buffers, until the table is made of it: a row of a flow that is not in
\* it comes before it, and a record of its time is in it or as many as are kept are as late.
Copied ==
  /\ Shown(snapshot)
  /\ capture = "flow" => \A r \in ToSet(table) \ ToSet(snapshot) :
       \A x \in ToSet(snapshot) : <<r, x>> \in RowOrder
  /\ appending # None => appending.index >= seen
  /\ \A r \in accepted : r.index < seen /\ Visible(r) =>
       r \in ToSet(snapshot) \/ Cardinality(NotBefore(r, ToSet(snapshot))) >= Kept(r)

Inv ==
  /\ TypeOK /\ Numbered /\ Buffered /\ Shown(table)
  /\ heartbeat = "snapshot" => Copied
  /\ seen <= flowIndex

\* A record after which nothing was dropped, or that stands after what was: appended to
\* the buffer of the last records, it leaves the last records.
LEMMA AppendLatest ==
  ASSUME NEW S, NEW y, y \notin S, RecordSet(S \cup {y}), NEW keep \in Nat,
         NEW buf \in Seq(Entry), Latest(buf, keep, S), NEW new \in AppendSorted(buf, y, keep)
  PROVE  new \in Seq(Entry) /\ Latest(new, keep, S \cup {y})
<1> DEFINE B == ToSet(buf) \cup {y}
<1>1. IsFiniteSet(ToSet(buf)) /\ Cardinality(ToSet(buf)) = Len(buf) /\ y \notin ToSet(buf)
  BY DistinctRows DEF Latest
<1>2. IsFiniteSet(B) /\ Cardinality(B) = Len(buf) + 1
  BY <1>1, FS_AddElement
<1>3. RecordSet(B) /\ B \subseteq S \cup {y} /\ B \subseteq Entry
  BY <1>2 DEF RecordSet, Latest
<1>4. PICK s \in Sorted(B) : new = LastOf(s, keep)
  BY DEF AppendSorted
<1> HIDE DEF B
<1>5. s \in Seq(B) /\ Len(s) = Len(buf) + 1 /\ ToSet(s) = B /\ Along(s, RowOrder)
  BY <1>2, <1>3, <1>4, SortedRows
<1>6. s \in Seq(Entry)
  BY <1>3, <1>5
<1>7. /\ new \in Seq(Entry) /\ Len(new) = (IF Len(s) > keep THEN keep ELSE Len(s))
      /\ ToSet(new) \subseteq B /\ Along(new, RowOrder)
      /\ \A x \in B \ ToSet(new) :
           Len(new) = keep /\ \A z \in ToSet(new) : <<x, z>> \in RowOrder
  BY <1>4, <1>5, <1>6, LastOfAt, LastOfKept
<1>8. ASSUME NEW r \in S \cup {y}, r \notin B
      PROVE  Len(new) = keep /\ \A z \in ToSet(new) : <<r, z>> \in RowOrder
  <2>1. /\ r \in S /\ r # y /\ Len(buf) = keep
        /\ \A z \in ToSet(buf) : <<r, z>> \in RowOrder
    BY <1>8 DEF B, Latest
  <2>2. Len(new) = keep
    BY <1>5, <1>7, <2>1
  <2>3. ASSUME NEW z \in ToSet(new) PROVE <<r, z>> \in RowOrder
    <3>1. CASE z \in ToSet(buf)
      BY <2>1, <3>1
    <3>2. CASE z = y
      <4>1. PICK d \in B : d \notin ToSet(new)
        <5>1. Cardinality(ToSet(new)) = keep
          BY <1>7, <2>2, DistinctRows
        <5>2. Cardinality(B) # keep
          BY <1>2, <2>1
        <5>3. ToSet(new) # B
          BY <5>1, <5>2
        <5> QED BY <1>7, <5>3
      <4>2. d \in ToSet(buf) /\ <<r, d>> \in RowOrder /\ <<d, y>> \in RowOrder
        BY <1>7, <2>1, <2>3, <3>2, <4>1 DEF B
      <4>3. d \in S \cup {y} /\ r \in S \cup {y} /\ y \in S \cup {y}
        BY <1>3, <4>1
      <4>4. CASE capture # "flow"
        BY <3>2, <4>2, <4>3, <4>4, RowsOrdered
      <4>5. CASE capture = "flow"
        <5>1. r.time <= d.time /\ d.time <= y.time
          BY <4>2, <4>3, <4>5, RowsOrdered
        <5>2. r.time \in Nat /\ d.time \in Nat /\ y.time \in Nat
          BY <4>3 DEF RecordSet, Entry
        <5>3. r.time <= y.time
          BY <5>1, <5>2
        <5> QED BY <2>1, <3>2, <4>3, <4>5, <5>3, RowsOrdered
      <4> QED BY <4>4, <4>5
    <3> QED BY <1>7, <3>1, <3>2 DEF B
  <2> QED BY <2>2, <2>3
<1>9. \A r \in (S \cup {y}) \ ToSet(new) :
        Len(new) = keep /\ \A z \in ToSet(new) : <<r, z>> \in RowOrder
  BY <1>7, <1>8
<1> QED BY <1>3, <1>7, <1>9 DEF Latest

--------------------------------------------------------------------------------
(* The steps *)

\* At the start nothing is shown.
LEMMA InitInv == Init => Inv
<1> SUFFICES ASSUME Init PROVE Inv
  OBVIOUS
<1> USE DisplayAssumption
<1>1. <<>> \in Seq(Entry) /\ DOMAIN <<>> = {}
  BY EmptySeq
<1>2. ToSet(<<>>) = {} /\ Along(<<>>, RowOrder)
  BY <1>1, NoElements DEF Along
<1>3. TypeOK
  BY <1>1 DEF Init, TypeOK
<1>4. Numbered
  BY FS_EmptySet DEF Init, Numbered, RecordSet
<1>5. Buffered
  BY <1>2 DEF Init, Buffered, Latest, Others, Wires, Plaintexts
<1>6. Shown(table)
  BY <1>2 DEF Init, Shown
<1> QED BY <1>3, <1>4, <1>5, <1>6 DEF Init, Inv

\* The order of the rows, and what is shown and kept of a record, depend on the kind of
\* capture only.
LEMMA SameCapture ==
  ASSUME capture' = capture
  PROVE  RowOrder' = RowOrder
BY DEF RowOrder, Before

\* The buffers are left alone.
LEMMA BufferedStays ==
  ASSUME Buffered, capture' = capture, buffers' = buffers, accepted' = accepted
  PROVE  Buffered'
<1>1. RowOrder' = RowOrder
  BY SameCapture
<1> QED BY <1>1 DEF Buffered, Latest, buffers, Others, Wires, Plaintexts, Along

\* The table is left alone.
LEMMA ShownStays ==
  ASSUME Shown(table), capture' = capture, table' = table, accepted \subseteq accepted'
  PROVE  Shown(table)'
<1>1. RowOrder' = RowOrder
  BY SameCapture
<1> QED BY <1>1 DEF Shown, Along, Visible

\* A copy and the table are left alone, and the records too.
LEMMA CopiedStays ==
  ASSUME Copied, capture' = capture, refreshVars' = refreshVars, accepted' = accepted,
         appending' # None => appending'.index >= seen
  PROVE  Copied'
<1>1. RowOrder' = RowOrder
  BY SameCapture
<1>2. snapshot' = snapshot /\ seen' = seen /\ table' = table
  BY DEF refreshVars
<1>3. Shown(snapshot)'
  BY <1>1, <1>2 DEF Copied, Shown, Along, Visible
<1>4. \A r \in accepted : Kept(r)' = Kept(r) /\ NotBefore(r, ToSet(snapshot))' = NotBefore(r, ToSet(snapshot))
  BY <1>2 DEF Kept, NotBefore, Visible
<1>5. (\A r \in accepted : r.index < seen /\ Visible(r) =>
         r \in ToSet(snapshot) \/ Cardinality(NotBefore(r, ToSet(snapshot))) >= Kept(r))'
  BY <1>2, <1>4 DEF Copied, Visible
<1> QED BY <1>1, <1>2, <1>3, <1>5 DEF Copied

\* A goroutine takes an index.
LEMMA BeginAppendInv ==
  ASSUME Inv, BeginAppend
  PROVE  Inv'
<1> USE DisplayAssumption
<1>1. PICK r \in Records[capture] :
        appending' = [index |-> flowIndex, time |-> r.time, type |-> r.type, match |-> r.match]
  BY DEF BeginAppend
<1>2. /\ flowIndex \in Nat /\ flowIndex' = flowIndex + 1 /\ capture \in Captures
      /\ UNCHANGED <<capture, buffers, accepted, refreshVars, userVars>>
      /\ \A a \in accepted : a.index \in Nat
  BY DEF Inv, TypeOK, BeginAppend, Entry
<1>3. r \in [time : Nat, type : {"wire", "plaintext", "other"}, match : BOOLEAN]
  BY <1>2 DEF DisplayAssumption
<1>4. appending' \in Entry /\ appending'.index = flowIndex
  BY <1>1, <1>2, <1>3 DEF Entry
<1>5. TypeOK'
  BY <1>2, <1>4 DEF Inv, TypeOK, buffers, refreshVars, userVars
<1>6. Numbered'
  BY <1>2, <1>4 DEF Inv, Numbered, RecordSet
<1>7. Buffered'
  BY <1>2, BufferedStays DEF Inv
<1>8. Shown(table)'
  BY <1>2, ShownStays DEF Inv, refreshVars
<1>9. (heartbeat = "snapshot" => Copied)'
  <2> SUFFICES ASSUME heartbeat' = "snapshot" PROVE Copied'
    OBVIOUS
  <2>1. Copied /\ appending'.index >= seen
    BY <1>2, <1>4 DEF Inv, refreshVars
  <2> QED BY <1>2, <2>1, CopiedStays
<1>10. (seen <= flowIndex)'
  BY <1>2 DEF Inv, TypeOK, refreshVars
<1> QED BY <1>5, <1>6, <1>7, <1>8, <1>9, <1>10 DEF Inv

\* A record is appended: the buffer of its kind has the last ones again.
LEMMA EndAppendInv ==
  ASSUME Inv, EndAppend
  PROVE  Inv'
<1> USE DisplayAssumption
<1> DEFINE y == appending
           S == accepted
<1>1. /\ y # None /\ accepted' = S \cup {y} /\ appending' = None
      /\ UNCHANGED <<capture, flowIndex, refreshVars, userVars>>
  BY DEF EndAppend
<1>2. TypeOK /\ Numbered /\ Buffered /\ Shown(table) /\ capture \in Captures
  BY DEF Inv, TypeOK
<1>3. y \in Entry /\ y \notin S /\ y.type \in {"wire", "plaintext", "other"}
  BY <1>1, <1>2 DEF TypeOK, Numbered, Entry
<1>4. RecordSet(S \cup {y})
  <2>1. IsFiniteSet(S \cup {y})
    BY <1>2, FS_AddElement DEF Numbered, RecordSet
  <2> QED BY <1>1, <1>2, <1>3, <2>1 DEF Numbered, RecordSet
<1>5. ASSUME NEW T \in SUBSET (S \cup {y}) PROVE RecordSet(T)
  <2>1. IsFiniteSet(T)
    BY <1>4, FS_Subset DEF RecordSet
  <2> QED BY <1>4, <2>1 DEF RecordSet
<1>6. /\ KeepCount \in Nat /\ WirePacketKeepCount \in Nat /\ PlaintextKeepCount \in Nat
      /\ lastFlows \in Seq(Entry) /\ lastWirePackets \in Seq(Entry)
      /\ lastPlaintextFlows \in Seq(Entry)
  BY <1>2 DEF DisplayAssumption, TypeOK
<1>7. /\ Latest(lastFlows, KeepCount, Others(S))
      /\ Latest(lastWirePackets, WirePacketKeepCount, Wires(S))
      /\ Latest(lastPlaintextFlows, PlaintextKeepCount, Plaintexts(S))
  BY <1>2 DEF Buffered
<1> HIDE DEF y, S
<1>8. /\ lastFlows' \in Seq(Entry) /\ lastWirePackets' \in Seq(Entry)
      /\ lastPlaintextFlows' \in Seq(Entry)
      /\ Latest(lastFlows', KeepCount, Others(S \cup {y}))
      /\ Latest(lastWirePackets', WirePacketKeepCount, Wires(S \cup {y}))
      /\ Latest(lastPlaintextFlows', PlaintextKeepCount, Plaintexts(S \cup {y}))
  <2>1. CASE capture = "tls" /\ y.type = "plaintext"
    <3>1. /\ lastPlaintextFlows' \in AppendSorted(lastPlaintextFlows, y, PlaintextKeepCount)
          /\ UNCHANGED <<lastFlows, lastWirePackets>>
      BY <2>1 DEF EndAppend, y
    <3>2. /\ Plaintexts(S \cup {y}) = Plaintexts(S) \cup {y} /\ y \notin Plaintexts(S)
          /\ Others(S \cup {y}) = Others(S) /\ Wires(S \cup {y}) = Wires(S)
      BY <1>3, <2>1 DEF Plaintexts, Wires, Others
    <3>3. RecordSet(Plaintexts(S) \cup {y})
      BY <1>5 DEF Plaintexts
    <3>4. /\ lastPlaintextFlows' \in Seq(Entry)
          /\ Latest(lastPlaintextFlows', PlaintextKeepCount, Plaintexts(S) \cup {y})
      BY <1>6, <1>7, <3>1, <3>2, <3>3, AppendLatest
    <3> QED BY <1>6, <1>7, <3>1, <3>2, <3>4
  <2>2. CASE capture = "tls" /\ y.type = "wire"
    <3>1. /\ lastWirePackets' \in AppendSorted(lastWirePackets, y, WirePacketKeepCount)
          /\ UNCHANGED <<lastFlows, lastPlaintextFlows>>
      BY <2>2 DEF EndAppend, y
    <3>2. /\ Wires(S \cup {y}) = Wires(S) \cup {y} /\ y \notin Wires(S)
          /\ Others(S \cup {y}) = Others(S) /\ Plaintexts(S \cup {y}) = Plaintexts(S)
      BY <1>3, <2>2 DEF Plaintexts, Wires, Others
    <3>3. RecordSet(Wires(S) \cup {y})
      BY <1>5 DEF Wires
    <3>4. /\ lastWirePackets' \in Seq(Entry)
          /\ Latest(lastWirePackets', WirePacketKeepCount, Wires(S) \cup {y})
      BY <1>6, <1>7, <3>1, <3>2, <3>3, AppendLatest
    <3> QED BY <1>6, <1>7, <3>1, <3>2, <3>4
  <2>3. CASE ~(capture = "tls" /\ y.type \in {"plaintext", "wire"})
    <3>1. /\ lastFlows' \in AppendSorted(lastFlows, y, KeepCount)
          /\ UNCHANGED <<lastWirePackets, lastPlaintextFlows>>
      BY <2>3 DEF EndAppend, y
    <3>2. /\ Others(S \cup {y}) = Others(S) \cup {y} /\ y \notin Others(S)
          /\ Wires(S \cup {y}) = Wires(S) /\ Plaintexts(S \cup {y}) = Plaintexts(S)
      BY <1>3, <2>3 DEF Plaintexts, Wires, Others
    <3>3. RecordSet(Others(S) \cup {y})
      BY <1>5 DEF Others
    <3>4. /\ lastFlows' \in Seq(Entry)
          /\ Latest(lastFlows', KeepCount, Others(S) \cup {y})
      BY <1>6, <1>7, <3>1, <3>2, <3>3, AppendLatest
    <3> QED BY <1>6, <1>7, <3>1, <3>2, <3>4
  <2> QED BY <1>3, <2>1, <2>2, <2>3
<1>9. RowOrder' = RowOrder
  BY <1>1, SameCapture
<1>10. Buffered'
  <2>1. accepted' = S \cup {y} /\ capture' = capture
    BY <1>1 DEF S, y
  <2> QED BY <1>8, <1>9, <2>1 DEF Buffered, Latest, Others, Wires, Plaintexts, Along
<1>11. TypeOK'
  <2>1. accepted' \subseteq Entry
    BY <1>1, <1>3, <1>4 DEF S, y, RecordSet
  <2> QED BY <1>1, <1>2, <1>8, <2>1 DEF TypeOK, refreshVars, userVars
<1>12. Numbered'
  <2>1. RecordSet(accepted)'
    BY <1>1, <1>4 DEF S, y, RecordSet
  <2>2. \A r \in accepted' : r.index < flowIndex'
    BY <1>1, <1>2 DEF Numbered, S, y
  <2> QED BY <1>1, <2>1, <2>2 DEF Numbered
<1>13. Shown(table)'
  BY <1>1, <1>2, ShownStays DEF refreshVars, S
<1>14. (heartbeat = "snapshot" => Copied)'
  <2> SUFFICES ASSUME heartbeat' = "snapshot" PROVE Copied'
    OBVIOUS
  <2>1. Copied /\ y.index >= seen /\ capture' = capture
        /\ snapshot' = snapshot /\ seen' = seen /\ table' = table
    BY <1>1 DEF Inv, Copied, refreshVars, y
  <2>2. Shown(snapshot)'
    BY <1>1, <1>9, <2>1 DEF Copied, Shown, Along, Visible, S
  <2>3. ASSUME NEW r \in accepted', r.index < seen, Visible(r)
        PROVE  r \in ToSet(snapshot) \/ Cardinality(NotBefore(r, ToSet(snapshot))) >= Kept(r)
    <3>1. y.index \in Nat /\ seen \in Nat
      BY <1>2, <1>3 DEF TypeOK, Entry
    <3>2. r # y
      BY <2>1, <2>3, <3>1
    <3>3. r \in accepted
      BY <1>1, <3>2 DEF S
    <3> QED BY <2>1, <2>3, <3>3 DEF Copied
  <2>4. \A r \in accepted' : /\ Visible(r)' <=> Visible(r)
                             /\ Kept(r)' = Kept(r)
                             /\ NotBefore(r, ToSet(snapshot))' = NotBefore(r, ToSet(snapshot))
    BY <2>1 DEF Kept, NotBefore, Visible
  <2>5. (\A r \in accepted : r.index < seen /\ Visible(r) =>
           r \in ToSet(snapshot) \/ Cardinality(NotBefore(r, ToSet(snapshot))) >= Kept(r))'
    BY <2>1, <2>3, <2>4
  <2> QED BY <1>1, <1>9, <2>1, <2>2, <2>5 DEF Copied
<1>15. (seen <= flowIndex)'
  BY <1>1 DEF Inv, refreshVars
<1> QED BY <1>10, <1>11, <1>12, <1>13, <1>14, <1>15 DEF Inv

\* What a buffer has in place of a record that it dropped is at least as late, and as
\* much as it keeps.
LEMMA AsLate ==
  ASSUME NEW S, RecordSet(S), NEW buf \in Seq(Entry), NEW keep \in Nat,
         Latest(buf, keep, S), NEW r \in S \ ToSet(buf),
         NEW D \in SUBSET Entry, IsFiniteSet(D), ToSet(buf) \subseteq D,
         \A x \in ToSet(buf) : Visible(x)
  PROVE  Cardinality(NotBefore(r, D)) >= keep
<1>1. Len(buf) = keep /\ \A x \in ToSet(buf) : <<r, x>> \in RowOrder
  BY DEF Latest
<1>2. ASSUME NEW x \in ToSet(buf) PROVE x.time >= r.time /\ x # r
  <2>1. x \in S /\ x # r /\ <<r, x>> \in RowOrder
    BY <1>1 DEF Latest
  <2>2. x.time \in Nat /\ r.time \in Nat
    BY <2>1 DEF RecordSet, Entry
  <2>3. IF capture = "flow" THEN r.time <= x.time ELSE Before(r, x)
    BY <2>1, RowsOrdered
  <2> QED BY <2>1, <2>2, <2>3 DEF Before
<1>3. ToSet(buf) \subseteq NotBefore(r, D) /\ NotBefore(r, D) \subseteq D
  BY <1>2 DEF NotBefore
<1>4. Cardinality(ToSet(buf)) = keep
  BY <1>1, DistinctRows DEF Latest
<1>5. IsFiniteSet(NotBefore(r, D))
  BY <1>3, FS_Subset
<1>6. keep <= Cardinality(NotBefore(r, D))
  BY <1>3, <1>4, <1>5, FS_Subset
<1> QED
  <2>1. Cardinality(NotBefore(r, D)) \in Nat
    BY <1>5, FS_CardinalityType
  <2> QED BY <1>6, <2>1

\* What the heartbeat copies.
LEMMA DisplayedRows ==
  ASSUME Inv
  PROVE  /\ Displayed \in Seq(Entry) /\ Shown(Displayed)
         /\ capture = "flow" => \A r \in accepted \ ToSet(Displayed) :
              \A x \in ToSet(Displayed) : <<r, x>> \in RowOrder
         /\ \A r \in accepted : Visible(r) =>
              r \in ToSet(Displayed) \/ Cardinality(NotBefore(r, ToSet(Displayed))) >= Kept(r)
<1> USE DisplayAssumption
<1> DEFINE d == Displayed
<1>1. /\ RecordSet(accepted) /\ capture \in {"flow", "packet", "tls"}
      /\ lastFlows \in Seq(Entry) /\ lastWirePackets \in Seq(Entry)
      /\ lastPlaintextFlows \in Seq(Entry)
      /\ KeepCount \in Nat /\ WirePacketKeepCount \in Nat /\ PlaintextKeepCount \in Nat
  BY DEF Inv, TypeOK, Numbered, DisplayAssumption
<1>2. /\ Latest(lastFlows, KeepCount, Others(accepted))
      /\ Latest(lastWirePackets, WirePacketKeepCount, Wires(accepted))
      /\ Latest(lastPlaintextFlows, PlaintextKeepCount, Plaintexts(accepted))
  BY DEF Inv, Buffered
<1>3. ASSUME NEW T \in SUBSET accepted PROVE RecordSet(T)
  <2>1. IsFiniteSet(T)
    BY <1>1, FS_Subset DEF RecordSet
  <2> QED BY <1>1, <2>1 DEF RecordSet
<1>4. CASE capture # "tls"
  <2>1. d = lastFlows /\ Others(accepted) = accepted /\ \A r \in accepted : Visible(r)
    BY <1>4 DEF Displayed, Others, Visible
  <2>2. ToSet(d) \subseteq accepted /\ Shown(d)
    BY <1>2, <2>1 DEF Latest, Shown
  <2>3. \A r \in accepted \ ToSet(d) : \A x \in ToSet(d) : <<r, x>> \in RowOrder
    BY <1>2, <2>1 DEF Latest
  <2>4. ASSUME NEW r \in accepted, r \notin ToSet(d)
        PROVE  Cardinality(NotBefore(r, ToSet(d))) >= Kept(r)
    <3>1. RecordSet(ToSet(d))
      BY <1>3, <2>2
    <3>2. Cardinality(NotBefore(r, ToSet(d))) >= KeepCount
      BY <1>1, <1>2, <2>1, <2>2, <2>4, <3>1, AsLate DEF RecordSet
    <3> QED BY <1>4, <3>2 DEF Kept
  <2> QED BY <1>1, <2>1, <2>2, <2>3, <2>4
<1>5. CASE capture = "tls"
  <2> DEFINE D == ToSet(lastWirePackets) \cup ToSet(lastPlaintextFlows)
  <2>1. /\ D \subseteq accepted /\ \A x \in D : Visible(x)
        /\ ToSet(lastWirePackets) \subseteq D /\ ToSet(lastPlaintextFlows) \subseteq D
        /\ d = SortPacketFlows(D)
    BY <1>2, <1>5 DEF Displayed, Latest, Wires, Plaintexts, Visible
  <2> HIDE DEF D
  <2>2. RecordSet(D) /\ d \in Sorted(D)
    BY <1>3, <1>5, <2>1 DEF Sorted
  <2> HIDE DEF d
  <2>3. d \in Seq(D) /\ ToSet(d) = D /\ Along(d, RowOrder)
    BY <2>2, SortedRows
  <2>4. d \in Seq(Entry) /\ Shown(d) /\ IsFiniteSet(D) /\ D \in SUBSET Entry
    BY <2>1, <2>2, <2>3 DEF Shown, RecordSet
  <2>5. ASSUME NEW r \in accepted, Visible(r), r \notin D
        PROVE  Cardinality(NotBefore(r, D)) >= Kept(r)
    <3>1. r.type \in {"wire", "plaintext"}
      BY <1>1, <1>5, <2>5 DEF Visible, RecordSet, Entry
    <3>2. CASE r.type = "wire"
      <4>1. r \in Wires(accepted) \ ToSet(lastWirePackets) /\ Kept(r) = WirePacketKeepCount
        BY <1>5, <2>1, <2>5, <3>2 DEF Wires, Kept
      <4>2. RecordSet(Wires(accepted))
        BY <1>3 DEF Wires
      <4>3. \A x \in ToSet(lastWirePackets) : Visible(x)
        BY <2>1
      <4>4. Cardinality(NotBefore(r, D)) >= WirePacketKeepCount
        BY <1>1, <1>2, <2>1, <2>4, <4>1, <4>2, <4>3, AsLate
      <4> QED BY <4>1, <4>4
    <3>3. CASE r.type = "plaintext"
      <4>1. /\ r \in Plaintexts(accepted) \ ToSet(lastPlaintextFlows)
            /\ Kept(r) = PlaintextKeepCount
        BY <1>5, <2>1, <2>5, <3>3 DEF Plaintexts, Kept
      <4>2. RecordSet(Plaintexts(accepted))
        BY <1>3 DEF Plaintexts
      <4>3. \A x \in ToSet(lastPlaintextFlows) : Visible(x)
        BY <2>1
      <4>4. Cardinality(NotBefore(r, D)) >= PlaintextKeepCount
        BY <1>1, <1>2, <2>1, <2>4, <4>1, <4>2, <4>3, AsLate
      <4> QED BY <4>1, <4>4
    <3> QED BY <3>1, <3>2, <3>3
  <2> QED BY <1>5, <2>3, <2>4, <2>5 DEF d
<1> QED BY <1>4, <1>5

\* The heartbeat copies the buffers.
LEMMA SnapshotInv ==
  ASSUME Inv, Snapshot
  PROVE  Inv'
<1>1. /\ heartbeat' = "snapshot" /\ snapshot' = Displayed /\ seen' = flowIndex
      /\ UNCHANGED <<capture, appendVars, table, userVars>> /\ appending = None
  BY DEF Snapshot
<1>2. UNCHANGED <<buffers, flowIndex, appending, accepted>>
  BY <1>1 DEF appendVars
<1>3. RowOrder' = RowOrder
  BY <1>1, SameCapture
<1>4. /\ Displayed \in Seq(Entry) /\ Shown(Displayed)
      /\ capture = "flow" => \A r \in accepted \ ToSet(Displayed) :
           \A x \in ToSet(Displayed) : <<r, x>> \in RowOrder
      /\ \A r \in accepted : Visible(r) =>
           r \in ToSet(Displayed) \/ Cardinality(NotBefore(r, ToSet(Displayed))) >= Kept(r)
  BY DisplayedRows
<1> DEFINE d == Displayed
<1> HIDE DEF d
<1>5. TypeOK'
  BY <1>1, <1>2, <1>4 DEF Inv, TypeOK, buffers, userVars
<1>6. Numbered'
  BY <1>2 DEF Inv, Numbered, RecordSet
<1>7. Buffered'
  BY <1>1, <1>2, BufferedStays DEF Inv
<1>8. Shown(table)'
  BY <1>1, <1>2, ShownStays DEF Inv
<1>9. Copied'
  <2>1. /\ snapshot' = d /\ Shown(d)
        /\ capture = "flow" => \A r \in accepted \ ToSet(d) :
             \A x \in ToSet(d) : <<r, x>> \in RowOrder
        /\ \A r \in accepted : Visible(r) =>
             r \in ToSet(d) \/ Cardinality(NotBefore(r, ToSet(d))) >= Kept(r)
    BY <1>1, <1>4 DEF d
  <2>2. Shown(snapshot)'
    BY <1>1, <1>2, <1>3, <2>1 DEF Shown, Along, Visible
  <2>3. ToSet(table) \subseteq accepted
    BY DEF Inv, Shown
  <2>4. (capture = "flow" => \A r \in ToSet(table) \ ToSet(snapshot) :
           \A x \in ToSet(snapshot) : <<r, x>> \in RowOrder)'
    BY <1>1, <1>3, <2>1, <2>3
  <2>5. \A r \in accepted : /\ Visible(r)' <=> Visible(r)
                            /\ Kept(r)' = Kept(r)
                            /\ NotBefore(r, ToSet(snapshot))' = NotBefore(r, ToSet(d))
    BY <1>1, <2>1 DEF Kept, NotBefore, Visible
  <2>6. (\A r \in accepted : r.index < seen /\ Visible(r) =>
           r \in ToSet(snapshot) \/ Cardinality(NotBefore(r, ToSet(snapshot))) >= Kept(r))'
    BY <1>2, <2>1, <2>5
  <2> QED BY <1>1, <1>2, <2>2, <2>4, <2>6 DEF Copied
<1>10. (seen <= flowIndex)'
  BY <1>1, <1>2 DEF Inv, TypeOK
<1> QED BY <1>5, <1>6, <1>7, <1>8, <1>9, <1>10 DEF Inv

\* In order, a row stands before those that are as late.
LEMMA AlongTime ==
  ASSUME RecordSet(accepted), NEW a \in accepted, NEW b \in accepted, <<a, b>> \in RowOrder
  PROVE  b.time >= a.time /\ b # a
<1>1. a # b /\ IF capture = "flow" THEN a.time <= b.time ELSE Before(a, b)
  BY RowsOrdered
<1>2. a.time \in Nat /\ b.time \in Nat
  BY DEF RecordSet, Entry
<1> QED BY <1>1, <1>2 DEF Before

\* Cut off at n rows, a record is in them, or n of them or as many as before are as late.
LEMMA TrimmedKeeps ==
  ASSUME RecordSet(accepted), NEW t \in Seq(Entry), Shown(t), NEW n \in Nat, NEW k,
         NEW r \in accepted, r \in ToSet(t) \/ Cardinality(NotBefore(r, ToSet(t))) >= k
  PROVE  LET u == LastOf(t, n)
         IN  \/ r \in ToSet(u)
             \/ Cardinality(NotBefore(r, ToSet(u))) >= n
             \/ Cardinality(NotBefore(r, ToSet(u))) >= k
<1> DEFINE u == LastOf(t, n)
<1>1. /\ u \in Seq(Entry) /\ ToSet(u) \subseteq ToSet(t) /\ Along(u, RowOrder)
      /\ \A x \in ToSet(t) \ ToSet(u) : Len(u) = n /\ \A y \in ToSet(u) : <<x, y>> \in RowOrder
  BY LastOfAt, LastOfKept DEF Shown
<1> HIDE DEF u
<1>2. \A x \in ToSet(t) : x \in accepted /\ Visible(x)
  BY DEF Shown
<1>3. IsFiniteSet(ToSet(u)) /\ Cardinality(ToSet(u)) = Len(u)
  BY <1>1, DistinctRows
<1>4. ASSUME NEW a \in ToSet(t) \ ToSet(u), a = r \/ (r \notin ToSet(t) /\ a.time >= r.time)
      PROVE  Cardinality(NotBefore(r, ToSet(u))) >= n
  <2>1. ASSUME NEW y \in ToSet(u) PROVE y \in NotBefore(r, ToSet(u))
    <3>1. y.time >= a.time /\ y # a /\ y \in ToSet(t) /\ Visible(y)
      BY <1>1, <1>2, <1>4, AlongTime
    <3>2. y.time \in Nat /\ a.time \in Nat /\ r.time \in Nat
      BY <1>2, <1>4, <3>1 DEF RecordSet, Entry
    <3>3. y # r /\ y.time >= r.time
      BY <1>4, <3>1, <3>2
    <3> QED BY <3>1, <3>3 DEF NotBefore
  <2>2. NotBefore(r, ToSet(u)) = ToSet(u)
    BY <2>1 DEF NotBefore
  <2> QED BY <1>1, <1>3, <1>4, <2>2
<1>5. CASE r \in ToSet(t)
  BY <1>4, <1>5 DEF u
<1>6. CASE r \notin ToSet(t) /\ NotBefore(r, ToSet(t)) \subseteq ToSet(u)
  <2>1. NotBefore(r, ToSet(u)) = NotBefore(r, ToSet(t))
    BY <1>1, <1>6 DEF NotBefore
  <2> QED BY <1>6, <2>1 DEF u
<1>7. CASE r \notin ToSet(t) /\ ~(NotBefore(r, ToSet(t)) \subseteq ToSet(u))
  <2>1. PICK a \in ToSet(t) \ ToSet(u) : a.time >= r.time
    BY <1>7 DEF NotBefore
  <2> QED BY <1>4, <1>7, <2>1 DEF u
<1> QED BY <1>5, <1>6, <1>7

\* The table that the refresh makes of the copy.
LEMMA PublishedRows ==
  ASSUME Inv, Copied
  PROVE  LET rows == Rows(snapshot, table)
         IN  /\ rows \in Seq(Entry) /\ Shown(rows)
             /\ regexes = 0 => \A r \in accepted : r.index < seen /\ Visible(r) =>
                  \/ r \in ToSet(rows)
                  \/ Cardinality(NotBefore(r, ToSet(rows))) >= showCount
                  \/ Cardinality(NotBefore(r, ToSet(rows))) >= Kept(r)
<1> DEFINE w == WithMissing(snapshot, table)
           s == Matching(w)
<1>1. /\ RecordSet(accepted) /\ snapshot \in Seq(Entry) /\ table \in Seq(Entry)
      /\ showCount \in Nat /\ regexes \in Nat /\ Shown(snapshot) /\ Shown(table)
  BY DEF Inv, TypeOK, Numbered, Copied
<1>2. w \in Seq(Entry) /\ Shown(w) /\ ToSet(snapshot) \subseteq ToSet(w)
  <2>1. CASE capture # "flow"
    BY <1>1, <2>1 DEF WithMissing
  <2>2. CASE capture = "flow"
    <3> DEFINE missing == ToSet(table) \ ToSet(snapshot)
               m == Those(table, missing)
    <3>1. m \in Seq(Entry) /\ ToSet(m) = missing /\ Along(m, RowOrder)
      <4>1. ToSet(table) \cap missing = missing
        OBVIOUS
      <4> HIDE DEF missing
      <4> QED BY <1>1, <4>1, ThoseKept DEF Shown
    <3>2. \A x \in missing, y \in ToSet(snapshot) : <<x, y>> \in RowOrder
      BY <2>2 DEF Copied
    <3>3. w = m \o snapshot
      BY <2>2 DEF WithMissing
    <3> HIDE DEF m, w
    <3>4. /\ w \in Seq(Entry) /\ ToSet(w) = missing \cup ToSet(snapshot)
          /\ Along(w, RowOrder)
      BY <1>1, <3>1, <3>2, <3>3, CatElements DEF Shown
    <3>5. \A r \in ToSet(w) : r \in accepted /\ Visible(r)
      BY <1>1, <3>4 DEF Shown
    <3> QED BY <3>4, <3>5 DEF Shown
  <2> QED BY <2>1, <2>2
<1> HIDE DEF w
<1>3. s \in Seq(Entry) /\ Shown(s) /\ (regexes = 0 => s = w)
  <2>1. s = Those(w, Wanted)
    BY <1>2, MatchingThose
  <2>2. s \in Seq(Entry) /\ ToSet(s) \subseteq ToSet(w) /\ Along(s, RowOrder)
    BY <1>2, <2>1, ThoseKept DEF Shown
  <2>3. Shown(s)
    BY <1>2, <2>2 DEF Shown
  <2>4. regexes = 0 => s = w
    BY DEF Matching
  <2> QED BY <2>2, <2>3, <2>4
<1> HIDE DEF s
<1>4. \E t \in Seq(Entry) :
        Shown(t) /\ ToSet(t) = ToSet(s) /\ Trimmed(s) = LastOf(t, showCount)
  <2>1. CASE capture # "flow" /\ Len(s) > showCount
    <3> DEFINE S == ToSet(s)
               t == SortPacketFlows(S)
    <3>1. RecordSet(S)
      <4>1. S \subseteq accepted /\ IsFiniteSet(S)
        BY <1>1, <1>3, FS_Subset DEF Shown, RecordSet
      <4> HIDE DEF S
      <4> QED BY <1>1, <4>1 DEF RecordSet
    <3>2. t \in Sorted(S)
      BY <2>1 DEF Sorted
    <3>3. S \subseteq Entry /\ \A r \in S : r \in accepted /\ Visible(r)
      BY <1>3, <3>1 DEF Shown, RecordSet
    <3>4. Trimmed(s) = LastOf(t, showCount)
      BY <2>1 DEF Trimmed
    <3> HIDE DEF S, t
    <3>5. t \in Seq(S) /\ ToSet(t) = S /\ Along(t, RowOrder)
      BY <3>1, <3>2, SortedRows
    <3>6. t \in Seq(Entry) /\ Shown(t)
      BY <3>3, <3>5 DEF Shown
    <3> QED BY <3>4, <3>5, <3>6 DEF S
  <2>2. CASE ~(capture # "flow" /\ Len(s) > showCount)
    <3>1. Trimmed(s) = LastOf(s, showCount)
      BY <2>2 DEF Trimmed
    <3> QED BY <1>3, <3>1
  <2> QED BY <2>1, <2>2
<1>5. PICK t \in Seq(Entry) :
        Shown(t) /\ ToSet(t) = ToSet(s) /\ Rows(snapshot, table) = LastOf(t, showCount)
  BY <1>4 DEF Rows, s, w
<1> DEFINE rows == LastOf(t, showCount)
<1>6. rows \in Seq(Entry) /\ Shown(rows)
  <2>1. rows \in Seq(Entry) /\ ToSet(rows) \subseteq ToSet(t) /\ Along(rows, RowOrder)
    BY <1>1, <1>5, LastOfAt, LastOfKept DEF Shown
  <2> HIDE DEF rows
  <2> QED BY <1>5, <2>1 DEF Shown
<1>7. ASSUME regexes = 0, NEW r \in accepted, r.index < seen, Visible(r)
      PROVE  \/ r \in ToSet(rows)
             \/ Cardinality(NotBefore(r, ToSet(rows))) >= showCount
             \/ Cardinality(NotBefore(r, ToSet(rows))) >= Kept(r)
  <2>1. r \in ToSet(snapshot) \/ Cardinality(NotBefore(r, ToSet(snapshot))) >= Kept(r)
    BY <1>7 DEF Copied
  <2>2. ToSet(snapshot) \subseteq ToSet(t) /\ ToSet(t) = ToSet(w)
    BY <1>2, <1>3, <1>5, <1>7
  <2>3. CASE r \in ToSet(snapshot)
    BY <1>1, <1>5, <2>2, <2>3, TrimmedKeeps
  <2>4. CASE Cardinality(NotBefore(r, ToSet(snapshot))) >= Kept(r)
    <3> DEFINE N == NotBefore(r, ToSet(snapshot))
               M == NotBefore(r, ToSet(t))
    <3>1. N \subseteq M /\ M \subseteq accepted
      BY <1>5, <2>2 DEF NotBefore, Shown
    <3>2. IsFiniteSet(M)
      BY <1>1, <3>1, FS_Subset DEF RecordSet
    <3> HIDE DEF N, M
    <3>3. Cardinality(N) <= Cardinality(M) /\ IsFiniteSet(N)
      BY <3>1, <3>2, FS_Subset
    <3>4. Cardinality(N) \in Nat /\ Cardinality(M) \in Nat /\ Kept(r) \in Nat
      BY <3>2, <3>3, FS_CardinalityType, DisplayAssumption DEF DisplayAssumption, Kept
    <3>5. Cardinality(M) >= Kept(r)
      BY <2>4, <3>3, <3>4 DEF N
    <3> QED BY <1>1, <1>5, <3>5, TrimmedKeeps DEF M
  <2> QED BY <2>1, <2>3, <2>4
<1> HIDE DEF rows
<1> QED BY <1>5, <1>6, <1>7 DEF rows

\* The heartbeat makes the table.
LEMMA PublishInv ==
  ASSUME Inv, Publish
  PROVE  Inv'
<1>1. /\ heartbeat' = "idle" /\ table' = Rows(snapshot, table) /\ Copied
      /\ UNCHANGED <<capture, snapshot, seen, appendVars, userVars>>
  BY DEF Publish, Inv
<1>2. UNCHANGED <<buffers, flowIndex, appending, accepted>>
  BY <1>1 DEF appendVars
<1>3. RowOrder' = RowOrder
  BY <1>1, SameCapture
<1>4. table' \in Seq(Entry) /\ Shown(table')
  BY <1>1, PublishedRows
<1>5. TypeOK'
  BY <1>1, <1>2, <1>4 DEF Inv, TypeOK, buffers, userVars
<1>6. Numbered'
  BY <1>2 DEF Inv, Numbered, RecordSet
<1>7. Buffered'
  BY <1>1, <1>2, BufferedStays DEF Inv
<1>8. Shown(table)'
  BY <1>1, <1>2, <1>3, <1>4 DEF Shown, Along, Visible
<1>9. (seen <= flowIndex)'
  BY <1>1, <1>2 DEF Inv
<1> QED BY <1>1, <1>5, <1>6, <1>7, <1>8, <1>9 DEF Inv

\* The heartbeat ends with the capture.
LEMMA HeartbeatReturnsInv ==
  ASSUME Inv, HeartbeatReturns
  PROVE  Inv'
<1>1. /\ heartbeat' = "returned"
      /\ UNCHANGED <<capture, snapshot, seen, table, appendVars, userVars>>
  BY DEF HeartbeatReturns
<1>2. UNCHANGED <<buffers, flowIndex, appending, accepted>>
  BY <1>1 DEF appendVars
<1>3. TypeOK'
  BY <1>1, <1>2 DEF Inv, TypeOK, buffers, userVars
<1>4. Numbered'
  BY <1>2 DEF Inv, Numbered, RecordSet
<1>5. Buffered'
  BY <1>1, <1>2, BufferedStays DEF Inv
<1>6. Shown(table)'
  BY <1>1, <1>2, ShownStays DEF Inv
<1>7. (seen <= flowIndex)'
  BY <1>1, <1>2 DEF Inv
<1> QED BY <1>1, <1>3, <1>4, <1>5, <1>6, <1>7 DEF Inv

\* The user changes what the next refresh does, and no more.
LEMMA UserInv ==
  ASSUME Inv, UNCHANGED <<capture, appendVars, refreshVars>>,
         paused' \in BOOLEAN, showCount' \in Nat, regexes' \in Nat
  PROVE  Inv'
<1>1. UNCHANGED <<buffers, flowIndex, appending, accepted, heartbeat, snapshot, seen, table>>
  BY DEF appendVars, refreshVars
<1>2. TypeOK'
  BY <1>1 DEF Inv, TypeOK, buffers
<1>3. Numbered'
  BY <1>1 DEF Inv, Numbered, RecordSet
<1>4. Buffered'
  BY <1>1, BufferedStays DEF Inv
<1>5. Shown(table)'
  BY <1>1, ShownStays DEF Inv
<1>6. (heartbeat = "snapshot" => Copied)'
  <2> SUFFICES ASSUME heartbeat' = "snapshot" PROVE Copied'
    OBVIOUS
  <2>1. Copied
    BY <1>1 DEF Inv
  <2>2. appending' # None => appending'.index >= seen
    BY <1>1, <2>1 DEF Copied
  <2> QED BY <1>1, <2>1, <2>2, CopiedStays
<1>7. (seen <= flowIndex)'
  BY <1>1 DEF Inv
<1> QED BY <1>2, <1>3, <1>4, <1>5, <1>6, <1>7 DEF Inv

\* Every step keeps the invariant.
LEMMA NextInv == Inv /\ [Next]_vars => Inv'
<1> SUFFICES ASSUME Inv, [Next]_vars PROVE Inv'
  OBVIOUS
<1>1. paused \in BOOLEAN /\ showCount \in Nat /\ regexes \in Nat
  BY DEF Inv, TypeOK
<1>2. CASE BeginAppend
  BY <1>2, BeginAppendInv
<1>3. CASE EndAppend
  BY <1>3, EndAppendInv
<1>4. CASE Snapshot
  BY <1>4, SnapshotInv
<1>5. CASE Publish
  BY <1>5, PublishInv
<1>6. CASE HeartbeatReturns
  BY <1>6, HeartbeatReturnsInv
<1>7. CASE TogglePause \/ ResetSelection \/ SelectRow
  <2>1. PICK p \in BOOLEAN : Pause(p)
    BY <1>1, <1>7 DEF TogglePause, ResetSelection, SelectRow
  <2> QED BY <1>1, <2>1, UserInv DEF Pause
<1>8. CASE ShowMore \/ ShowLess
  <2>1. /\ UNCHANGED <<capture, paused, regexes, appendVars, refreshVars>>
        /\ showCount' \in Nat
    <3>1. LeastShowCount \in Nat
      BY DisplayAssumption DEF DisplayAssumption
    <3> QED BY <1>1, <1>8, <3>1 DEF ShowMore, ShowLess
  <2> QED BY <1>1, <2>1, UserInv
<1>9. CASE AddRegex \/ RemoveRegex
  <2>1. /\ UNCHANGED <<capture, paused, showCount, appendVars, refreshVars>>
        /\ regexes' \in Nat
    BY <1>1, <1>9 DEF AddRegex, RemoveRegex
  <2> QED BY <1>1, <2>1, UserInv
<1>10. CASE UNCHANGED vars
  BY <1>1, <1>10, UserInv DEF vars, userVars
<1> QED BY <1>2, <1>3, <1>4, <1>5, <1>6, <1>7, <1>8, <1>9, <1>10 DEF Next

--------------------------------------------------------------------------------
(* Theorems *)

\* The inductive invariant holds.
THEOREM InvHolds == Spec => []Inv
BY InitInv, NextInv, PTL DEF Spec

\* Rows are in the order of time and each record has one row, whatever records arrive in
\* whatever order (appendToTimeSortedBuffer, getFlows).
THEOREM RowsInOrder == Spec => []TableInOrder
<1>1. Inv => TableInOrder
  <2> SUFFICES ASSUME Inv PROVE TableInOrder
    OBVIOUS
  <2>1. table \in Seq(Entry) /\ Along(table, RowOrder)
    BY DEF Inv, TypeOK, Shown
  <2>2. \A i, j \in DOMAIN table : i < j =>
          IF capture = "flow" THEN table[i].time <= table[j].time ELSE Before(table[i], table[j])
    BY <2>1 DEF Along, RowOrder
  <2>3. ASSUME NEW i \in DOMAIN table PROVE table[i].time \in Nat
    <3>1. table[i] \in Entry
      BY <2>1
    <3> QED BY <3>1 DEF Entry
  <2>4. InTimeOrder(table)
    BY <2>2, <2>3 DEF InTimeOrder, Before
  <2>5. capture # "flow" => InOrder(table)
    BY <2>2 DEF InOrder
  <2>6. Cardinality(ToSet(table)) = Len(table)
    BY <2>1, DistinctRows
  <2> QED BY <2>4, <2>5, <2>6 DEF TableInOrder
<1> QED BY <1>1, InvHolds, PTL

\* The smaller of two numbers is one that a number from either is not below.
LEMMA MinOfTwo ==
  ASSUME NEW a \in Nat, NEW b \in Nat, NEW c \in Nat, c >= a \/ c >= b
  PROVE  c >= Min({a, b})
<1>1. \E x \in {a, b} : \A y \in {a, b} : x <= y
  <2>1. CASE a <= b
    BY <2>1
  <2>2. CASE ~(a <= b)
    BY <2>2
  <2> QED BY <2>1, <2>2
<1>2. Min({a, b}) \in {a, b} /\ \A y \in {a, b} : Min({a, b}) <= y
  BY <1>1 DEF Min
<1>3. PICK m \in Nat : m = Min({a, b}) /\ m <= a /\ m <= b
  BY <1>2
<1>4. c >= m
  BY ONLY c >= a \/ c >= b, <1>3, a \in Nat, b \in Nat, c \in Nat, m \in Nat
<1> QED BY <1>3, <1>4

\* A refresh without a filter shows the newest: a record that was appended before it and
\* is not in the table has as many rows as are shown, or kept of its kind, in its place,
\* none of them earlier (AppendFlow, packetCaptureFlowSnapshot, trimFlowsToShowCount).
THEOREM ShowsNewest == Spec => NewestShown
<1>1. Inv /\ [Next]_vars =>
        [heartbeat = "snapshot" /\ heartbeat' = "idle" /\ regexes = 0 =>
           \A r \in accepted :
             \/ r.index >= seen \/ ~Visible(r) \/ r \in ToSet(table')
             \/ Cardinality(NotBefore(r, ToSet(table'))) >= Min({showCount, Kept(r)})]_vars
  <2> SUFFICES ASSUME Inv, Next, heartbeat = "snapshot", heartbeat' = "idle", regexes = 0,
                      NEW r \in accepted, ~(r.index >= seen), Visible(r), r \notin ToSet(table')
               PROVE  Cardinality(NotBefore(r, ToSet(table'))) >= Min({showCount, Kept(r)})
    OBVIOUS
  <2>1. Publish
    BY DEF Next, BeginAppend, EndAppend, Snapshot, HeartbeatReturns, TogglePause,
           ResetSelection, SelectRow, Pause, ShowMore, ShowLess, AddRegex, RemoveRegex,
           refreshVars
  <2>2. table' = Rows(snapshot, table) /\ Copied
    BY <2>1 DEF Publish, Inv
  <2>3. r.index < seen
    <3>1. r.index \in Nat /\ seen \in Nat
      BY DEF Inv, TypeOK, Entry
    <3> QED BY <3>1
  <2>4. /\ \/ Cardinality(NotBefore(r, ToSet(table'))) >= showCount
           \/ Cardinality(NotBefore(r, ToSet(table'))) >= Kept(r)
        /\ Shown(table')
    BY <2>2, <2>3, PublishedRows
  <2>5. Cardinality(NotBefore(r, ToSet(table'))) \in Nat
    <3>1. NotBefore(r, ToSet(table')) \subseteq accepted /\ IsFiniteSet(accepted)
      BY <2>4 DEF NotBefore, Shown, Inv, Numbered, RecordSet
    <3> QED BY <3>1, FS_Subset, FS_CardinalityType
  <2>6. showCount \in Nat /\ Kept(r) \in Nat
    BY DisplayAssumption DEF DisplayAssumption, Kept, Inv, TypeOK
  <2> QED BY <2>4, <2>5, <2>6, MinOfTwo
<1> QED BY <1>1, InvHolds, PTL DEF Spec, NewestShown

\* A second refresh of the same buffers changes nothing: the table of a paused display
\* stands still (getFlows; "Table refresh is paused").
THEOREM RefreshTwiceSettles == Spec => []RefreshSettles
<1>1. Inv => RefreshSettles
  <2> SUFFICES ASSUME Inv PROVE Rows(Displayed, Rows(Displayed, table)) = Rows(Displayed, table)
    BY DEF RefreshSettles
  <2>1. showCount \in Nat /\ table \in Seq(Entry) /\ Displayed \in Seq(Entry)
    BY DisplayedRows DEF Inv, TypeOK
  <2>2. CASE capture = "flow"
    BY <2>1, <2>2, RefreshTwice
  <2>3. CASE capture # "flow"
    BY <2>3 DEF Rows, WithMissing
  <2> QED BY <2>2, <2>3
<1> QED BY <1>1, InvHolds, PTL
================================================================================
