--------------------------- MODULE InductionFacts ---------------------------
(* Induction over the natural numbers, stated on sets and functions, so that *)
(* it can be cited for any of them.                                          *)
EXTENDS Integers, SequencesExt, WellFoundedInduction, SequenceTheorems, TLAPS

Below == {ss \in Nat \X Nat : ss[1] < ss[2]}

LEMMA BelowIsWellFounded == IsWellFoundedOn(Below, Nat)
  BY NatLessThanWellFounded DEF OpToRel, Below

(* A set of numbers that is not empty has a least element. *)
LEMMA LeastNatural ==
  ASSUME NEW T, T \subseteq Nat, T # {}
  PROVE  \E x \in T : \A y \in T : x <= y
<1>1. PICK x \in T : \A y \in T : ~(<<y, x>> \in Below)
  BY BelowIsWellFounded, WFMin
<1>2. ASSUME NEW y \in T, y < x PROVE FALSE
  <2>1. <<y, x>> \in Nat \X Nat
    OBVIOUS
  <2>2. <<y, x>>[1] < <<y, x>>[2]
    BY <1>2
  <2>3. <<y, x>> \in Below
    BY <2>1, <2>2 DEF Below
  <2> QED BY <1>1, <2>3
<1>3. \A y \in T : x <= y
  BY <1>2
<1> QED BY <1>3

(* Induction: what holds of 0, and of n + 1 when it holds of n, holds of all. *)
LEMMA SetInduction ==
  ASSUME NEW T, 0 \in T, \A n \in Nat : n \in T => n + 1 \in T
  PROVE  Nat \subseteq T
<1> SUFFICES ASSUME Nat \ T # {} PROVE FALSE
  OBVIOUS
<1>1. PICK x \in Nat \ T : \A y \in Nat \ T : x <= y
  BY LeastNatural
<1>2. x # 0 /\ x - 1 \in Nat
  BY <1>1
<1>3. x - 1 \in T
  BY <1>1, <1>2
<1>4. x - 1 + 1 = x
  BY <1>1
<1> QED BY <1>1, <1>2, <1>3, <1>4

(* A set of numbers up to n that is not empty has a greatest element. *)
LEMMA GreatestNatural ==
  ASSUME NEW n \in Nat, NEW T, T \subseteq 0..n, T # {}
  PROVE  \E x \in T : \A y \in T : x >= y
<1> DEFINE D == {n - y : y \in T}
<1>1. D \subseteq Nat /\ D # {}
  <2>1. \A y \in T : n - y \in Nat
    OBVIOUS
  <2>2. \E y \in T : n - y \in D
    OBVIOUS
  <2> QED BY <2>1, <2>2
<1>2. PICK d \in D : \A e \in D : d <= e
  BY <1>1, LeastNatural
<1>3. PICK x \in T : d = n - x
  BY <1>2
<1>4. ASSUME NEW y \in T PROVE x >= y
  <2>1. n - y \in D
    OBVIOUS
  <2> HIDE DEF D
  <2>2. n - x <= n - y
    BY <1>2, <1>3, <2>1
  <2>3. x \in Int /\ y \in Int
    OBVIOUS
  <2> QED BY <2>2, <2>3
<1> QED BY <1>4

(* A recursive function exists: from b by next[1], next[2], ... next[n].     *)
Iterates(f, b, next, n) == f = [i \in 0..n |-> IF i = 0 THEN b ELSE next[i][f[i - 1]]]

LEMMA IterationExists ==
  ASSUME NEW S, NEW b \in S, NEW n \in Nat, NEW next \in [1..n -> [S -> S]]
  PROVE  \E f \in [0..n -> S] : Iterates(f, b, next, n)
<1> DEFINE T == {m \in Nat : m <= n => \E f \in [0..m -> S] : Iterates(f, b, next, m)}
<1>1. 0 \in T
  <2> DEFINE f == [i \in 0..0 |-> b]
  <2>1. f \in [0..0 -> S] /\ f = [i \in 0..0 |-> IF i = 0 THEN b ELSE next[i][f[i - 1]]]
    OBVIOUS
  <2> HIDE DEF f
  <2> QED BY <2>1 DEF Iterates
<1>2. ASSUME NEW m \in Nat, m \in T PROVE m + 1 \in T
  <2> SUFFICES ASSUME m + 1 <= n
               PROVE  \E f \in [0..(m + 1) -> S] : Iterates(f, b, next, m + 1)
    <3>1. m + 1 \in Nat
      OBVIOUS
    <3> QED BY <3>1, Zenon
  <2>1. PICK f \in [0..m -> S] : Iterates(f, b, next, m)
    <3>1. m <= n
      OBVIOUS
    <3> QED BY <1>2, <3>1
  <2> DEFINE g == [i \in 0..(m + 1) |-> IF i = m + 1 THEN next[m + 1][f[m]] ELSE f[i]]
  <2>2. f[m] \in S /\ m + 1 \in 1..n
    OBVIOUS
  <2>3. next[m + 1][f[m]] \in S
    BY <2>2
  <2>4. \A i \in 0..(m + 1) : i # m + 1 => i \in 0..m
    OBVIOUS
  <2>5. g \in [0..(m + 1) -> S]
    BY <2>3, <2>4
  <2>6. ASSUME NEW i \in 0..(m + 1)
        PROVE  g[i] = IF i = 0 THEN b ELSE next[i][g[i - 1]]
    <3>1. CASE i = m + 1
      <4>1. g[i] = next[m + 1][f[m]] /\ i # 0 /\ i - 1 = m /\ m # m + 1 /\ m \in 0..(m + 1)
        BY <3>1
      <4>2. g[m] = f[m]
        BY <4>1
      <4> HIDE DEF g
      <4> QED BY <3>1, <4>1, <4>2
    <3>2. CASE i # m + 1
      <4>1. i \in 0..m /\ g[i] = f[i]
        BY <2>4, <3>2
      <4>2. f[i] = IF i = 0 THEN b ELSE next[i][f[i - 1]]
        BY <2>1, <4>1 DEF Iterates
      <4>3. i # 0 => i - 1 \in 0..(m + 1) /\ i - 1 # m + 1
        BY <4>1
      <4>4. i # 0 => g[i - 1] = f[i - 1]
        BY <4>3
      <4> HIDE DEF g
      <4> QED BY <4>1, <4>2, <4>4
    <3> QED BY <3>1, <3>2
  <2>7. g = [i \in 0..(m + 1) |-> IF i = 0 THEN b ELSE next[i][g[i - 1]]]
    <3>1. g = [i \in 0..(m + 1) |-> g[i]]
      BY <2>5
    <3> HIDE DEF g
    <3> QED BY <2>6, <3>1
  <2> HIDE DEF g
  <2> QED BY <2>5, <2>7 DEF Iterates
<1>3. n \in T
  <2> HIDE DEF T
  <2> QED BY <1>1, <1>2, SetInduction
<1> QED BY <1>3

(* Putting sequences behind each other, one at a time. *)
Flattens(g, ss) ==
  g = [i \in 0..Len(ss) |-> IF i = 0 THEN <<>> ELSE g[i - 1] \o ss[i]]

LEMMA FlattensExists ==
  ASSUME NEW A, NEW ss \in Seq(Seq(A))
  PROVE  \E g \in [0..Len(ss) -> Seq(A)] : Flattens(g, ss)
<1> DEFINE n == Len(ss)
           next == [i \in 1..n |-> [s \in Seq(A) |-> s \o ss[i]]]
<1>1. n \in Nat /\ <<>> \in Seq(A)
  OBVIOUS
<1>2. next \in [1..n -> [Seq(A) -> Seq(A)]]
  <2>1. ASSUME NEW i \in 1..n, NEW s \in Seq(A) PROVE s \o ss[i] \in Seq(A)
    <3>1. ss[i] \in Seq(A)
      BY ElementOfSeq
    <3> QED BY <3>1, ConcatProperties
  <2> QED BY <2>1
<1>3. PICK g \in [0..n -> Seq(A)] : Iterates(g, <<>>, next, n)
  <2> HIDE DEF next, n
  <2> QED BY <1>1, <1>2, IterationExists
<1>4. ASSUME NEW i \in 0..n, i # 0 PROVE next[i][g[i - 1]] = g[i - 1] \o ss[i]
  <2>1. i \in 1..n /\ i - 1 \in 0..n
    BY <1>1, <1>4
  <2>2. g[i - 1] \in Seq(A)
    BY <1>3, <2>1, Zenon
  <2> QED BY <2>1, <2>2, Zenon
<1> HIDE DEF next
<1>5. [i \in 0..n |-> IF i = 0 THEN <<>> ELSE next[i][g[i - 1]]]
      = [i \in 0..n |-> IF i = 0 THEN <<>> ELSE g[i - 1] \o ss[i]]
  BY <1>4, Zenon
<1>6. Flattens(g, ss)
  BY <1>3, <1>5, Zenon DEF Iterates, Flattens
<1> QED BY <1>3, <1>6, Zenon

LEMMA FlattensStep ==
  ASSUME NEW ss, Len(ss) \in Nat, NEW g, Flattens(g, ss)
  PROVE  /\ g[0] = <<>>
         /\ \A i \in 1..Len(ss) : g[i] = g[i - 1] \o ss[i]
<1>1. \A i \in 0..Len(ss) : g[i] = IF i = 0 THEN <<>> ELSE g[i - 1] \o ss[i]
  BY Zenon DEF Flattens
<1>2. 0 \in 0..Len(ss) /\ \A i \in 1..Len(ss) : i \in 0..Len(ss) /\ i # 0
  OBVIOUS
<1> QED BY <1>1, <1>2, Zenon

LEMMA FlattenIs ==
  ASSUME NEW A, NEW ss \in Seq(Seq(A))
  PROVE  \E g \in [0..Len(ss) -> Seq(A)] : Flattens(g, ss) /\ FlattenSeq(ss) = g[Len(ss)]
<1> DEFINE n == Len(ss)
           IsRec(f) == f = [i \in 1..n |-> IF i = 1 THEN ss[i] ELSE f[i - 1] \o ss[i]]
<1>1. PICK g \in [0..n -> Seq(A)] : Flattens(g, ss)
  BY FlattensExists
<1>2. n \in Nat
  OBVIOUS
<1>3. CASE n = 0
  <2>1. ss = <<>>
    BY <1>3
  <2>2. FlattenSeq(ss) = <<>>
    BY <1>3, <2>1 DEF FlattenSeq
  <2>3. g[0] = <<>>
    BY <1>1, <1>2, FlattensStep
  <2> QED BY <1>1, <1>3, <2>2, <2>3
<1>4. CASE n # 0
  <2> DEFINE f == CHOOSE h : IsRec(h)
             h == [i \in 1..n |-> g[i]]
  <2>1. \A i \in 1..n : ss[i] \in Seq(A) /\ (i # 1 => i - 1 \in 1..n)
    BY <1>2, ElementOfSeq
  <2>2. g[0] = <<>> /\ \A i \in 1..n : g[i] = g[i - 1] \o ss[i]
    BY <1>1, <1>2, FlattensStep
  <2>3. IsRec(h)
    <3>1. ASSUME NEW i \in 1..n
          PROVE  g[i] = IF i = 1 THEN ss[i] ELSE h[i - 1] \o ss[i]
      <4>1. CASE i = 1
        <5>1. i - 1 = 0
          BY <4>1
        <5>2. g[i] = <<>> \o ss[i] /\ ss[i] \in Seq(A)
          BY <2>1, <2>2, <5>1, Zenon
        <5> QED BY <4>1, <5>2, ConcatEmptySeq
      <4>2. CASE i # 1
        <5>1. h[i - 1] = g[i - 1]
          BY <2>1, <4>2
        <5> HIDE DEF h
        <5> QED BY <2>2, <4>2, <5>1
      <4> QED BY <4>1, <4>2
    <3> QED BY <3>1, Zenon
  <2>4. IsRec(f)
    BY <2>3, Zenon
  <2>5. FlattenSeq(ss) = f[n]
    BY <1>4, Zenon DEF FlattenSeq
  <2> HIDE DEF f
  <2>6. \A i \in 1..n : f[i] = IF i = 1 THEN ss[i] ELSE f[i - 1] \o ss[i]
    BY <2>4, Zenon
  <2> DEFINE T == {k \in Nat : k + 1 <= n => f[k + 1] = g[k + 1]}
  <2>7. 0 \in T
    <3>1. 1 \in 1..n /\ 1 - 1 = 0
      BY <1>2, <1>4
    <3>2. f[1] = ss[1] /\ g[1] = g[1 - 1] \o ss[1] /\ ss[1] \in Seq(A)
      BY <2>1, <2>2, <2>6, <3>1, Zenon
    <3>3. g[1] = <<>> \o ss[1]
      BY <2>2, <3>1, <3>2, Zenon
    <3>4. f[1] = g[1]
      BY <3>2, <3>3, ConcatEmptySeq
    <3> QED BY <3>4
  <2>8. ASSUME NEW k \in Nat, k \in T PROVE k + 1 \in T
    <3> SUFFICES ASSUME k + 1 + 1 <= n PROVE f[k + 1 + 1] = g[k + 1 + 1]
      OBVIOUS
    <3> DEFINE m == k + 1 + 1
    <3>1. m \in 1..n /\ m # 1 /\ m - 1 = k + 1 /\ k + 1 <= n
      BY <1>2
    <3>2. f[k + 1] = g[k + 1]
      BY <2>8, <3>1
    <3> HIDE DEF m
    <3>3. f[m] = f[m - 1] \o ss[m] /\ g[m] = g[m - 1] \o ss[m]
      BY <2>2, <2>6, <3>1, Zenon
    <3>4. f[m - 1] = g[m - 1]
      BY <3>1, <3>2
    <3>5. f[m] = g[m]
      BY <3>3, <3>4, Zenon
    <3> QED BY <3>5 DEF m
  <2>9. Nat \subseteq T
    <3> HIDE DEF T
    <3> QED BY <2>7, <2>8, SetInduction
  <2>10. n - 1 \in Nat /\ n - 1 + 1 = n
    BY <1>2, <1>4
  <2>11. n - 1 + 1 <= n => f[n - 1 + 1] = g[n - 1 + 1]
    BY <2>9, <2>10, Zenon
  <2>12. f[n] = g[n]
    BY <1>2, <2>10, <2>11
  <2> QED BY <1>1, <2>5, <2>12
<1> QED BY <1>3, <1>4
=============================================================================
