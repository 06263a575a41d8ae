----------------------------- MODULE SumsProofs -----------------------------
(***************************************************************************)
(* Facts about the finite sums of module Sums.                              *)
(***************************************************************************)
EXTENDS Sums, WellFoundedInduction, TLAPS

\* A nonempty set of naturals has a least element.
LEMMA LeastNat ==
  ASSUME NEW T, T \subseteq Nat, T # {}
  PROVE  \E x \in T : \A y \in T : x <= y
<1> DEFINE R == OpToRel(<, Nat)
<1>1. IsWellFoundedOn(R, Nat)
  BY NatLessThanWellFounded
<1>2. \A x, y \in Nat : x < y => <<x, y>> \in R
  BY Zenon DEF OpToRel
<1> HIDE DEF R
<1>3. PICK x \in T : \A y \in T : ~ (<<y, x>> \in R)
  BY <1>1, WFMin, Zenon
<1>4. x \in Nat /\ \A y \in T : y \in Nat /\ ~ (y < x)
  BY <1>2, <1>3
<1>5. \A y \in T : x <= y
  BY <1>4
<1> QED
  BY <1>5

\* Induction over a set of naturals.
LEMMA NatSetInduction ==
  ASSUME NEW S, 0 \in S, \A n \in Nat : n \in S => n + 1 \in S
  PROVE  Nat \subseteq S
<1> DEFINE T == Nat \ S
<1>1. SUFFICES ASSUME T # {} PROVE FALSE
  BY <1>1
<1>2. PICK x \in T : \A y \in T : x <= y
  <2>1. T \subseteq Nat
    OBVIOUS
  <2> QED
    BY <1>1, <2>1, LeastNat
<1>3. x \in Nat /\ x # 0
  BY <1>2
<1>4. x - 1 \in Nat /\ x - 1 \notin T
  BY <1>2, <1>3
<1>5. x - 1 \in S
  BY <1>4
<1>6. (x - 1) + 1 \in S
  BY <1>4, <1>5
<1> QED
  BY <1>2, <1>3, <1>6

-----------------------------------------------------------------------------
\* The recursive equation of PartialSums has a solution, so that the CHOOSE
\* behind the recursive definition satisfies it.
LEMMA PartialSumsEquation ==
  ASSUME NEW f
  PROVE  PartialSums(f) =
           [i \in Nat |-> IF i = 0 THEN 0 ELSE PartialSums(f)[i - 1] + f[i]]
<1> DEFINE Seg(n, h) ==
      h = [i \in 0 .. n |-> IF i = 0 THEN 0 ELSE h[i - 1] + f[i]]
<1>1. \A n \in Nat : \E h : Seg(n, h)
  <2> DEFINE S == {n \in Nat : \E h : Seg(n, h)}
  <2>1. 0 \in S
    <3>1. Seg(0, [i \in 0 .. 0 |-> 0])
      OBVIOUS
    <3> QED
      BY <3>1
  <2>2. ASSUME NEW n \in Nat, n \in S PROVE n + 1 \in S
    <3>1. PICK h : Seg(n, h)
      BY <2>2
    <3> DEFINE k == [i \in 0 .. n + 1 |->
                       IF i <= n THEN h[i] ELSE h[n] + f[n + 1]]
    <3>2. \A i \in 0 .. n : h[i] = IF i = 0 THEN 0 ELSE h[i - 1] + f[i]
      BY <3>1
    <3>3. ASSUME NEW i \in 0 .. n + 1
          PROVE  k[i] = IF i = 0 THEN 0 ELSE k[i - 1] + f[i]
      <4>1. CASE i = n + 1
        BY <4>1
      <4>2. CASE i \in 0 .. n
        BY <3>2, <4>2
      <4> QED
        BY <4>1, <4>2
    <3>4. Seg(n + 1, k)
      BY <3>3
    <3>5. \E h1 : Seg(n + 1, h1)
      <4> HIDE DEF Seg, k
      <4> QED
        BY <3>4
    <3> QED
      BY <3>5
  <2> QED
    BY <2>1, <2>2, NatSetInduction
<1>2. ASSUME NEW n \in Nat, NEW m \in Nat, NEW h, NEW k, Seg(n, h), Seg(m, k)
      PROVE  \A i \in Nat : i <= n /\ i <= m => h[i] = k[i]
  <2> DEFINE S == {i \in Nat : i <= n /\ i <= m => h[i] = k[i]}
  <2>1. /\ \A i \in 0 .. n : h[i] = IF i = 0 THEN 0 ELSE h[i - 1] + f[i]
        /\ \A i \in 0 .. m : k[i] = IF i = 0 THEN 0 ELSE k[i - 1] + f[i]
    BY <1>2
  <2> HIDE DEF Seg
  <2>2. 0 \in S
    BY <2>1
  <2>3. ASSUME NEW i \in Nat, i \in S PROVE i + 1 \in S
    BY <2>1, <2>3
  <2> QED
    BY <2>2, <2>3, NatSetInduction
<1> DEFINE H(n) == CHOOSE h : Seg(n, h)
           g == [n \in Nat |-> H(n)[n]]
<1>3. \A n \in Nat : Seg(n, H(n))
  BY <1>1
<1>4. ASSUME NEW n \in Nat
      PROVE  g[n] = IF n = 0 THEN 0 ELSE g[n - 1] + f[n]
  <2>1. \A i \in 0 .. n :
          H(n)[i] = IF i = 0 THEN 0 ELSE H(n)[i - 1] + f[i]
    BY <1>3
  <2>2. CASE n = 0
    <3> HIDE DEF H
    <3> QED
      BY <2>1, <2>2
  <2>3. CASE n # 0
    <3>1. n - 1 \in Nat
      BY <2>3
    <3>2. Seg(n, H(n)) /\ Seg(n - 1, H(n - 1))
      BY <1>3, <3>1
    <3> HIDE DEF Seg, H
    <3>3. H(n)[n - 1] = H(n - 1)[n - 1]
      BY <1>2, <3>1, <3>2
    <3> QED
      BY <2>1, <2>3, <3>1, <3>3
  <2> QED
    BY <2>2, <2>3
<1>5. \E s : s = [i \in Nat |-> IF i = 0 THEN 0 ELSE s[i - 1] + f[i]]
  <2> HIDE DEF g
  <2>1. g = [i \in Nat |-> IF i = 0 THEN 0 ELSE g[i - 1] + f[i]]
    <3>1. g = [i \in Nat |-> g[i]]
      BY DEF g
    <3> QED
      BY <1>4, <3>1
  <2> QED
    BY <2>1
<1> QED
  BY <1>5 DEF PartialSums

\* The two equations that all the other facts rest on.
LEMMA SumToEquations ==
  ASSUME NEW f
  PROVE  /\ SumTo(f, 0) = 0
         /\ \A n \in Nat : SumTo(f, n + 1) = SumTo(f, n) + f[n + 1]
<1> DEFINE s == PartialSums(f)
<1>1. \A i \in Nat : s[i] = IF i = 0 THEN 0 ELSE s[i - 1] + f[i]
  BY PartialSumsEquation
<1> HIDE DEF s
<1>2. s[0] = 0
  BY <1>1
<1>3. ASSUME NEW n \in Nat PROVE s[n + 1] = s[n] + f[n + 1]
  BY <1>1
<1> QED
  BY <1>2, <1>3 DEF SumTo, s

-----------------------------------------------------------------------------
\* A sum depends only on the terms it adds.
LEMMA SumToSameTerms ==
  ASSUME NEW f, NEW g, NEW n \in Nat, \A i \in 1 .. n : f[i] = g[i]
  PROVE  SumTo(f, n) = SumTo(g, n)
<1> DEFINE S == {m \in Nat : m <= n => SumTo(f, m) = SumTo(g, m)}
<1>1. 0 \in S
  BY SumToEquations
<1>2. ASSUME NEW m \in Nat, m \in S PROVE m + 1 \in S
  <2>1. /\ SumTo(f, m + 1) = SumTo(f, m) + f[m + 1]
        /\ SumTo(g, m + 1) = SumTo(g, m) + g[m + 1]
    BY SumToEquations
  <2> QED
    BY <1>2, <2>1
<1>3. Nat \subseteq S
  BY <1>1, <1>2, NatSetInduction
<1> QED
  BY <1>3

\* Sums of integers are integers, sums of naturals are naturals.
LEMMA SumToInt ==
  ASSUME NEW f, NEW n \in Nat, \A i \in 1 .. n : f[i] \in Int
  PROVE  SumTo(f, n) \in Int
<1> DEFINE S == {m \in Nat : m <= n => SumTo(f, m) \in Int}
<1>1. 0 \in S
  BY SumToEquations
<1>2. ASSUME NEW m \in Nat, m \in S PROVE m + 1 \in S
  <2>1. SumTo(f, m + 1) = SumTo(f, m) + f[m + 1]
    BY SumToEquations
  <2> QED
    BY <1>2, <2>1
<1>3. Nat \subseteq S
  BY <1>1, <1>2, NatSetInduction
<1> QED
  BY <1>3

LEMMA SumToNat ==
  ASSUME NEW f, NEW n \in Nat, \A i \in 1 .. n : f[i] \in Nat
  PROVE  SumTo(f, n) \in Nat
<1> DEFINE S == {m \in Nat : m <= n => SumTo(f, m) \in Nat}
<1>1. 0 \in S
  BY SumToEquations
<1>2. ASSUME NEW m \in Nat, m \in S PROVE m + 1 \in S
  <2>1. SumTo(f, m + 1) = SumTo(f, m) + f[m + 1]
    BY SumToEquations
  <2> QED
    BY <1>2, <2>1
<1>3. Nat \subseteq S
  BY <1>1, <1>2, NatSetInduction
<1> QED
  BY <1>3

\* Changing one term changes the sum by as much.
LEMMA SumToUpdate ==
  ASSUME NEW f, NEW g, NEW n \in Nat, NEW k \in 1 .. n,
         \A i \in 1 .. n : f[i] \in Int /\ g[i] \in Int,
         \A i \in 1 .. n : i # k => g[i] = f[i]
  PROVE  SumTo(g, n) = SumTo(f, n) - f[k] + g[k]
<1> DEFINE S == {m \in Nat : m <= n =>
                   /\ SumTo(f, m) \in Int
                   /\ SumTo(g, m) = IF m < k THEN SumTo(f, m)
                                    ELSE SumTo(f, m) - f[k] + g[k]}
<1>1. 0 \in S
  BY SumToEquations
<1>2. ASSUME NEW m \in Nat, m \in S PROVE m + 1 \in S
  <2>1. /\ SumTo(f, m + 1) = SumTo(f, m) + f[m + 1]
        /\ SumTo(g, m + 1) = SumTo(g, m) + g[m + 1]
    BY SumToEquations
  <2>2. CASE m + 1 <= n /\ m + 1 = k
    BY <1>2, <2>1, <2>2
  <2>3. CASE m + 1 <= n /\ m + 1 # k
    BY <1>2, <2>1, <2>3
  <2>4. CASE ~ (m + 1 <= n)
    BY <2>4
  <2> QED
    BY <2>2, <2>3, <2>4
<1>3. Nat \subseteq S
  BY <1>1, <1>2, NatSetInduction
<1> QED
  BY <1>3

\* Adding a term at the end.
LEMMA SumToAppend ==
  ASSUME NEW f, NEW g, NEW n \in Nat, \A i \in 1 .. n : f[i] = g[i]
  PROVE  SumTo(g, n + 1) = SumTo(f, n) + g[n + 1]
<1>1. SumTo(f, n) = SumTo(g, n)
  BY SumToSameTerms
<1> QED
  BY <1>1, SumToEquations

\* Taking the first term off.
LEMMA SumToTail ==
  ASSUME NEW f, NEW g, NEW n \in Nat,
         \A i \in 1 .. n + 1 : f[i] \in Int,
         \A i \in 1 .. n : g[i] = f[i + 1]
  PROVE  SumTo(f, n + 1) = f[1] + SumTo(g, n)
<1> DEFINE S == {m \in Nat : m <= n => /\ SumTo(g, m) \in Int
                                      /\ SumTo(f, m + 1) = f[1] + SumTo(g, m)}
<1>1. 0 \in S
  <2>1. SumTo(f, 0 + 1) = SumTo(f, 0) + f[0 + 1]
    BY SumToEquations
  <2> QED
    BY <2>1, SumToEquations
<1>2. ASSUME NEW m \in Nat, m \in S PROVE m + 1 \in S
  <2>1. /\ SumTo(g, m + 1) = SumTo(g, m) + g[m + 1]
        /\ SumTo(f, (m + 1) + 1) = SumTo(f, m + 1) + f[(m + 1) + 1]
    BY SumToEquations
  <2> QED
    BY <1>2, <2>1
<1>3. Nat \subseteq S
  BY <1>1, <1>2, NatSetInduction
<1> QED
  BY <1>3

\* A sum of zeros, and a term of a sum of naturals.
LEMMA SumToZeros ==
  ASSUME NEW f, NEW n \in Nat, \A i \in 1 .. n : f[i] = 0
  PROVE  SumTo(f, n) = 0
<1> DEFINE S == {m \in Nat : m <= n => SumTo(f, m) = 0}
<1>1. 0 \in S
  BY SumToEquations
<1>2. ASSUME NEW m \in Nat, m \in S PROVE m + 1 \in S
  <2>1. SumTo(f, m + 1) = SumTo(f, m) + f[m + 1]
    BY SumToEquations
  <2> QED
    BY <1>2, <2>1
<1>3. Nat \subseteq S
  BY <1>1, <1>2, NatSetInduction
<1> QED
  BY <1>3

LEMMA SumToTerm ==
  ASSUME NEW f, NEW n \in Nat, NEW k \in 1 .. n, \A i \in 1 .. n : f[i] \in Nat
  PROVE  f[k] <= SumTo(f, n)
<1> DEFINE g == [i \in 1 .. n |-> IF i = k THEN 0 ELSE f[i]]
<1>1. \A i \in 1 .. n : g[i] \in Nat /\ g[i] \in Int /\ f[i] \in Int
  OBVIOUS
<1>2. g[k] = 0 /\ \A i \in 1 .. n : i # k => g[i] = f[i]
  OBVIOUS
<1> HIDE DEF g
<1>3. SumTo(g, n) = SumTo(f, n) - f[k] + g[k]
  BY <1>1, <1>2, SumToUpdate
<1>4. SumTo(g, n) \in Nat /\ SumTo(f, n) \in Nat
  BY <1>1, SumToNat
<1> QED
  BY <1>2, <1>3, <1>4

\* Changing two terms.
LEMMA SumToUpdateTwo ==
  ASSUME NEW f, NEW g, NEW n \in Nat,
         NEW j \in 1 .. n, NEW k \in 1 .. n, j # k,
         \A i \in 1 .. n : f[i] \in Int /\ g[i] \in Int,
         \A i \in 1 .. n : i # j /\ i # k => g[i] = f[i]
  PROVE  SumTo(g, n) = SumTo(f, n) - f[j] + g[j] - f[k] + g[k]
<1> DEFINE h == [i \in 1 .. n |-> IF i = j THEN g[i] ELSE f[i]]
<1>1. /\ \A i \in 1 .. n : h[i] \in Int
      /\ h[j] = g[j] /\ h[k] = f[k]
      /\ \A i \in 1 .. n : (i # j => h[i] = f[i]) /\ (i # k => g[i] = h[i])
  OBVIOUS
<1> HIDE DEF h
<1>2. SumTo(h, n) = SumTo(f, n) - f[j] + h[j]
  BY <1>1, SumToUpdate
<1>3. SumTo(g, n) = SumTo(h, n) - h[k] + g[k]
  BY <1>1, SumToUpdate
<1>4. SumTo(f, n) \in Int /\ SumTo(g, n) \in Int /\ SumTo(h, n) \in Int
  BY <1>1, SumToInt
<1> QED
  BY <1>1, <1>2, <1>3, <1>4
=============================================================================
