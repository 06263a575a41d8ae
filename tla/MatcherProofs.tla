--------------------------- MODULE MatcherProofs ---------------------------
(***************************************************************************)
(* The safety invariants of Matcher, for all owners, prices, sizes and      *)
(* precisions and any number of orders.                                     *)
(*                                                                         *)
(* The inductive invariant IInv says that each list of the book holds       *)
(* orders exactly as they were last reported, every live one among them,    *)
(* sorted by price and age or by age alone, and that the last trade is the  *)
(* one the lists give.  What the trade promises then follows from the       *)
(* lists: the first in a sorted list is the best, and the loops of          *)
(* tryMatchOrder stop at the first pair that matches.                       *)
(***************************************************************************)
EXTENDS Matcher, SumsProofs, TLAPS

-----------------------------------------------------------------------------
(* Lists.                                                                  *)

Order == [id : Nat, type_ : {TYPE_LIMIT, TYPE_MARKET},
          status : {"live", STATUS_CANCEL}, pid : Pids,
          flag : {FLAG_BUY, FLAG_SELL}, price : Nat, b_token_amount : Nat,
          a_token_amount : Nat, already_deal_amount : Nat]

\* The recursive equation of KeptOfFirst has a solution.
LEMMA KeptEquation ==
  ASSUME NEW list, Len(list) \in Nat, NEW os
  PROVE  KeptOfFirst(list, os) =
           [n \in 0 .. Len(list) |->
              IF n = 0 THEN <<>>
              ELSE IF list[n] \in os
                   THEN Append(KeptOfFirst(list, os)[n - 1], list[n])
                   ELSE KeptOfFirst(list, os)[n - 1]]
<1> DEFINE Seg(m, h) ==
      h = [n \in 0 .. m |-> IF n = 0 THEN <<>>
                            ELSE IF list[n] \in os THEN Append(h[n - 1], list[n])
                            ELSE h[n - 1]]
<1>1. \A m \in Nat : \E h : Seg(m, h)
  <2> DEFINE S == {m \in Nat : \E h : Seg(m, h)}
  <2>1. 0 \in S
    <3>1. Seg(0, [n \in 0 .. 0 |-> <<>>])
      OBVIOUS
    <3> QED
      BY <3>1
  <2>2. ASSUME NEW m \in Nat, m \in S PROVE m + 1 \in S
    <3>1. PICK h : Seg(m, h)
      BY <2>2
    <3> DEFINE last == IF list[m + 1] \in os THEN Append(h[m], list[m + 1])
                       ELSE h[m]
               g == [n \in 0 .. m + 1 |-> IF n <= m THEN h[n] ELSE last]
    <3>2. \A n \in 0 .. m :
            h[n] = IF n = 0 THEN <<>>
                   ELSE IF list[n] \in os THEN Append(h[n - 1], list[n])
                   ELSE h[n - 1]
      BY <3>1
    <3>3. ASSUME NEW n \in 0 .. m + 1
          PROVE  g[n] = IF n = 0 THEN <<>>
                        ELSE IF list[n] \in os THEN Append(g[n - 1], list[n])
                        ELSE g[n - 1]
      <4>1. CASE n = m + 1
        BY <4>1
      <4>2. CASE n \in 0 .. m
        BY <3>2, <4>2
      <4> QED
        BY <4>1, <4>2
    <3>4. Seg(m + 1, g)
      BY <3>3
    <3>5. \E h1 : Seg(m + 1, h1)
      <4> HIDE DEF Seg, g
      <4> QED
        BY <3>4
    <3> QED
      BY <3>5
  <2> QED
    BY <2>1, <2>2, NatSetInduction
<1>2. \E h : Seg(Len(list), h)
  <2> HIDE DEF Seg
  <2> QED
    BY <1>1
<1>3. KeptOfFirst(list, os) = CHOOSE h : Seg(Len(list), h)
  BY DEF KeptOfFirst
<1>4. Seg(Len(list), CHOOSE h : Seg(Len(list), h))
  <2> HIDE DEF Seg
  <2> QED
    BY <1>2
<1> QED
  BY <1>3, <1>4

\* The orders of kept are those among the first n of a list that are in os, in
\* the order of the list.
KeptInOrder(kept, list, os, n) ==
  /\ \A k \in 1 .. Len(kept) :
       kept[k] \in os /\ \E j \in 1 .. n : kept[k] = list[j]
  /\ \A j \in 1 .. n :
       list[j] \in os => \E k \in 1 .. Len(kept) : kept[k] = list[j]
  /\ \A k, l \in 1 .. Len(kept) : k < l =>
       \E i, j \in 1 .. n : i < j /\ kept[k] = list[i] /\ kept[l] = list[j]

LEMMA KeptProperties ==
  ASSUME NEW T, NEW list \in Seq(T), NEW os
  PROVE  /\ Kept(list, os) \in Seq(T)
         /\ KeptInOrder(Kept(list, os), list, os, Len(list))
<1> DEFINE f == KeptOfFirst(list, os)
           P(n, s) == s \in Seq(T) /\ KeptInOrder(s, list, os, n)
           S == {n \in Nat : n <= Len(list) => P(n, f[n])}
<1>0. Len(list) \in Nat /\ \A n \in 1 .. Len(list) : list[n] \in T
  OBVIOUS
<1>1. /\ f[0] = <<>>
      /\ \A n \in 0 .. Len(list) : n + 1 <= Len(list) =>
           f[n + 1] = IF list[n + 1] \in os THEN Append(f[n], list[n + 1])
                      ELSE f[n]
  <2>1. f = [n \in 0 .. Len(list) |->
               IF n = 0 THEN <<>>
               ELSE IF list[n] \in os THEN Append(f[n - 1], list[n])
               ELSE f[n - 1]]
    <3>1. KeptOfFirst(list, os) =
            [n \in 0 .. Len(list) |->
               IF n = 0 THEN <<>>
               ELSE IF list[n] \in os
                    THEN Append(KeptOfFirst(list, os)[n - 1], list[n])
                    ELSE KeptOfFirst(list, os)[n - 1]]
      <4>1. Len(list) \in Nat
        BY <1>0
      <4> QED
        BY <4>1, KeptEquation
    <3> QED
      BY <3>1
  <2> HIDE DEF f
  <2>2. \A n \in 0 .. Len(list) :
          f[n] = IF n = 0 THEN <<>>
                 ELSE IF list[n] \in os THEN Append(f[n - 1], list[n])
                 ELSE f[n - 1]
    BY <2>1, Zenon
  <2>3. f[0] = <<>>
    BY <1>0, <2>2
  <2>4. ASSUME NEW n \in 0 .. Len(list), n + 1 <= Len(list)
        PROVE  f[n + 1] = IF list[n + 1] \in os THEN Append(f[n], list[n + 1])
                          ELSE f[n]
    <3>1. n + 1 \in 0 .. Len(list) /\ n + 1 # 0 /\ (n + 1) - 1 = n
      BY <1>0, <2>4
    <3> QED
      BY <2>2, <3>1
  <2> QED
    BY <2>3, <2>4
<1> HIDE DEF f
<1>2. 0 \in S
  <2>1. P(0, <<>>)
    <3>1. <<>> \in Seq(T) /\ Len(<<>>) = 0
      OBVIOUS
    <3> QED
      BY <3>1 DEF KeptInOrder
  <2> HIDE DEF P
  <2> QED
    BY <1>1, <2>1
<1>3. ASSUME NEW n \in Nat, n \in S PROVE n + 1 \in S
  <2>1. SUFFICES ASSUME n + 1 <= Len(list) PROVE P(n + 1, f[n + 1])
    OBVIOUS
  <2>2. P(n, f[n]) /\ n \in 0 .. Len(list) /\ n + 1 \in 1 .. Len(list)
    <3> HIDE DEF P
    <3> QED
      BY <1>0, <1>3, <2>1
  <2> DEFINE s == f[n]
             t == f[n + 1]
  <2>3. /\ s \in Seq(T) /\ Len(s) \in Nat
        /\ list[n + 1] \in T
    BY <1>0, <2>2
  <2>4. CASE list[n + 1] \in os
    <3>1. t = Append(s, list[n + 1])
      BY <1>1, <2>1, <2>2, <2>4
    <3> HIDE DEF s, t
    <3>2. /\ t \in Seq(T) /\ Len(t) = Len(s) + 1 /\ t[Len(s) + 1] = list[n + 1]
          /\ \A k \in 1 .. Len(s) : t[k] = s[k]
      BY <2>3, <3>1
    <3>3. /\ \A k \in 1 .. Len(s) :
               s[k] \in os /\ \E j \in 1 .. n : s[k] = list[j]
          /\ \A j \in 1 .. n :
               list[j] \in os => \E k \in 1 .. Len(s) : s[k] = list[j]
          /\ \A k, l \in 1 .. Len(s) : k < l =>
               \E i, j \in 1 .. n : i < j /\ s[k] = list[i] /\ s[l] = list[j]
      BY <2>2 DEF s, KeptInOrder
    <3>4. ASSUME NEW k \in 1 .. Len(t)
          PROVE  t[k] \in os /\ \E j \in 1 .. n + 1 : t[k] = list[j]
      <4>1. CASE k \in 1 .. Len(s)
        <5>1. PICK j \in 1 .. n : s[k] = list[j]
          BY <3>3, <4>1
        <5>2. j \in 1 .. n + 1 /\ t[k] = list[j] /\ t[k] \in os
          BY <3>2, <3>3, <4>1, <5>1
        <5> QED
          BY <5>2
      <4>2. CASE k = Len(s) + 1
        BY <2>4, <3>2, <4>2
      <4> QED
        BY <2>3, <3>2, <4>1, <4>2
    <3>5. ASSUME NEW j \in 1 .. n + 1, list[j] \in os
          PROVE  \E k \in 1 .. Len(t) : t[k] = list[j]
      <4>1. CASE j = n + 1
        BY <2>3, <3>2, <4>1
      <4>2. CASE j \in 1 .. n
        <5>1. PICK k \in 1 .. Len(s) : s[k] = list[j]
          BY <3>3, <3>5, <4>2
        <5> QED
          BY <2>3, <3>2, <5>1
      <4> QED
        BY <4>1, <4>2
    <3>6. ASSUME NEW k \in 1 .. Len(t), NEW l \in 1 .. Len(t), k < l
          PROVE  \E i, j \in 1 .. n + 1 :
                   i < j /\ t[k] = list[i] /\ t[l] = list[j]
      <4>1. CASE l \in 1 .. Len(s)
        <5>1. k \in 1 .. Len(s)
          BY <2>3, <3>6, <4>1
        <5>2. PICK i \in 1 .. n, j \in 1 .. n :
                i < j /\ s[k] = list[i] /\ s[l] = list[j]
          BY <3>3, <3>6, <4>1, <5>1
        <5>3. i \in 1 .. n + 1 /\ j \in 1 .. n + 1
          BY <5>2
        <5> QED
          BY <3>2, <4>1, <5>1, <5>2, <5>3
      <4>2. CASE l = Len(s) + 1
        <5>1. k \in 1 .. Len(s)
          BY <2>3, <3>2, <3>6, <4>2
        <5>2. PICK i \in 1 .. n : s[k] = list[i]
          BY <3>3, <5>1
        <5>3. i \in 1 .. n + 1 /\ n + 1 \in 1 .. n + 1 /\ i < n + 1
          BY <5>2
        <5> QED
          BY <3>2, <4>2, <5>1, <5>2, <5>3
      <4> QED
        BY <2>3, <3>2, <4>1, <4>2
    <3>7. P(n + 1, t)
      BY <3>2, <3>4, <3>5, <3>6 DEF KeptInOrder
    <3> HIDE DEF P
    <3> QED
      BY <3>7 DEF t
  <2>5. CASE list[n + 1] \notin os
    <3>1. t = s
      BY <1>1, <2>1, <2>2, <2>5
    <3> HIDE DEF t
    <3>2. P(n, s)
      BY <2>2
    <3> HIDE DEF s
    <3>3. \A j \in 1 .. n : j \in 1 .. n + 1
      OBVIOUS
    <3>4. \A j \in 1 .. n + 1 : list[j] \in os => j \in 1 .. n
      BY <2>5
    <3>5. P(n + 1, s)
      BY <3>2, <3>3, <3>4 DEF KeptInOrder
    <3> HIDE DEF P
    <3> QED
      BY <3>1, <3>5 DEF t
  <2> QED
    BY <2>4, <2>5
<1>4. Len(list) \in S
  <2> HIDE DEF S
  <2> QED
    BY <1>0, <1>2, <1>3, NatSetInduction
<1>5. P(Len(list), Kept(list, os))
  BY <1>0, <1>4 DEF Kept, f
<1> QED
  BY <1>5

-----------------------------------------------------------------------------
(* Keeping a list.                                                         *)

\* A list of limit orders is sorted; a list of market orders has each of them
\* once and keeps their age.  One that was filled and is then overfilled comes
\* back at the end.
BestFirst(list) ==
  \A k, l \in 1 .. Len(list) : k < l => Before(list[k], list[l])
Aged(list) ==
  \A k, l \in 1 .. Len(list) : k < l =>
    /\ list[k].id # list[l].id
    /\ Left(list[l]) > 0 => list[k].id < list[l].id

LEMMA OrderFields ==
  ASSUME NEW o \in Order
  PROVE  /\ o.id \in Nat /\ o.price \in Nat
         /\ o.b_token_amount \in Nat /\ o.a_token_amount \in Nat
         /\ o.already_deal_amount \in Nat
         /\ o.flag \in {FLAG_BUY, FLAG_SELL} /\ o.type_ \in {TYPE_LIMIT, TYPE_MARKET}
         /\ o.pid \in Pids
         /\ Left(o) \in Int
BY DEF Order, Left, get_amount

LEMMA OnListDef ==
  ASSUME NEW list \in Seq(Order)
  PROVE  /\ Len(list) \in Nat
         /\ OnList(list) = {list[k] : k \in 1 .. Len(list)}
         /\ OnList(list) \subseteq Order
BY DEF OnList

\* Price, then age: a total order on the bids, and on the asks.
LEMMA BeforeIsAnOrder ==
  ASSUME NEW x \in Order, NEW y \in Order, NEW z \in Order,
         x.flag = y.flag, y.flag = z.flag
  PROVE  /\ x.id # y.id => Before(x, y) \/ Before(y, x)
         /\ Before(x, y) => ~ Before(y, x)
         /\ ~ Before(x, x)
         /\ Before(x, y) /\ Before(y, z) => Before(x, z)
<1>1. /\ x.id \in Int /\ y.id \in Int /\ z.id \in Int
      /\ x.price \in Int /\ y.price \in Int /\ z.price \in Int
  BY OrderFields
<1> QED
  BY <1>1 DEF Before, BidBefore, AskBefore

LEMMA KeptList ==
  ASSUME NEW list \in Seq(Order), NEW os, NEW kept, kept = Kept(list, os)
  PROVE  /\ kept \in Seq(Order)
         /\ OnList(kept) = OnList(list) \cap os
         /\ BestFirst(list) => BestFirst(kept)
         /\ Aged(list) => Aged(kept)
<1>0. kept \in Seq(Order) /\ KeptInOrder(kept, list, os, Len(list))
  BY KeptProperties
<1>1. /\ \A k \in 1 .. Len(kept) :
           kept[k] \in os /\ \E j \in 1 .. Len(list) : kept[k] = list[j]
      /\ \A j \in 1 .. Len(list) :
           list[j] \in os => \E k \in 1 .. Len(kept) : kept[k] = list[j]
      /\ \A k, l \in 1 .. Len(kept) : k < l =>
           \E i, j \in 1 .. Len(list) :
             i < j /\ kept[k] = list[i] /\ kept[l] = list[j]
  BY <1>0 DEF KeptInOrder
<1>2. /\ OnList(kept) = {kept[k] : k \in 1 .. Len(kept)}
      /\ OnList(list) = {list[k] : k \in 1 .. Len(list)}
  <2>1. OnList(list) = {list[k] : k \in 1 .. Len(list)}
    BY OnListDef
  <2>2. OnList(kept) = {kept[k] : k \in 1 .. Len(kept)}
    BY <1>0, OnListDef
  <2> QED
    BY <2>1, <2>2
<1>3. OnList(kept) = OnList(list) \cap os
  <2>1. ASSUME NEW x \in OnList(kept) PROVE x \in OnList(list) /\ x \in os
    BY <1>1, <1>2
  <2>2. ASSUME NEW x \in OnList(list), x \in os PROVE x \in OnList(kept)
    <3>1. PICK j \in 1 .. Len(list) : x = list[j]
      BY <1>2
    <3>2. PICK k \in 1 .. Len(kept) : kept[k] = list[j]
      BY <1>1, <2>2, <3>1
    <3> QED
      BY <1>2, <3>1, <3>2
  <2> QED
    BY <2>1, <2>2
<1>4. ASSUME BestFirst(list), NEW k \in 1 .. Len(kept), NEW l \in 1 .. Len(kept),
             k < l
      PROVE  Before(kept[k], kept[l])
  <2>1. PICK i \in 1 .. Len(list), j \in 1 .. Len(list) :
          i < j /\ kept[k] = list[i] /\ kept[l] = list[j]
    BY <1>1, <1>4
  <2>2. Before(list[i], list[j])
    BY <1>4, <2>1 DEF BestFirst
  <2> QED
    BY <2>1, <2>2
<1>5. ASSUME Aged(list), NEW k \in 1 .. Len(kept), NEW l \in 1 .. Len(kept), k < l
      PROVE  /\ kept[k].id # kept[l].id
             /\ Left(kept[l]) > 0 => kept[k].id < kept[l].id
  <2>1. PICK i \in 1 .. Len(list), j \in 1 .. Len(list) :
          i < j /\ kept[k] = list[i] /\ kept[l] = list[j]
    BY <1>1, <1>5
  <2>2. /\ list[i].id # list[j].id
        /\ Left(list[j]) > 0 => list[i].id < list[j].id
    BY <1>5, <2>1 DEF Aged
  <2> QED
    BY <2>1, <2>2
<1> QED
  BY <1>0, <1>3, <1>4, <1>5 DEF BestFirst, Aged

LEMMA OthersList ==
  ASSUME NEW list \in Seq(Order), NEW o, NEW others, others = Others(list, o)
  PROVE  /\ others \in Seq(Order)
         /\ OnList(others) = {x \in OnList(list) : x.id # o.id}
         /\ BestFirst(list) => BestFirst(others)
<1> DEFINE os == {x \in OnList(list) : x.id # o.id}
<1>1. others = Kept(list, os)
  BY DEF Others
<1> HIDE DEF os
<1>2. /\ others \in Seq(Order)
      /\ OnList(others) = OnList(list) \cap os
      /\ BestFirst(list) => BestFirst(others)
  BY <1>1, KeptList
<1> QED
  BY <1>2 DEF os

\* The new version of an order goes to its place.
LEMMA SortedList ==
  ASSUME NEW list \in Seq(Order), NEW o \in Order, BestFirst(list),
         \A x \in OnList(list) : x.flag = o.flag,
         NEW sorted, sorted = Sorted(list, o)
  PROVE  /\ sorted \in Seq(Order)
         /\ OnList(sorted) = {x \in OnList(list) : x.id # o.id} \cup {o}
         /\ BestFirst(sorted)
<1> DEFINE others == Others(list, o)
           before == {x \in OnList(others) : Before(x, o)}
           lo == Kept(others, before)
           hi == Kept(others, OnList(others) \ before)
<1>1. /\ others \in Seq(Order) /\ BestFirst(others)
      /\ OnList(others) = {x \in OnList(list) : x.id # o.id}
  BY OthersList
<1>2. /\ lo \in Seq(Order) /\ BestFirst(lo)
      /\ OnList(lo) = OnList(others) \cap before
  BY <1>1, KeptList
<1>3. /\ hi \in Seq(Order) /\ BestFirst(hi)
      /\ OnList(hi) = OnList(others) \cap (OnList(others) \ before)
  BY <1>1, KeptList
<1>4. sorted = Append(lo, o) \o hi
  BY DEF Sorted
<1>5. /\ OnList(lo) = before /\ OnList(hi) = OnList(others) \ before
      /\ OnList(others) \subseteq Order
  BY <1>1, <1>2, <1>3, OnListDef
<1> DEFINE m == Len(lo)
           n == Len(hi)
<1> HIDE DEF others, lo, hi
<1>6. /\ m \in Nat /\ n \in Nat
      /\ OnList(lo) = {lo[k] : k \in 1 .. m}
      /\ OnList(hi) = {hi[k] : k \in 1 .. n}
  BY <1>2, <1>3, OnListDef
<1>7. /\ sorted \in Seq(Order) /\ Len(sorted) = m + 1 + n
      /\ \A k \in 1 .. m : sorted[k] = lo[k]
      /\ sorted[m + 1] = o
      /\ \A k \in 1 .. n : sorted[m + 1 + k] = hi[k]
  <2> DEFINE front == Append(lo, o)
  <2>1. /\ front \in Seq(Order) /\ Len(front) = m + 1
        /\ \A k \in 1 .. m : front[k] = lo[k]
        /\ front[m + 1] = o
    BY <1>2
  <2> HIDE DEF front
  <2>2. /\ front \o hi \in Seq(Order) /\ Len(front \o hi) = m + 1 + n
        /\ \A k \in 1 .. m + 1 : (front \o hi)[k] = front[k]
        /\ \A k \in 1 .. n : (front \o hi)[m + 1 + k] = hi[k]
    BY <1>3, <1>6, <2>1
  <2>3. sorted = front \o hi
    BY <1>4 DEF front
  <2> QED
    BY <1>6, <2>1, <2>2, <2>3
<1> HIDE DEF m, n
<1>8. OnList(sorted) = OnList(others) \cup {o}
  <2>1. OnList(sorted) = {sorted[k] : k \in 1 .. m + 1 + n}
    BY <1>7, OnListDef
  <2>2. ASSUME NEW k \in 1 .. m + 1 + n
        PROVE  sorted[k] \in OnList(lo) \cup {o} \cup OnList(hi)
    <3>1. \/ k \in 1 .. m \/ k = m + 1
          \/ k - (m + 1) \in 1 .. n /\ k = m + 1 + (k - (m + 1))
      BY <1>6
    <3>2. CASE k \in 1 .. m
      BY <1>6, <1>7, <3>2
    <3>3. CASE k - (m + 1) \in 1 .. n /\ k = m + 1 + (k - (m + 1))
      <4> DEFINE j == k - (m + 1)
      <4>1. j \in 1 .. n /\ k = m + 1 + j
        BY <3>3
      <4> HIDE DEF j
      <4> QED
        BY <1>6, <1>7, <4>1
    <3> QED
      BY <1>7, <3>1, <3>2, <3>3
  <2>3. ASSUME NEW x \in OnList(lo) \cup {o} \cup OnList(hi)
        PROVE  \E k \in 1 .. m + 1 + n : sorted[k] = x
    <3>1. CASE x \in OnList(lo)
      BY <1>6, <1>7, <3>1
    <3>2. CASE x = o
      BY <1>6, <1>7, <3>2
    <3>3. CASE x \in OnList(hi)
      <4>1. PICK k \in 1 .. n : x = hi[k]
        BY <1>6, <3>3
      <4>2. m + 1 + k \in 1 .. m + 1 + n
        BY <1>6, <4>1
      <4> QED
        BY <1>7, <4>1, <4>2
    <3> QED
      BY <3>1, <3>2, <3>3
  <2>4. OnList(sorted) = OnList(lo) \cup {o} \cup OnList(hi)
    BY <2>1, <2>2, <2>3
  <2> QED
    BY <1>5, <2>4
<1>9. ASSUME NEW k \in 1 .. m + 1 + n, NEW l \in 1 .. m + 1 + n, k < l
      PROVE  Before(sorted[k], sorted[l])
  <2>0. \A x \in OnList(others) : x \in Order /\ x.flag = o.flag /\ x.id # o.id
    BY <1>1, <1>5
  <2>1. ASSUME NEW x \in OnList(lo), NEW y \in OnList(hi)
        PROVE  Before(x, o) /\ Before(o, y) /\ Before(x, y)
    <3>1. /\ x \in OnList(others) /\ y \in OnList(others)
          /\ Before(x, o) /\ ~ Before(y, o)
      BY <1>5, <2>1
    <3>2. Before(o, y)
      BY <2>0, <3>1, BeforeIsAnOrder
    <3> QED
      BY <2>0, <3>1, <3>2, BeforeIsAnOrder
  <2>2. \A x \in OnList(lo) : Before(x, o)
    BY <1>5
  <2>3. \A y \in OnList(hi) : Before(o, y)
    BY <1>5, <2>0, BeforeIsAnOrder
  <2>4. CASE l \in 1 .. m
    <3>1. k \in 1 .. m
      BY <1>6, <1>9, <2>4
    <3> QED
      BY <1>2, <1>7, <1>9, <2>4, <3>1 DEF BestFirst, m
  <2>5. CASE l = m + 1
    <3>1. k \in 1 .. m
      BY <1>6, <1>9, <2>5
    <3> QED
      BY <1>6, <1>7, <2>2, <2>5, <3>1
  <2>6. CASE l \in m + 2 .. m + 1 + n
    <3> DEFINE j == l - (m + 1)
    <3>1. j \in 1 .. n /\ l = m + 1 + j
      BY <1>6, <2>6
    <3>2. sorted[l] = hi[j] /\ hi[j] \in OnList(hi)
      BY <1>6, <1>7, <3>1
    <3>3. CASE k \in 1 .. m
      BY <1>6, <1>7, <2>1, <3>2, <3>3
    <3>4. CASE k = m + 1
      BY <1>7, <2>3, <3>2, <3>4
    <3>5. CASE k \in m + 2 .. m + 1 + n
      <4> DEFINE i == k - (m + 1)
      <4>1. i \in 1 .. n /\ k = m + 1 + i /\ i < j
        BY <1>6, <1>9, <3>1, <3>5
      <4>2. sorted[k] = hi[i]
        BY <1>7, <4>1
      <4> QED
        BY <1>3, <3>1, <3>2, <4>1, <4>2 DEF BestFirst, n
    <3> QED
      BY <1>6, <3>3, <3>4, <3>5
  <2> QED
    BY <1>6, <2>4, <2>5, <2>6
<1> QED
  BY <1>1, <1>7, <1>8, <1>9 DEF BestFirst

\* A market order is replaced where it is, or goes to the end.
LEMMA ReplacedList ==
  ASSUME NEW list \in Seq(Order), NEW o \in Order, Aged(list),
         \A x \in OnList(list) :
           Left(o) > 0 => x.id <= o.id \/ \E y \in OnList(list) : y.id = o.id,
         \A y \in OnList(list) : y.id = o.id => Left(o) <= Left(y),
         NEW replaced, replaced = Replaced(list, o)
  PROVE  /\ replaced \in Seq(Order)
         /\ OnList(replaced) = {x \in OnList(list) : x.id # o.id} \cup {o}
         /\ Aged(replaced)
<1>1. /\ Len(list) \in Nat /\ DOMAIN list = 1 .. Len(list)
      /\ OnList(list) = {list[k] : k \in 1 .. Len(list)}
      /\ \A k \in 1 .. Len(list) : list[k] \in Order
  BY OnListDef
<1>2. CASE \E k \in DOMAIN list : list[k].id = o.id
  <2>1. replaced = [k \in 1 .. Len(list) |->
                      IF list[k].id = o.id THEN o ELSE list[k]]
    BY <1>1, <1>2 DEF Replaced
  <2>2. /\ replaced \in Seq(Order) /\ Len(replaced) = Len(list)
        /\ \A k \in 1 .. Len(list) :
             /\ replaced[k] = IF list[k].id = o.id THEN o ELSE list[k]
             /\ replaced[k].id = list[k].id
    BY <1>1, <2>1
  <2>3. Aged(replaced)
    <3>1. ASSUME NEW k \in 1 .. Len(list), NEW l \in 1 .. Len(list), k < l
          PROVE  /\ replaced[k].id # replaced[l].id
                 /\ Left(replaced[l]) > 0 => replaced[k].id < replaced[l].id
      <4>1. /\ list[k].id # list[l].id
            /\ Left(list[l]) > 0 => list[k].id < list[l].id
        BY <3>1 DEF Aged
      <4>2. Left(o) \in Int /\ Left(list[l]) \in Int
        BY <1>1, OrderFields
      <4>3. Left(replaced[l]) > 0 => Left(list[l]) > 0
        <5>1. CASE list[l].id = o.id
          <6>1. list[l] \in OnList(list) /\ replaced[l] = o
            BY <1>1, <2>2, <5>1
          <6>2. Left(o) <= Left(list[l])
            BY <5>1, <6>1
          <6> QED
            BY <4>2, <6>1, <6>2
        <5>2. CASE list[l].id # o.id
          BY <2>2, <5>2
        <5> QED
          BY <5>1, <5>2
      <4> QED
        BY <2>2, <4>1, <4>3
    <3> QED
      BY <2>2, <3>1 DEF Aged
  <2>4. OnList(replaced) = {replaced[k] : k \in 1 .. Len(list)}
    BY <2>2, OnListDef
  <2> QED
    BY <1>1, <1>2, <2>2, <2>3, <2>4
<1>3. CASE ~ \E k \in DOMAIN list : list[k].id = o.id
  <2>1. replaced = Append(list, o)
    BY <1>3 DEF Replaced
  <2>2. /\ replaced \in Seq(Order) /\ Len(replaced) = Len(list) + 1
        /\ replaced[Len(list) + 1] = o
        /\ \A k \in 1 .. Len(list) : replaced[k] = list[k]
    BY <1>1, <2>1
  <2>3. \A k \in 1 .. Len(list) :
          list[k].id # o.id /\ (Left(o) > 0 => list[k].id < o.id)
    <3>1. \A x \in OnList(list) : x.id # o.id /\ (Left(o) > 0 => x.id <= o.id)
      BY <1>1, <1>3
    <3>2. \A x \in OnList(list) : x.id \in Int /\ o.id \in Int
      BY <1>1, OrderFields
    <3> QED
      BY <1>1, <3>1, <3>2
  <2>4. Aged(replaced)
    BY <1>1, <2>2, <2>3 DEF Aged
  <2>5. OnList(replaced) = {replaced[k] : k \in 1 .. Len(list) + 1}
    BY <2>2, OnListDef
  <2>6. OnList(replaced) = OnList(list) \cup {o}
    BY <1>1, <2>2, <2>5
  <2> QED
    BY <1>1, <1>3, <2>2, <2>4, <2>6
<1> QED
  BY <1>2, <1>3

-----------------------------------------------------------------------------
(* The inductive invariant.                                                *)

Lists == {"bids", "asks", "market_bids", "market_asks"}

\* The list that upsertOrder gives an order.
ListOf(o) ==
  IF isLimitOrder(o)
  THEN IF o.flag = FLAG_BUY THEN "bids" ELSE "asks"
  ELSE IF o.flag = FLAG_BUY THEN "market_bids" ELSE "market_asks"

\* A list holds orders as last reported, among them every live order that
\* belongs on it, by price and age or by age alone.
RightList(os, list, name) ==
  /\ list \in Seq(Order)
  /\ \A x \in OnList(list) :
       ListOf(x) = name /\ x.id \in 1 .. Len(os) /\ os[x.id] = x
  /\ \A i \in 1 .. Len(os) :
       isLive(os[i]) /\ ListOf(os[i]) = name => os[i] \in OnList(list)
  /\ name \in {"bids", "asks"} => BestFirst(list)
  /\ name \notin {"bids", "asks"} => Aged(list)

RightOrders(os) ==
  /\ os \in Seq(Order)
  /\ \A i \in 1 .. Len(os) : os[i].id = i

RightBook(os, b) ==
  /\ RightOrders(os)
  /\ b = [name \in Lists |-> b[name]]
  /\ \A name \in Lists : RightList(os, b[name], name)

\* What removeMatchOrder leaves.
Clean(b) == \A name \in Lists : \A x \in OnList(b[name]) : isLive(x)

IInv ==
  /\ RightBook(orders, book)
  /\ trade = NoTrade \/ (Clean(book) /\ trade = NextTrade(book))

LEMMA EmptyBookIsRight == RightBook(<<>>, EmptyBook)
<1>1. RightOrders(<<>>)
  BY DEF RightOrders
<1>2. EmptyBook = [name \in Lists |-> <<>>]
  BY DEF EmptyBook, Lists
<1>3. ASSUME NEW name PROVE RightList(<<>>, <<>>, name)
  <2>1. OnList(<<>>) = {}
    BY DEF OnList
  <2> QED
    BY <2>1 DEF RightList, BestFirst, Aged
<1> QED
  BY <1>1, <1>2, <1>3 DEF RightBook

\* The orders os2 are os but for o.
OnlyReported(o, os, os2) ==
  /\ o.id \in 1 .. Len(os2) /\ os2[o.id] = o
  /\ \A i \in 1 .. Len(os2) : i # o.id => i \in 1 .. Len(os) /\ os2[i] = os[i]
  /\ \A i \in 1 .. Len(os) : i \in 1 .. Len(os2) /\ (i # o.id => os2[i] = os[i])

LEMMA ReportedOrders ==
  ASSUME NEW os, RightOrders(os), NEW o \in Order, o.id \in 1 .. Len(os) + 1,
         NEW os2,
         os2 = IF o.id \in DOMAIN os THEN [os EXCEPT ![o.id] = o]
               ELSE Append(os, o)
  PROVE  RightOrders(os2) /\ OnlyReported(o, os, os2)
<1>1. /\ os \in Seq(Order) /\ Len(os) \in Nat /\ DOMAIN os = 1 .. Len(os)
      /\ \A i \in 1 .. Len(os) : os[i].id = i
  BY DEF RightOrders
<1>2. CASE o.id \in 1 .. Len(os)
  <2>1. /\ os2 \in Seq(Order) /\ Len(os2) = Len(os) /\ os2[o.id] = o
        /\ \A i \in 1 .. Len(os) : i # o.id => os2[i] = os[i]
    BY <1>1, <1>2
  <2>2. \A i \in 1 .. Len(os2) : os2[i].id = i
    <3>1. ASSUME NEW i \in 1 .. Len(os2) PROVE os2[i].id = i
      <4>1. CASE i = o.id
        BY <2>1, <4>1
      <4>2. CASE i # o.id
        BY <1>1, <2>1, <4>2
      <4> QED
        BY <4>1, <4>2
    <3> QED
      BY <3>1
  <2> QED
    BY <1>2, <2>1, <2>2 DEF RightOrders, OnlyReported
<1>3. CASE o.id = Len(os) + 1
  <2>1. /\ os2 \in Seq(Order) /\ Len(os2) = Len(os) + 1 /\ os2[o.id] = o
        /\ \A i \in 1 .. Len(os) : os2[i] = os[i]
    BY <1>1, <1>3
  <2>2. \A i \in 1 .. Len(os2) : i = o.id \/ i \in 1 .. Len(os)
    BY <1>1, <1>3, <2>1
  <2>3. \A i \in 1 .. Len(os2) : os2[i].id = i
    BY <1>1, <2>1, <2>2
  <2>4. o.id \in 1 .. Len(os2) /\ \A i \in 1 .. Len(os) : i \in 1 .. Len(os2)
    BY <1>1, <1>3, <2>1
  <2> QED
    BY <2>1, <2>2, <2>3, <2>4 DEF RightOrders, OnlyReported
<1> QED
  BY <1>1, <1>2, <1>3

\* The order o is a later version of the order old: if that had left the lists,
\* there is nothing left of it.
Later(o, old) ==
  /\ old.type_ = o.type_ /\ old.flag = o.flag
  /\ Left(o) <= Left(old)
  /\ isLive(old) \/ ~ (Left(o) > 0)

\* An order on its list, after a report of it: new, or a later version.
LEMMA UpsertKeepsTheBook ==
  ASSUME NEW os, NEW b, RightBook(os, b), NEW o \in Order,
         \/ o.id = Len(os) + 1
         \/ o.id \in 1 .. Len(os) /\ Later(o, os[o.id]),
         NEW os2,
         os2 = IF o.id \in DOMAIN os THEN [os EXCEPT ![o.id] = o]
               ELSE Append(os, o)
  PROVE  RightBook(os2, upsertOrder(b, o))
<1> DEFINE mine == ListOf(o)
           b2 == upsertOrder(b, o)
<1>1. /\ RightOrders(os) /\ b = [name \in Lists |-> b[name]]
      /\ \A name \in Lists : RightList(os, b[name], name)
  BY DEF RightBook
<1>2. Len(os) \in Nat /\ o.id \in 1 .. Len(os) + 1
  BY <1>1 DEF RightOrders
<1>3. /\ RightOrders(os2)
      /\ o.id \in 1 .. Len(os2) /\ os2[o.id] = o
      /\ \A i \in 1 .. Len(os2) : i # o.id => i \in 1 .. Len(os) /\ os2[i] = os[i]
      /\ \A i \in 1 .. Len(os) : i \in 1 .. Len(os2) /\ (i # o.id => os2[i] = os[i])
  <2>1. RightOrders(os2) /\ OnlyReported(o, os, os2)
    BY <1>1, <1>2, ReportedOrders
  <2> QED
    BY <2>1 DEF OnlyReported
<1>4. o.type_ \in {TYPE_LIMIT, TYPE_MARKET} /\ o.flag \in {FLAG_BUY, FLAG_SELL}
  BY OrderFields
<1>5. mine \in Lists
  BY DEF ListOf, Lists
<1>6. /\ b2 = [name \in Lists |-> b2[name]]
      /\ \A name \in Lists : name # mine => b2[name] = b[name]
      /\ b2[mine] = IF isLimitOrder(o) THEN Sorted(b[mine], o)
                    ELSE Replaced(b[mine], o)
  <2>1. CASE isLimitOrder(o) /\ o.flag = FLAG_BUY
    BY <1>1, <2>1 DEF upsertOrder, ListOf, Lists, isMarketOrder, isLimitOrder, TYPE_MARKET, TYPE_LIMIT, FLAG_BUY, FLAG_SELL
  <2>2. CASE isLimitOrder(o) /\ o.flag = FLAG_SELL
    BY <1>1, <2>2 DEF upsertOrder, ListOf, Lists, isMarketOrder, isLimitOrder, TYPE_MARKET, TYPE_LIMIT, FLAG_BUY, FLAG_SELL
  <2>3. CASE isMarketOrder(o) /\ o.flag = FLAG_BUY
    BY <1>1, <2>3 DEF upsertOrder, ListOf, Lists, isMarketOrder, isLimitOrder, TYPE_MARKET, TYPE_LIMIT, FLAG_BUY, FLAG_SELL
  <2>4. CASE isMarketOrder(o) /\ o.flag = FLAG_SELL
    BY <1>1, <2>4 DEF upsertOrder, ListOf, Lists, isMarketOrder, isLimitOrder, TYPE_MARKET, TYPE_LIMIT, FLAG_BUY, FLAG_SELL
  <2> QED
    BY <1>4, <2>1, <2>2, <2>3, <2>4 DEF isLimitOrder, isMarketOrder
<1>7. ASSUME NEW name \in Lists, name # mine
      PROVE  RightList(os2, b2[name], name)
  <2> DEFINE list == b[name]
  <2>1. RightList(os, list, name) /\ b2[name] = list
    BY <1>1, <1>6, <1>7
  <2> HIDE DEF list
  <2>2. ASSUME NEW x \in OnList(list)
        PROVE  ListOf(x) = name /\ x.id \in 1 .. Len(os2) /\ os2[x.id] = x
    <3>1. ListOf(x) = name /\ x.id \in 1 .. Len(os) /\ os[x.id] = x
      BY <2>1 DEF RightList
    <3>2. o.id \in 1 .. Len(os) => ListOf(os[o.id]) = mine
      BY <1>2 DEF Later, ListOf, isLimitOrder
    <3>3. x.id # o.id
      BY <1>7, <3>1, <3>2
    <3> QED
      BY <1>3, <3>1, <3>3
  <2>3. ASSUME NEW i \in 1 .. Len(os2), isLive(os2[i]), ListOf(os2[i]) = name
        PROVE  os2[i] \in OnList(list)
    <3>1. i # o.id
      BY <1>3, <1>7, <2>3
    <3>2. i \in 1 .. Len(os) /\ os2[i] = os[i]
      BY <1>3, <3>1
    <3> QED
      BY <2>1, <2>3, <3>2 DEF RightList
  <2>4. RightList(os2, list, name)
    BY <2>1, <2>2, <2>3 DEF RightList
  <2> QED
    BY <2>1, <2>4
<1>8. RightList(os2, b2[mine], mine)
  <2> DEFINE list == b[mine]
             list2 == b2[mine]
  <2>1. RightList(os, list, mine)
    BY <1>1, <1>5
  <2>2. list2 = IF isLimitOrder(o) THEN Sorted(list, o) ELSE Replaced(list, o)
    BY <1>6
  <2> HIDE DEF list, list2
  <2>3. /\ list \in Seq(Order)
        /\ \A x \in OnList(list) :
             ListOf(x) = mine /\ x.id \in 1 .. Len(os) /\ os[x.id] = x
        /\ \A i \in 1 .. Len(os) :
             isLive(os[i]) /\ ListOf(os[i]) = mine => os[i] \in OnList(list)
    BY <2>1 DEF RightList
  <2>4. OnList(list) \subseteq Order
    BY <2>3, OnListDef
  <2>5. /\ list2 \in Seq(Order)
        /\ OnList(list2) = {x \in OnList(list) : x.id # o.id} \cup {o}
        /\ mine \in {"bids", "asks"} => BestFirst(list2)
        /\ mine \notin {"bids", "asks"} => Aged(list2)
    <3>1. CASE isLimitOrder(o)
      <4>1. mine \in {"bids", "asks"}
        BY <3>1 DEF ListOf
      <4>2. BestFirst(list)
        BY <2>1, <4>1 DEF RightList
      <4>3. ASSUME NEW x \in OnList(list) PROVE x.flag = o.flag
        <5>1. ListOf(x) = ListOf(o) /\ x.flag \in {FLAG_BUY, FLAG_SELL}
          BY <2>3, <2>4, OrderFields
        <5> QED
          BY <1>4, <5>1 DEF ListOf
      <4>4. list2 = Sorted(list, o)
        BY <2>2, <3>1
      <4> QED
        BY <2>3, <4>1, <4>2, <4>3, <4>4, SortedList
    <3>2. CASE ~ isLimitOrder(o)
      <4>1. mine \notin {"bids", "asks"}
        BY <3>2 DEF ListOf
      <4>2. Aged(list)
        BY <2>1, <4>1 DEF RightList
      <4>3. ASSUME NEW x \in OnList(list), Left(o) > 0
            PROVE  x.id <= o.id \/ \E y \in OnList(list) : y.id = o.id
        <5>1. CASE o.id = Len(os) + 1
          BY <1>2, <2>3, <5>1
        <5>2. CASE o.id \in 1 .. Len(os) /\ Later(o, os[o.id])
          <6>1. ListOf(os[o.id]) = mine /\ isLive(os[o.id])
            BY <4>3, <5>2 DEF Later, ListOf, isLimitOrder
          <6>2. os[o.id] \in OnList(list) /\ os[o.id].id = o.id
            BY <1>1, <2>3, <5>2, <6>1 DEF RightOrders
          <6> QED
            BY <6>2
        <5> QED
          BY <5>1, <5>2
      <4>4. list2 = Replaced(list, o)
        BY <2>2, <3>2
      <4>5. ASSUME NEW y \in OnList(list), y.id = o.id PROVE Left(o) <= Left(y)
        <5>1. o.id \in 1 .. Len(os) /\ os[o.id] = y
          BY <2>3, <4>5
        <5> QED
          BY <1>2, <5>1 DEF Later
      <4> QED
        BY <2>3, <4>1, <4>2, <4>3, <4>4, <4>5, ReplacedList
    <3> QED
      BY <3>1, <3>2
  <2>6. ASSUME NEW x \in OnList(list2)
        PROVE  ListOf(x) = mine /\ x.id \in 1 .. Len(os2) /\ os2[x.id] = x
    <3>1. CASE x = o
      BY <1>3, <3>1
    <3>2. CASE x \in OnList(list) /\ x.id # o.id
      BY <1>3, <2>3, <3>2
    <3> QED
      BY <2>5, <3>1, <3>2
  <2>7. ASSUME NEW i \in 1 .. Len(os2), isLive(os2[i]), ListOf(os2[i]) = mine
        PROVE  os2[i] \in OnList(list2)
    <3>1. CASE i = o.id
      BY <1>3, <2>5, <3>1
    <3>2. CASE i # o.id
      <4>1. i \in 1 .. Len(os) /\ os2[i] = os[i] /\ os[i].id = i
        BY <1>1, <1>3, <3>2 DEF RightOrders
      <4>2. os[i] \in OnList(list)
        BY <2>3, <2>7, <4>1
      <4> QED
        BY <2>5, <3>2, <4>1, <4>2
    <3> QED
      BY <3>1, <3>2
  <2>8. RightList(os2, list2, mine)
    BY <2>5, <2>6, <2>7 DEF RightList
  <2> QED
    BY <2>8 DEF list2
<1>9. \A name \in Lists : RightList(os2, b2[name], name)
  <2> HIDE DEF mine, b2
  <2> QED
    BY <1>7, <1>8
<1> QED
  BY <1>3, <1>6, <1>9 DEF RightBook

\* removeMatchOrder keeps the live orders.
LEMMA CleanedBook ==
  ASSUME NEW os, NEW b, RightBook(os, b)
  PROVE  /\ RightBook(os, removeMatchOrder(b))
         /\ Clean(removeMatchOrder(b))
<1> DEFINE live(name) == {x \in OnList(b[name]) : isLive(x)}
           c == removeMatchOrder(b)
<1>1. /\ RightOrders(os) /\ DOMAIN b = Lists
      /\ \A name \in Lists : RightList(os, b[name], name)
  BY DEF RightBook
<1>2. c = [name \in Lists |-> c[name]]
      /\ \A name \in Lists : c[name] = Kept(b[name], live(name))
  BY <1>1 DEF removeMatchOrder
<1>3. ASSUME NEW name \in Lists
      PROVE  /\ RightList(os, c[name], name)
             /\ \A x \in OnList(c[name]) : isLive(x)
  <2> DEFINE list == b[name]
             list2 == c[name]
             lives == live(name)
  <2>1. RightList(os, list, name) /\ list2 = Kept(list, lives)
    BY <1>1, <1>2
  <2>2. lives = {x \in OnList(list) : isLive(x)}
    OBVIOUS
  <2> HIDE DEF list, list2, lives
  <2>3. list \in Seq(Order)
    BY <2>1 DEF RightList
  <2>4. /\ list2 \in Seq(Order) /\ OnList(list2) = OnList(list) \cap lives
        /\ BestFirst(list) => BestFirst(list2)
        /\ Aged(list) => Aged(list2)
    BY <2>1, <2>3, KeptList
  <2>5. OnList(list2) = lives
    BY <2>2, <2>4
  <2>6. /\ RightList(os, list2, name)
        /\ \A x \in OnList(list2) : isLive(x)
    BY <2>1, <2>2, <2>4, <2>5 DEF RightList
  <2> QED
    BY <2>6 DEF list2
<1> HIDE DEF c
<1>4. RightBook(os, c) /\ Clean(c)
  BY <1>1, <1>2, <1>3 DEF RightBook, Clean
<1> QED
  BY <1>4 DEF c
-----------------------------------------------------------------------------
(* The next trade.                                                         *)

LEMMA CanMatchSymmetric ==
  ASSUME NEW o1 \in Order, NEW o2 \in Order
  PROVE  canMatch(o1, o2) <=> canMatch(o2, o1)
<1>1. o1.flag \in {FLAG_BUY, FLAG_SELL} /\ o2.flag \in {FLAG_BUY, FLAG_SELL}
  BY OrderFields
<1>2. o1.flag # o2.flag => (PricesMeet(o1, o2) <=> PricesMeet(o2, o1))
  BY <1>1 DEF PricesMeet, FLAG_BUY, FLAG_SELL
<1> QED
  BY <1>2 DEF canMatch

\* A buy and a sell order match only if one of them has a price, and the prices
\* of two limit orders meet.
LEMMA MatchPrices ==
  ASSUME NEW buy \in Order, NEW sell \in Order, buy.flag = FLAG_BUY,
         sell.flag = FLAG_SELL, canMatch(buy, sell)
  PROVE  /\ isLimitOrder(buy) \/ isLimitOrder(sell)
         /\ isLimitOrder(buy) /\ isLimitOrder(sell) => buy.price >= sell.price
BY DEF canMatch, PricesMeet, FLAG_BUY, FLAG_SELL

LEMMA ProcessMatchIsATrade ==
  ASSUME NEW buy, NEW sell
  PROVE  /\ processMatch(buy, sell) # NoTrade
         /\ processMatch(buy, sell).kind = "trade" =>
              /\ processMatch(buy, sell).a_order_id = buy.id
              /\ processMatch(buy, sell).b_order_id = sell.id
BY DEF processMatch, NoTrade, Thrown

\* What a book without dead orders holds on each list.
LEMMA ListsOfTheLive ==
  ASSUME NEW b, RightBook(orders, b), Clean(b)
  PROVE  /\ OnList(b.bids) = {o \in Buys : isLimitOrder(o)}
         /\ OnList(b.asks) = {o \in Sells : isLimitOrder(o)}
         /\ OnList(b.market_bids) = {o \in Buys : isMarketOrder(o)}
         /\ OnList(b.market_asks) = {o \in Sells : isMarketOrder(o)}
<1>1. /\ RightOrders(orders)
      /\ \A name \in Lists : RightList(orders, b[name], name)
  BY DEF RightBook
<1>2. /\ orders \in Seq(Order) /\ DOMAIN orders = 1 .. Len(orders)
      /\ \A i \in 1 .. Len(orders) : orders[i] \in Order
  BY <1>1 DEF RightOrders
<1>3. ASSUME NEW name \in Lists
      PROVE  OnList(b[name]) = {o \in Live : ListOf(o) = name}
  <2> DEFINE list == b[name]
  <2>1. RightList(orders, list, name) /\ \A x \in OnList(list) : isLive(x)
    BY <1>1, <1>3 DEF Clean
  <2> HIDE DEF list
  <2>2. ASSUME NEW x \in OnList(list) PROVE x \in Live /\ ListOf(x) = name
    BY <1>2, <2>1 DEF RightList, Live
  <2>3. ASSUME NEW x \in Live, ListOf(x) = name PROVE x \in OnList(list)
    BY <1>2, <2>1, <2>3 DEF RightList, Live
  <2>4. OnList(list) = {o \in Live : ListOf(o) = name}
    BY <2>2, <2>3
  <2> QED
    BY <2>4 DEF list
<1>4. \A o \in Live : /\ o.flag \in {FLAG_BUY, FLAG_SELL}
                      /\ o.type_ \in {TYPE_LIMIT, TYPE_MARKET}
  BY <1>2, OrderFields DEF Live
<1>5. OnList(b.bids) = {o \in Live : ListOf(o) = "bids"}
  BY <1>3 DEF Lists
<1>6. OnList(b.asks) = {o \in Live : ListOf(o) = "asks"}
  BY <1>3 DEF Lists
<1>7. OnList(b.market_bids) = {o \in Live : ListOf(o) = "market_bids"}
  BY <1>3 DEF Lists
<1>8. OnList(b.market_asks) = {o \in Live : ListOf(o) = "market_asks"}
  BY <1>3 DEF Lists
<1>9. /\ {o \in Live : ListOf(o) = "bids"} = {o \in Buys : isLimitOrder(o)}
      /\ {o \in Live : ListOf(o) = "asks"} = {o \in Sells : isLimitOrder(o)}
  BY <1>4 DEF ListOf, Buys, Sells, isLimitOrder, FLAG_BUY, FLAG_SELL
<1>10. /\ {o \in Live : ListOf(o) = "market_bids"} = {o \in Buys : isMarketOrder(o)}
       /\ {o \in Live : ListOf(o) = "market_asks"} = {o \in Sells : isMarketOrder(o)}
  BY <1>4 DEF ListOf, Buys, Sells, isLimitOrder, isMarketOrder, TYPE_LIMIT, TYPE_MARKET, FLAG_BUY, FLAG_SELL
<1> QED
  BY <1>5, <1>6, <1>7, <1>8, <1>9, <1>10

LEMMA SortedLists ==
  ASSUME NEW os, NEW b, RightBook(os, b)
  PROVE  /\ b.bids \in Seq(Order) /\ BestFirst(b.bids)
         /\ b.asks \in Seq(Order) /\ BestFirst(b.asks)
         /\ b.market_bids \in Seq(Order) /\ Aged(b.market_bids)
         /\ b.market_asks \in Seq(Order) /\ Aged(b.market_asks)
<1>1. /\ RightList(os, b.bids, "bids")
      /\ RightList(os, b.asks, "asks")
      /\ RightList(os, b.market_bids, "market_bids")
      /\ RightList(os, b.market_asks, "market_asks")
  BY DEF RightBook, Lists
<1> QED
  BY <1>1 DEF RightList

LEMMA LiveOrders ==
  ASSUME RightOrders(orders), NEW o \in Live
  PROVE  /\ o \in Order /\ isLive(o)
         /\ o.id \in DOMAIN orders /\ orders[o.id] = o
         /\ Left(o) \in Int \ {0}
<1>1. PICK i \in 1 .. Len(orders) : o = orders[i] /\ isLive(orders[i])
  BY DEF Live, RightOrders
<1>2. orders[i] \in Order /\ orders[i].id = i /\ Left(orders[i]) \in Int
  <2>1. orders[i] \in Order /\ orders[i].id = i
    BY DEF RightOrders
  <2> QED
    BY <2>1, OrderFields
<1> QED
  BY <1>1, <1>2 DEF isLive, RightOrders

\* FirstPair finds the first pair, if there is one.
LEMMA FirstPairCases ==
  ASSUME NEW S, NEW T, NEW outer \in Seq(S), NEW inner \in Seq(T),
         NEW p, p = FirstPair(outer, inner)
  PROVE  \/ /\ p = <<>>
            /\ \A k \in 1 .. Len(outer), l \in 1 .. Len(inner) :
                 ~ canMatch(outer[k], inner[l])
         \/ /\ p # <<>>
            /\ p[1] \in 1 .. Len(outer) /\ p[2] \in 1 .. Len(inner)
            /\ canMatch(outer[p[1]], inner[p[2]])
            /\ \A k \in 1 .. Len(outer), l \in 1 .. Len(inner) :
                 canMatch(outer[k], inner[l]) =>
                   p[1] < k \/ (p[1] = k /\ p[2] <= l)
<1> DEFINE A == 1 .. Len(outer)
           B == 1 .. Len(inner)
           pairs == {q \in A \X B : canMatch(outer[q[1]], inner[q[2]])}
           least(q) == \A r \in pairs : q[1] < r[1] \/ (q[1] = r[1] /\ q[2] <= r[2])
<1>0. /\ Len(outer) \in Nat /\ Len(inner) \in Nat
      /\ DOMAIN outer = A /\ DOMAIN inner = B
  OBVIOUS
<1>1. p = IF pairs = {} THEN <<>> ELSE CHOOSE q \in pairs : least(q)
  BY <1>0 DEF FirstPair
<1>2. CASE pairs = {}
  <2>1. ASSUME NEW k \in A, NEW l \in B PROVE ~ canMatch(outer[k], inner[l])
    <3>1. <<k, l>> \in A \X B /\ <<k, l>>[1] = k /\ <<k, l>>[2] = l
      OBVIOUS
    <3> QED
      BY <1>2, <3>1
  <2> QED
    BY <1>1, <1>2, <2>1
<1>3. CASE pairs # {}
  <2> DEFINE firsts == {q[1] : q \in pairs}
  <2>1. firsts \subseteq Nat /\ firsts # {}
    BY <1>0, <1>3
  <2>2. PICK k \in firsts : \A i \in firsts : k <= i
    <3> HIDE DEF firsts
    <3> QED
      BY <2>1, LeastNat
  <2> DEFINE seconds == {q[2] : q \in {r \in pairs : r[1] = k}}
  <2>3. seconds \subseteq Nat /\ seconds # {}
    BY <1>0, <2>2
  <2>4. PICK l \in seconds : \A i \in seconds : l <= i
    <3> HIDE DEF seconds
    <3> QED
      BY <2>3, LeastNat
  <2>5. PICK q \in pairs : q[1] = k /\ q[2] = l
    BY <2>4
  <2>6. ASSUME NEW r \in pairs
        PROVE  q[1] < r[1] \/ (q[1] = r[1] /\ q[2] <= r[2])
    <3>1. k \in Nat /\ r[1] \in Nat /\ k <= r[1]
      BY <2>1, <2>2
    <3>2. r[1] = k => r[2] \in seconds
      OBVIOUS
    <3>3. r[1] = k => l <= r[2]
      BY <2>4, <3>2
    <3> QED
      BY <2>5, <3>1, <3>3
  <2>7. p \in pairs /\ least(p)
    <3> HIDE DEF pairs
    <3> QED
      BY <1>1, <1>3, <2>6
  <2>8. /\ p \in A \X B /\ p[1] \in A /\ p[2] \in B /\ p = <<p[1], p[2]>>
        /\ canMatch(outer[p[1]], inner[p[2]])
    BY <2>7
  <2>9. ASSUME NEW i \in A, NEW j \in B, canMatch(outer[i], inner[j])
        PROVE  p[1] < i \/ (p[1] = i /\ p[2] <= j)
    <3>1. <<i, j>> \in pairs /\ <<i, j>>[1] = i /\ <<i, j>>[2] = j
      BY <2>9
    <3> QED
      BY <2>7, <3>1
  <2>10. p # <<>>
    BY <2>8
  <2> QED
    BY <2>8, <2>9, <2>10
<1> QED
  BY <1>2, <1>3

\* No bid is before buy, no matching ask is before sell.
BestLimits(buy, sell) ==
  /\ ~ \E x \in Buys : isLimitOrder(x) /\ BidBefore(x, buy)
  /\ ~ \E s \in Sellers(buy) : isLimitOrder(s) /\ AskBefore(s, sell)

\* No ask that a bid matches is left, unless there is a better bid.
NoLimits ==
  \A buy \in Buys : isLimitOrder(buy) /\ (\E s \in Sellers(buy) : isLimitOrder(s))
    => \E c \in Buys : isLimitOrder(c) /\ BidBefore(c, buy)

\* matchOrders trades the best bid with the best ask that matches it, or no ask
\* matches it.
LEMMA MatchOrdersCases ==
  ASSUME NEW b, RightBook(orders, b), Clean(b)
  PROVE  \/ matchOrders(b) = NoTrade /\ NoLimits
         \/ \E buy \in Buys, sell \in Sells :
              /\ isLimitOrder(buy) /\ isLimitOrder(sell)
              /\ matchOrders(b) = processMatch(buy, sell)
              /\ canMatch(buy, sell)
              /\ BestLimits(buy, sell)
<1> DEFINE bids == b.bids
           asks == b.asks
           stops == Stops(b)
           f == FirstStop(b)
<1>1. /\ bids \in Seq(Order) /\ BestFirst(bids)
      /\ asks \in Seq(Order) /\ BestFirst(asks)
  BY SortedLists
<1>2. /\ OnList(bids) = {o \in Buys : isLimitOrder(o)}
      /\ OnList(asks) = {o \in Sells : isLimitOrder(o)}
  BY ListsOfTheLive
<1>3. stops = IF bids = <<>> THEN {} ELSE
                {j \in DOMAIN asks : \/ canMatch(bids[1], asks[j])
                                     \/ bids[1].price < asks[j].price}
  BY DEF Stops, StopsAt
<1>4. f = CHOOSE j \in stops : \A k \in stops : j <= k
  BY DEF FirstStop
<1>5. matchOrders(b) = IF stops # {} /\ canMatch(bids[1], asks[f])
                       THEN processMatch(bids[1], asks[f]) ELSE NoTrade
  BY DEF matchOrders
<1> HIDE DEF bids, asks, stops, f
<1>6. /\ Len(bids) \in Nat /\ DOMAIN bids = 1 .. Len(bids)
      /\ Len(asks) \in Nat /\ DOMAIN asks = 1 .. Len(asks)
      /\ \A k \in 1 .. Len(bids) : bids[k] \in Order /\ bids[k].flag = FLAG_BUY
      /\ \A k \in 1 .. Len(asks) : asks[k] \in Order /\ asks[k].flag = FLAG_SELL
      /\ OnList(bids) = {bids[k] : k \in 1 .. Len(bids)}
      /\ OnList(asks) = {asks[k] : k \in 1 .. Len(asks)}
      /\ stops \subseteq 1 .. Len(asks)
  <2>1. /\ Len(bids) \in Nat /\ DOMAIN bids = 1 .. Len(bids)
        /\ OnList(bids) = {bids[k] : k \in 1 .. Len(bids)}
        /\ \A k \in 1 .. Len(bids) : bids[k] \in Order
    BY <1>1, OnListDef
  <2>2. /\ Len(asks) \in Nat /\ DOMAIN asks = 1 .. Len(asks)
        /\ OnList(asks) = {asks[k] : k \in 1 .. Len(asks)}
        /\ \A k \in 1 .. Len(asks) : asks[k] \in Order
    BY <1>1, OnListDef
  <2>3. /\ \A k \in 1 .. Len(bids) : bids[k].flag = FLAG_BUY
        /\ \A k \in 1 .. Len(asks) : asks[k].flag = FLAG_SELL
    BY <1>2, <2>1, <2>2 DEF Buys, Sells
  <2> QED
    BY <1>3, <2>1, <2>2, <2>3
<1>7. ASSUME NEW k \in 1 .. Len(bids), NEW l \in 1 .. Len(bids), k < l
      PROVE  BidBefore(bids[k], bids[l])
  BY <1>1, <1>6, <1>7 DEF BestFirst, Before
<1>8. ASSUME NEW k \in 1 .. Len(asks), NEW l \in 1 .. Len(asks), k < l
      PROVE  AskBefore(asks[k], asks[l])
  BY <1>1, <1>6, <1>8 DEF BestFirst, Before, FLAG_BUY, FLAG_SELL
<1>9. \A x \in Order : x.id \in Int /\ x.price \in Int
  BY OrderFields
<1>10. ASSUME stops # {}
       PROVE  /\ bids # <<>> /\ 1 \in 1 .. Len(bids)
              /\ f \in stops /\ \A k \in stops : f <= k
  <2>1. stops \subseteq Nat
    BY <1>6
  <2>2. \E j \in stops : \A k \in stops : j <= k
    BY <1>10, <2>1, LeastNat
  <2>3. bids # <<>>
    BY <1>3, <1>10
  <2>4. 1 \in 1 .. Len(bids)
    BY <1>1, <1>6, <2>3
  <2> QED
    BY <1>4, <2>2, <2>3, <2>4
<1>11. CASE stops # {} /\ canMatch(bids[1], asks[f])
  <2> DEFINE buy == bids[1]
             sell == asks[f]
  <2>1. f \in 1 .. Len(asks) /\ 1 \in 1 .. Len(bids)
    BY <1>6, <1>10, <1>11
  <2>2. buy \in OnList(bids) /\ sell \in OnList(asks)
    BY <1>6, <2>1
  <2>3. /\ buy \in Buys /\ isLimitOrder(buy)
        /\ sell \in Sells /\ isLimitOrder(sell)
    BY <1>2, <2>2
  <2>4. ASSUME NEW x \in Buys, isLimitOrder(x), BidBefore(x, buy)
        PROVE  FALSE
    <3>1. PICK k \in 1 .. Len(bids) : x = bids[k]
      BY <1>2, <1>6, <2>4
    <3>2. k = 1 \/ 1 < k
      BY <3>1
    <3>3. /\ x.id \in Int /\ x.price \in Int
          /\ buy.id \in Int /\ buy.price \in Int
      BY <1>6, <1>9, <2>1, <3>1
    <3>4. CASE k = 1
      BY <2>4, <3>1, <3>3, <3>4 DEF BidBefore
    <3>5. CASE 1 < k
      <4>1. BidBefore(buy, x)
        BY <1>7, <2>1, <3>1, <3>5
      <4> QED
        BY <2>4, <3>3, <4>1 DEF BidBefore
    <3> QED
      BY <3>2, <3>4, <3>5
  <2>5. ASSUME NEW s \in Sellers(buy), isLimitOrder(s), AskBefore(s, sell)
        PROVE  FALSE
    <3>1. s \in Sells /\ canMatch(buy, s)
      BY <2>5 DEF Sellers
    <3>2. PICK k \in 1 .. Len(asks) : s = asks[k]
      BY <1>2, <1>6, <2>5, <3>1
    <3>3. k \in stops
      BY <1>3, <1>6, <1>10, <1>11, <3>1, <3>2
    <3>4. f <= k
      BY <1>10, <1>11, <3>3
    <3>5. /\ s.id \in Int /\ s.price \in Int
          /\ sell.id \in Int /\ sell.price \in Int
      BY <1>6, <1>9, <2>1, <3>2
    <3>6. CASE k = f
      BY <2>5, <3>2, <3>5, <3>6 DEF AskBefore
    <3>7. CASE f < k
      <4>1. AskBefore(sell, s)
        BY <1>8, <2>1, <3>2, <3>7
      <4> QED
        BY <2>5, <3>5, <4>1 DEF AskBefore
    <3> QED
      BY <2>1, <3>2, <3>4, <3>6, <3>7
  <2>6. BestLimits(buy, sell)
    BY <2>4, <2>5 DEF BestLimits
  <2>7. matchOrders(b) = processMatch(buy, sell) /\ canMatch(buy, sell)
    BY <1>5, <1>11
  <2> HIDE DEF buy, sell
  <2> QED
    BY <2>3, <2>6, <2>7
<1>12. CASE ~ (stops # {} /\ canMatch(bids[1], asks[f]))
  <2>1. ASSUME NEW buy \in Buys, isLimitOrder(buy),
               NEW s \in Sellers(buy), isLimitOrder(s)
        PROVE  \E c \in Buys : isLimitOrder(c) /\ BidBefore(c, buy)
    <3>1. s \in Sells /\ canMatch(buy, s)
      BY <2>1 DEF Sellers
    <3>2. PICK k \in 1 .. Len(bids) : buy = bids[k]
      BY <1>2, <1>6, <2>1
    <3>3. PICK j \in 1 .. Len(asks) : s = asks[j]
      BY <1>2, <1>6, <2>1, <3>1
    <3>4. 1 \in 1 .. Len(bids) /\ (k = 1 \/ 1 < k) /\ bids # <<>>
      BY <1>6, <3>2
    <3>5. CASE k = 1
      <4>1. j \in stops
        BY <1>3, <1>6, <3>1, <3>2, <3>3, <3>4, <3>5
      <4>2. f \in stops /\ f <= j
        BY <1>10, <4>1
      <4>3. bids[1].price < asks[f].price
        BY <1>3, <1>12, <3>4, <4>1, <4>2
      <4>4. /\ asks[f].price \in Int /\ asks[j].price \in Int
            /\ bids[1].price \in Int /\ f \in 1 .. Len(asks)
        BY <1>6, <1>9, <3>3, <3>4, <4>2
      <4>5. f = j \/ f < j
        BY <3>3, <4>2, <4>4
      <4>6. asks[f].price <= asks[j].price
        <5>1. CASE f = j
          BY <4>4, <5>1
        <5>2. CASE f < j
          BY <1>8, <3>3, <4>4, <5>2 DEF AskBefore
        <5> QED
          BY <4>5, <5>1, <5>2
      <4>7. bids[1].price >= asks[j].price
        BY <1>6, <2>1, <3>1, <3>2, <3>3, <3>4, <3>5, MatchPrices
      <4> QED
        BY <4>3, <4>4, <4>6, <4>7
    <3>6. CASE 1 < k
      <4>1. BidBefore(bids[1], buy)
        BY <1>7, <3>2, <3>4, <3>6
      <4>2. bids[1] \in Buys /\ isLimitOrder(bids[1])
        BY <1>2, <1>6, <3>4
      <4> QED
        BY <4>1, <4>2
    <3> QED
      BY <3>4, <3>5, <3>6
  <2>2. NoLimits
    BY <2>1 DEF NoLimits
  <2>3. matchOrders(b) = NoTrade
    BY <1>5, <1>12
  <2> QED
    BY <2>2, <2>3
<1> QED
  BY <1>11, <1>12


\* FirstPair gives the oldest order that an order on the other list matches,
\* but for the overfilled ones, and the best of those it matches.
LEMMA FirstPairIsBest ==
  ASSUME NEW outer \in Seq(Order), Aged(outer),
         NEW inner \in Seq(Order), BestFirst(inner),
         \A y, z \in OnList(inner) : y.flag = z.flag,
         NEW p, p = FirstPair(outer, inner)
  PROVE  \/ /\ p = <<>>
            /\ \A x \in OnList(outer), y \in OnList(inner) : ~ canMatch(x, y)
         \/ /\ p # <<>>
            /\ outer[p[1]] \in OnList(outer) /\ inner[p[2]] \in OnList(inner)
            /\ canMatch(outer[p[1]], inner[p[2]])
            /\ \A x \in OnList(outer), y \in OnList(inner) :
                 canMatch(x, y) /\ Left(x) > 0 => ~ x.id < outer[p[1]].id
            /\ \A y \in OnList(inner) :
                 canMatch(outer[p[1]], y) => ~ Before(y, inner[p[2]])
<1>1. /\ Len(outer) \in Nat /\ OnList(outer) = {outer[k] : k \in 1 .. Len(outer)}
      /\ \A k \in 1 .. Len(outer) : outer[k] \in Order
  BY OnListDef
<1>2. /\ Len(inner) \in Nat /\ OnList(inner) = {inner[k] : k \in 1 .. Len(inner)}
      /\ \A k \in 1 .. Len(inner) : inner[k] \in Order
  BY OnListDef
<1>3. CASE /\ p = <<>>
           /\ \A k \in 1 .. Len(outer), l \in 1 .. Len(inner) :
                ~ canMatch(outer[k], inner[l])
  BY <1>1, <1>2, <1>3
<1>4. CASE /\ p # <<>>
           /\ p[1] \in 1 .. Len(outer) /\ p[2] \in 1 .. Len(inner)
           /\ canMatch(outer[p[1]], inner[p[2]])
           /\ \A k \in 1 .. Len(outer), l \in 1 .. Len(inner) :
                canMatch(outer[k], inner[l]) =>
                  p[1] < k \/ (p[1] = k /\ p[2] <= l)
  <2>1. PICK m \in 1 .. Len(outer), n \in 1 .. Len(inner) : m = p[1] /\ n = p[2]
    BY <1>4
  <2>2. ASSUME NEW x \in OnList(outer), NEW y \in OnList(inner), canMatch(x, y),
               Left(x) > 0
        PROVE  ~ x.id < outer[m].id
    <3>1. PICK k \in 1 .. Len(outer), l \in 1 .. Len(inner) :
            x = outer[k] /\ y = inner[l]
      BY <1>1, <1>2
    <3>2. m = k \/ m < k
      BY <1>4, <2>1, <2>2, <3>1
    <3>3. outer[m].id \in Int /\ outer[k].id \in Int
      BY <1>1, OrderFields
    <3> QED
      BY <2>2, <3>1, <3>2, <3>3 DEF Aged
  <2>3. ASSUME NEW y \in OnList(inner), canMatch(outer[m], y)
        PROVE  ~ Before(y, inner[n])
    <3>1. PICK l \in 1 .. Len(inner) : y = inner[l]
      BY <1>2
    <3>2. n = l \/ n < l
      BY <1>4, <2>1, <2>3, <3>1
    <3>3. /\ inner[n] \in OnList(inner) /\ inner[n] \in Order /\ y \in Order
          /\ y.flag = inner[n].flag
      BY <1>2, <3>1
    <3>4. CASE n = l
      BY <3>1, <3>3, <3>4, BeforeIsAnOrder
    <3>5. CASE n < l
      <4>1. Before(inner[n], y)
        BY <3>1, <3>5 DEF BestFirst
      <4> QED
        BY <3>3, <4>1, BeforeIsAnOrder
    <3> QED
      BY <3>2, <3>4, <3>5
  <2>4. outer[m] \in OnList(outer) /\ inner[n] \in OnList(inner)
    BY <1>1, <1>2
  <2> QED
    BY <1>4, <2>1, <2>2, <2>3, <2>4
<1> QED
  BY <1>3, <1>4, FirstPairCases

\* What BestPriceThenOldest says of a market order's trade.
BestForMarketBid(buy, sell) ==
  /\ ~ \E x \in Buys : isMarketOrder(x) /\ x.id < buy.id /\ Left(x) > 0
                          /\ Sellers(x) # {}
  /\ ~ \E s \in Sellers(buy) : AskBefore(s, sell)

BestForMarketAsk(buy, sell) ==
  /\ ~ \E s \in Sells : isMarketOrder(s) /\ s.id < sell.id /\ Left(s) > 0
                           /\ Buyers(s) # {}
  /\ ~ \E x \in Buyers(sell) : BidBefore(x, buy)

\* A market order's counterparties have a price.
LEMMA MarketCounterparties ==
  ASSUME NEW buy \in Buys, NEW sell \in Sells, canMatch(buy, sell)
  PROVE  /\ isMarketOrder(buy) => ~ isMarketOrder(sell)
         /\ isMarketOrder(sell) => ~ isMarketOrder(buy)
BY DEF canMatch, PricesMeet, isLimitOrder, isMarketOrder, TYPE_LIMIT,
       TYPE_MARKET, Buys, Sells, FLAG_BUY, FLAG_SELL

LEMMA MarketBidCases ==
  ASSUME NEW b, RightBook(orders, b), Clean(b),
         NEW p, p = FirstPair(b.market_bids, b.asks)
  PROVE  \/ p = <<>> /\ \A x \in Buys : isMarketOrder(x) => Sellers(x) = {}
         \/ /\ p # <<>>
            /\ \E buy \in Buys, sell \in Sells :
                 /\ isMarketOrder(buy) /\ isLimitOrder(sell)
                 /\ buy = b.market_bids[p[1]] /\ sell = b.asks[p[2]]
                 /\ canMatch(buy, sell)
                 /\ BestForMarketBid(buy, sell)
<1> DEFINE outer == b.market_bids
           inner == b.asks
           buy == outer[p[1]]
           sell == inner[p[2]]
<1>1. /\ outer \in Seq(Order) /\ Aged(outer)
      /\ inner \in Seq(Order) /\ BestFirst(inner)
  BY SortedLists
<1>2. /\ OnList(outer) = {o \in Buys : isMarketOrder(o)}
      /\ OnList(inner) = {o \in Sells : isLimitOrder(o)}
  BY ListsOfTheLive
<1>3. \A y, z \in OnList(inner) : y.flag = z.flag
  BY <1>2 DEF Sells
<1>4. p = FirstPair(outer, inner)
  OBVIOUS
<1>5. \A x \in Sells : isLimitOrder(x) \/ isMarketOrder(x)
  BY LiveOrders, OrderFields DEF RightBook, Sells, isLimitOrder, isMarketOrder
<1> HIDE DEF outer, inner
<1>6. ASSUME NEW x \in Buys, isMarketOrder(x), NEW s \in Sellers(x)
      PROVE  x \in OnList(outer) /\ s \in OnList(inner) /\ canMatch(x, s)
  <2>1. s \in Sells /\ canMatch(x, s)
    BY DEF Sellers
  <2>2. isLimitOrder(s)
    BY <1>5, <1>6, <2>1, MarketCounterparties
  <2> QED
    BY <1>2, <1>6, <2>1, <2>2
<1>7. CASE /\ p = <<>>
           /\ \A x \in OnList(outer), y \in OnList(inner) : ~ canMatch(x, y)
  BY <1>6, <1>7
<1>8. CASE /\ p # <<>>
           /\ buy \in OnList(outer) /\ sell \in OnList(inner)
           /\ canMatch(buy, sell)
           /\ \A x \in OnList(outer), y \in OnList(inner) :
                canMatch(x, y) /\ Left(x) > 0 => ~ x.id < buy.id
           /\ \A y \in OnList(inner) : canMatch(buy, y) => ~ Before(y, sell)
  <2>1. /\ buy \in Buys /\ isMarketOrder(buy)
        /\ sell \in Sells /\ isLimitOrder(sell)
    BY <1>2, <1>8
  <2>2. ~ \E x \in Buys : isMarketOrder(x) /\ x.id < buy.id /\ Left(x) > 0
                            /\ Sellers(x) # {}
    BY <1>6, <1>8
  <2>3. ASSUME NEW s \in Sellers(buy) PROVE ~ AskBefore(s, sell)
    <3>1. s \in OnList(inner) /\ canMatch(buy, s)
      BY <1>6, <2>1
    <3>2. s.flag = FLAG_SELL
      BY <1>2, <3>1 DEF Sells
    <3>3. ~ Before(s, sell)
      BY <1>8, <3>1
    <3> QED
      BY <3>2, <3>3 DEF Before, FLAG_BUY, FLAG_SELL
  <2>4. BestForMarketBid(buy, sell)
    BY <2>2, <2>3 DEF BestForMarketBid
  <2> HIDE DEF buy, sell
  <2>5. \E x \in Buys, s \in Sells :
          /\ isMarketOrder(x) /\ isLimitOrder(s)
          /\ x = buy /\ s = sell
          /\ canMatch(x, s)
          /\ BestForMarketBid(x, s)
    BY <1>8, <2>1, <2>4
  <2> QED
    BY <1>8, <2>5 DEF buy, sell, outer, inner
<1> QED
  <2>1. \/ /\ p = <<>>
           /\ \A x \in OnList(outer), y \in OnList(inner) : ~ canMatch(x, y)
        \/ /\ p # <<>>
           /\ buy \in OnList(outer) /\ sell \in OnList(inner)
           /\ canMatch(buy, sell)
           /\ \A x \in OnList(outer), y \in OnList(inner) :
                canMatch(x, y) /\ Left(x) > 0 => ~ x.id < buy.id
           /\ \A y \in OnList(inner) : canMatch(buy, y) => ~ Before(y, sell)
    BY <1>1, <1>3, <1>4, FirstPairIsBest
  <2> HIDE DEF buy, sell
  <2> QED
    BY <1>7, <1>8, <2>1

LEMMA MarketAskCases ==
  ASSUME NEW b, RightBook(orders, b), Clean(b),
         NEW p, p = FirstPair(b.market_asks, b.bids)
  PROVE  \/ p = <<>> /\ \A s \in Sells : isMarketOrder(s) => Buyers(s) = {}
         \/ /\ p # <<>>
            /\ \E buy \in Buys, sell \in Sells :
                 /\ isLimitOrder(buy) /\ isMarketOrder(sell)
                 /\ buy = b.bids[p[2]] /\ sell = b.market_asks[p[1]]
                 /\ canMatch(buy, sell)
                 /\ BestForMarketAsk(buy, sell)
<1> DEFINE outer == b.market_asks
           inner == b.bids
           buy == inner[p[2]]
           sell == outer[p[1]]
<1>1. /\ outer \in Seq(Order) /\ Aged(outer)
      /\ inner \in Seq(Order) /\ BestFirst(inner)
  BY SortedLists
<1>2. /\ OnList(outer) = {o \in Sells : isMarketOrder(o)}
      /\ OnList(inner) = {o \in Buys : isLimitOrder(o)}
  BY ListsOfTheLive
<1>3. \A y, z \in OnList(inner) : y.flag = z.flag
  BY <1>2 DEF Buys
<1>4. p = FirstPair(outer, inner)
  OBVIOUS
<1>5. /\ \A x \in Buys : isLimitOrder(x) \/ isMarketOrder(x)
      /\ \A x \in Buys \cup Sells : x \in Order
  BY LiveOrders, OrderFields DEF RightBook, Buys, Sells, isLimitOrder, isMarketOrder
<1> HIDE DEF outer, inner
<1>6. ASSUME NEW s \in Sells, isMarketOrder(s), NEW x \in Buyers(s)
      PROVE  s \in OnList(outer) /\ x \in OnList(inner) /\ canMatch(s, x)
  <2>1. x \in Buys /\ canMatch(x, s)
    BY DEF Buyers
  <2>2. isLimitOrder(x)
    BY <1>5, <1>6, <2>1, MarketCounterparties
  <2>3. canMatch(s, x)
    BY <1>5, <2>1, CanMatchSymmetric
  <2> QED
    BY <1>2, <1>6, <2>1, <2>2, <2>3
<1>7. CASE /\ p = <<>>
           /\ \A x \in OnList(outer), y \in OnList(inner) : ~ canMatch(x, y)
  BY <1>6, <1>7
<1>8. CASE /\ p # <<>>
           /\ sell \in OnList(outer) /\ buy \in OnList(inner)
           /\ canMatch(sell, buy)
           /\ \A x \in OnList(outer), y \in OnList(inner) :
                canMatch(x, y) /\ Left(x) > 0 => ~ x.id < sell.id
           /\ \A y \in OnList(inner) : canMatch(sell, y) => ~ Before(y, buy)
  <2>1. /\ buy \in Buys /\ isLimitOrder(buy)
        /\ sell \in Sells /\ isMarketOrder(sell)
    BY <1>2, <1>8
  <2>2. ~ \E s \in Sells : isMarketOrder(s) /\ s.id < sell.id /\ Left(s) > 0
                             /\ Buyers(s) # {}
    BY <1>6, <1>8
  <2>3. ASSUME NEW x \in Buyers(sell) PROVE ~ BidBefore(x, buy)
    <3>1. x \in OnList(inner) /\ canMatch(sell, x)
      BY <1>6, <2>1
    <3>2. x.flag = FLAG_BUY
      BY <1>2, <3>1 DEF Buys
    <3>3. ~ Before(x, buy)
      BY <1>8, <3>1
    <3> QED
      BY <3>2, <3>3 DEF Before
  <2>4. BestForMarketAsk(buy, sell)
    BY <2>2, <2>3 DEF BestForMarketAsk
  <2>5. canMatch(buy, sell)
    BY <1>5, <1>8, <2>1, CanMatchSymmetric
  <2> HIDE DEF buy, sell
  <2>6. \E x \in Buys, s \in Sells :
          /\ isLimitOrder(x) /\ isMarketOrder(s)
          /\ x = buy /\ s = sell
          /\ canMatch(x, s)
          /\ BestForMarketAsk(x, s)
    BY <2>1, <2>4, <2>5
  <2> QED
    BY <1>8, <2>6 DEF buy, sell, outer, inner
<1> QED
  <2>1. \/ /\ p = <<>>
           /\ \A x \in OnList(outer), y \in OnList(inner) : ~ canMatch(x, y)
        \/ /\ p # <<>>
           /\ sell \in OnList(outer) /\ buy \in OnList(inner)
           /\ canMatch(sell, buy)
           /\ \A x \in OnList(outer), y \in OnList(inner) :
                canMatch(x, y) /\ Left(x) > 0 => ~ x.id < sell.id
           /\ \A y \in OnList(inner) : canMatch(sell, y) => ~ Before(y, buy)
    BY <1>1, <1>3, <1>4, FirstPairIsBest
  <2> HIDE DEF buy, sell
  <2> QED
    BY <1>7, <1>8, <2>1

\* What NothingToDoMeansNothingToMatch and BestPriceThenOldest say of a book.
NothingToMatch ==
  \A b \in Buys :
    /\ isMarketOrder(b) => Sellers(b) = {}
    /\ isLimitOrder(b) =>
         /\ ~\E s \in Sellers(b) : isMarketOrder(s)
         /\ Sellers(b) # {} =>
              \E c \in Buys : isLimitOrder(c) /\ BidBefore(c, b)

BestPair(buy, sell) ==
  /\ isLimitOrder(buy) /\ isLimitOrder(sell) => BestLimits(buy, sell)
  /\ isMarketOrder(buy) => BestForMarketBid(buy, sell)
  /\ isMarketOrder(sell) => BestForMarketAsk(buy, sell)

\* The next trade is between the best pair, and there is none only if nothing
\* matches.
LEMMA NextTradeCases ==
  ASSUME NEW b, RightBook(orders, b), Clean(b)
  PROVE  \/ NextTrade(b) = NoTrade /\ NothingToMatch
         \/ \E buy \in Buys, sell \in Sells :
              /\ NextTrade(b) = processMatch(buy, sell)
              /\ canMatch(buy, sell)
              /\ BestPair(buy, sell)
<1> DEFINE limits == matchOrders(b)
           buys == FirstPair(b.market_bids, b.asks)
           sells == FirstPair(b.market_asks, b.bids)
<1>1. /\ limits # NoTrade => NextTrade(b) = limits
      /\ limits = NoTrade /\ buys # <<>> =>
           NextTrade(b) = processMatch(b.market_bids[buys[1]], b.asks[buys[2]])
      /\ limits = NoTrade /\ buys = <<>> /\ sells # <<>> =>
           NextTrade(b) = processMatch(b.bids[sells[2]], b.market_asks[sells[1]])
      /\ limits = NoTrade /\ buys = <<>> /\ sells = <<>> => NextTrade(b) = NoTrade
  BY DEF NextTrade
<1> HIDE DEF limits, buys, sells
<1>2. /\ \A o \in Buys \cup Sells : isLimitOrder(o) \/ isMarketOrder(o)
      /\ \A o : ~ (isLimitOrder(o) /\ isMarketOrder(o))
  BY LiveOrders, OrderFields
  DEF RightBook, Buys, Sells, isLimitOrder, isMarketOrder, TYPE_LIMIT, TYPE_MARKET
<1>3. ASSUME NEW buy \in Buys, NEW sell \in Sells,
             isLimitOrder(buy), isLimitOrder(sell),
             limits = processMatch(buy, sell),
             canMatch(buy, sell), BestLimits(buy, sell)
      PROVE  \E x \in Buys, y \in Sells :
               /\ NextTrade(b) = processMatch(x, y)
               /\ canMatch(x, y)
               /\ BestPair(x, y)
  <2>1. BestPair(buy, sell)
    BY <1>2, <1>3 DEF BestPair
  <2>2. NextTrade(b) = processMatch(buy, sell)
    BY <1>1, <1>3, ProcessMatchIsATrade
  <2> QED
    BY <1>3, <2>1, <2>2
<1>4. ASSUME limits = NoTrade, buys # <<>>,
             NEW buy \in Buys, NEW sell \in Sells,
             isMarketOrder(buy), isLimitOrder(sell),
             buy = b.market_bids[buys[1]], sell = b.asks[buys[2]],
             canMatch(buy, sell), BestForMarketBid(buy, sell)
      PROVE  \E x \in Buys, y \in Sells :
               /\ NextTrade(b) = processMatch(x, y)
               /\ canMatch(x, y)
               /\ BestPair(x, y)
  <2>1. BestPair(buy, sell)
    BY <1>2, <1>4 DEF BestPair
  <2>2. NextTrade(b) = processMatch(buy, sell)
    BY <1>1, <1>4
  <2> QED
    BY <1>4, <2>1, <2>2
<1>5. ASSUME limits = NoTrade, buys = <<>>, sells # <<>>,
             NEW buy \in Buys, NEW sell \in Sells,
             isLimitOrder(buy), isMarketOrder(sell),
             buy = b.bids[sells[2]], sell = b.market_asks[sells[1]],
             canMatch(buy, sell), BestForMarketAsk(buy, sell)
      PROVE  \E x \in Buys, y \in Sells :
               /\ NextTrade(b) = processMatch(x, y)
               /\ canMatch(x, y)
               /\ BestPair(x, y)
  <2>1. BestPair(buy, sell)
    BY <1>2, <1>5 DEF BestPair
  <2>2. NextTrade(b) = processMatch(buy, sell)
    BY <1>1, <1>5
  <2> QED
    BY <1>5, <2>1, <2>2
<1>6. ASSUME limits = NoTrade, NoLimits,
             buys = <<>>, \A x \in Buys : isMarketOrder(x) => Sellers(x) = {},
             sells = <<>>, \A s \in Sells : isMarketOrder(s) => Buyers(s) = {}
      PROVE  NextTrade(b) = NoTrade /\ NothingToMatch
  <2>1. NextTrade(b) = NoTrade
    BY <1>1, <1>6
  <2>2. ASSUME NEW buy \in Buys, NEW s \in Sellers(buy)
        PROVE  /\ ~ isMarketOrder(s) /\ isLimitOrder(s)
               /\ isLimitOrder(buy) =>
                    \E c \in Buys : isLimitOrder(c) /\ BidBefore(c, buy)
    <3>1. s \in Sells /\ canMatch(buy, s)
      BY DEF Sellers
    <3>2. buy \in Buyers(s)
      BY <3>1 DEF Buyers
    <3>3. ~ isMarketOrder(s)
      BY <1>6, <3>1, <3>2
    <3>4. isLimitOrder(s)
      BY <1>2, <3>1, <3>3
    <3> QED
      BY <1>6, <3>3, <3>4 DEF NoLimits
  <2>3. NothingToMatch
    BY <1>6, <2>2 DEF NothingToMatch
  <2> QED
    BY <2>1, <2>3
<1>7. \/ limits = NoTrade /\ NoLimits
      \/ \E buy \in Buys, sell \in Sells :
           /\ isLimitOrder(buy) /\ isLimitOrder(sell)
           /\ limits = processMatch(buy, sell)
           /\ canMatch(buy, sell)
           /\ BestLimits(buy, sell)
  BY MatchOrdersCases DEF limits
<1>8. \/ buys = <<>> /\ \A x \in Buys : isMarketOrder(x) => Sellers(x) = {}
      \/ /\ buys # <<>>
         /\ \E buy \in Buys, sell \in Sells :
              /\ isMarketOrder(buy) /\ isLimitOrder(sell)
              /\ buy = b.market_bids[buys[1]] /\ sell = b.asks[buys[2]]
              /\ canMatch(buy, sell)
              /\ BestForMarketBid(buy, sell)
  BY MarketBidCases DEF buys
<1>9. \/ sells = <<>> /\ \A s \in Sells : isMarketOrder(s) => Buyers(s) = {}
      \/ /\ sells # <<>>
         /\ \E buy \in Buys, sell \in Sells :
              /\ isLimitOrder(buy) /\ isMarketOrder(sell)
              /\ buy = b.bids[sells[2]] /\ sell = b.market_asks[sells[1]]
              /\ canMatch(buy, sell)
              /\ BestForMarketAsk(buy, sell)
  BY MarketAskCases DEF sells
<1> QED
  BY <1>3, <1>4, <1>5, <1>6, <1>7, <1>8, <1>9

-----------------------------------------------------------------------------
(* Amounts.                                                                *)

LEMMA Division ==
  ASSUME NEW n \in Nat, NEW d \in Nat \ {0}
  PROVE  /\ n \div d \in Nat
         /\ (n \div d) * d <= n
         /\ n < ((n \div d) + 1) * d
OBVIOUS

LEMMA TimesMonotonic ==
  ASSUME NEW x \in Nat, NEW y \in Nat, NEW d \in Nat, x <= y
  PROVE  x * d <= y * d
OBVIOUS

LEMMA TimesCancels ==
  ASSUME NEW x \in Nat, NEW y \in Nat, NEW d \in Nat \ {0}, x * d <= y * d
  PROVE  x <= y
<1>1. SUFFICES ASSUME x >= y + 1 PROVE FALSE
  OBVIOUS
<1>2. x * d >= (y + 1) * d
  BY <1>1, TimesMonotonic
<1> QED
  BY <1>2

\* Towards zero is down, for what is not negative.
LEMMA QuotientIsDiv ==
  ASSUME NEW x \in Nat, NEW y
  PROVE  Quotient(x, y) = x \div y
BY DEF Quotient

\* A trade takes no more than what is left of either order, and all that is
\* left of one of them, up to a rest below the price of one token_b.
LEMMA TradedAmounts ==
  ASSUME NEW buy, NEW sell, buy.price \in Nat, sell.price \in Nat,
         Left(buy) \in Nat, Left(sell) \in Nat,
         NEW t, t = processMatch(buy, sell), t.kind = "trade"
  PROVE  /\ t.b_actual_amount \in Nat
         /\ t.a_actual_amount =
              (t.b_actual_amount * MatchPrice(buy, sell)) \div Precision
         /\ t.a_actual_amount \in Nat
         /\ \A o \in {buy, sell} :
              IF SizedInA(o) THEN t.a_actual_amount <= Left(o)
              ELSE t.b_actual_amount <= Left(o)
         /\ \E o \in {buy, sell} :
              IF SizedInA(o)
              THEN MatchPrice(buy, sell) * (t.b_actual_amount + 1)
                     > Left(o) * Precision
              ELSE t.b_actual_amount = Left(o)
<1> DEFINE price == MatchPrice(buy, sell)
           b == t.b_actual_amount
           a == t.a_actual_amount
<1>1. price \in Nat
  BY DEF MatchPrice
<1>2. Precision \in Nat \ {0}
  BY MatcherAssumption
<1>3. /\ ~ (price = 0 /\ (SizedInA(buy) \/ SizedInA(sell)))
      /\ b = Smaller(LeftInB(buy, price), LeftInB(sell, price))
      /\ a = Quotient(b * price, Precision)
  BY DEF processMatch, Thrown
<1> HIDE DEF price, a, b
<1>4. ASSUME NEW o \in {buy, sell}
      PROVE  /\ LeftInB(o, price) \in Nat
             /\ SizedInA(o) =>
                  /\ LeftInB(o, price) * price <= Left(o) * Precision
                  /\ Left(o) * Precision < (LeftInB(o, price) + 1) * price
             /\ ~ SizedInA(o) => LeftInB(o, price) = Left(o)
  <2>1. Left(o) \in Nat /\ Left(o) * Precision \in Nat
    BY <1>2, <1>4
  <2>2. CASE SizedInA(o)
    <3>1. price \in Nat \ {0}
      BY <1>1, <1>3, <1>4, <2>2
    <3>2. LeftInB(o, price) = (Left(o) * Precision) \div price
      BY <2>1, <2>2, QuotientIsDiv DEF LeftInB
    <3> QED
      BY <2>1, <2>2, <3>1, <3>2, Division
  <2>3. CASE ~ SizedInA(o)
    BY <2>1, <2>3 DEF LeftInB
  <2> QED
    BY <2>2, <2>3
<1>5. /\ b \in Nat
      /\ \A o \in {buy, sell} : b <= LeftInB(o, price)
      /\ \E o \in {buy, sell} : b = LeftInB(o, price)
  BY <1>3, <1>4 DEF Smaller
<1>6. /\ b * price \in Nat /\ a \in Nat
      /\ a = (b * price) \div Precision
  <2>1. b * price \in Nat
    BY <1>1, <1>5
  <2>2. a = (b * price) \div Precision
    BY <1>3, <2>1, QuotientIsDiv
  <2> QED
    BY <1>2, <2>1, <2>2, Division
<1>7. ASSUME NEW o \in {buy, sell}
      PROVE  IF SizedInA(o) THEN a <= Left(o) ELSE b <= Left(o)
  <2>1. CASE SizedInA(o)
    <3>1. LeftInB(o, price) \in Nat /\ b <= LeftInB(o, price) /\ Left(o) \in Nat
      BY <1>4, <1>5
    <3>2. b * price <= LeftInB(o, price) * price
      BY <1>1, <1>5, <3>1, TimesMonotonic
    <3>3. LeftInB(o, price) * price <= Left(o) * Precision
      BY <1>4, <2>1
    <3>4. b * price \in Nat /\ Left(o) * Precision \in Nat
          /\ LeftInB(o, price) * price \in Nat
      BY <1>1, <1>2, <1>5, <3>1
    <3>5. a \in Nat /\ a * Precision <= b * price
      BY <1>2, <1>6, <3>4, Division
    <3>6. a * Precision \in Nat
      BY <1>2, <3>5
    <3>7. a * Precision <= Left(o) * Precision
      BY <3>2, <3>3, <3>4, <3>5, <3>6
    <3> QED
      BY <1>2, <2>1, <3>1, <3>5, <3>7, TimesCancels
  <2>2. CASE ~ SizedInA(o)
    BY <1>4, <1>5, <2>2
  <2> QED
    BY <2>1, <2>2
<1>8. \E o \in {buy, sell} :
        IF SizedInA(o) THEN price * (b + 1) > Left(o) * Precision
        ELSE b = Left(o)
  <2>1. PICK o \in {buy, sell} : b = LeftInB(o, price)
    BY <1>5
  <2>2. SizedInA(o) => Left(o) * Precision < (b + 1) * price
    BY <1>4, <2>1
  <2>3. (b + 1) * price = price * (b + 1) /\ price * (b + 1) \in Nat
    BY <1>1, <1>5
  <2>4. Left(o) * Precision \in Nat
    BY <1>2
  <2>5. SizedInA(o) => price * (b + 1) > Left(o) * Precision
    BY <2>2, <2>3, <2>4
  <2>6. ~ SizedInA(o) => b = Left(o)
    BY <1>4, <2>1
  <2> QED
    BY <2>5, <2>6
<1> QED
  BY <1>5, <1>6, <1>7, <1>8 DEF a, b, price

-----------------------------------------------------------------------------
(* The invariant is inductive.                                             *)

LEMMA IInvInit == Init => IInv
BY EmptyBookIsRight DEF Init, IInv

LEMMA ReportKeepsIInv ==
  ASSUME IInv, NEW o \in Order, Report(o),
         \/ o.id = Len(orders) + 1
         \/ o.id \in 1 .. Len(orders) /\ Later(o, orders[o.id])
  PROVE  IInv'
<1>1. RightBook(orders, book)
  BY DEF IInv
<1>2. RightBook(orders', upsertOrder(book, o))
  BY <1>1, UpsertKeepsTheBook DEF Report
<1>3. book' = upsertOrder(book, o) /\ trade' = NoTrade
  BY DEF Report
<1>4. RightBook(orders', book')
  BY <1>2, <1>3
<1> QED
  BY <1>3, <1>4 DEF IInv

LEMMA ReportNewKeepsIInv ==
  ASSUME IInv, NEW type_ \in {TYPE_LIMIT, TYPE_MARKET},
         NEW flag \in {FLAG_BUY, FLAG_SELL}, NEW pid \in Pids,
         NEW price \in Nat, NEW b_amount \in Nat, NEW a_amount \in Nat,
         ReportNew(type_, flag, pid, price, b_amount, a_amount)
  PROVE  IInv'
<1> DEFINE o == [id |-> Len(orders) + 1, type_ |-> type_, status |-> "live",
                 pid |-> pid, flag |-> flag, price |-> price,
                 b_token_amount |-> b_amount, a_token_amount |-> a_amount,
                 already_deal_amount |-> 0]
<1>1. Len(orders) \in Nat
  BY DEF IInv, RightBook, RightOrders
<1>2. o \in Order /\ o.id = Len(orders) + 1
  BY <1>1 DEF Order
<1>3. Report(o)
  BY DEF ReportNew
<1> HIDE DEF o
<1> QED
  BY <1>2, <1>3, ReportKeepsIInv

LEMMA ReportDealKeepsIInv ==
  ASSUME IInv, NEW i \in DOMAIN orders, NEW amount \in Nat \ {0},
         ReportDeal(i, amount)
  PROVE  IInv'
<1> DEFINE o == [orders[i] EXCEPT !.already_deal_amount = @ + amount]
<1>1. orders[i] \in Order /\ orders[i].id = i /\ i \in 1 .. Len(orders)
  BY DEF IInv, RightBook, RightOrders
<1>2. /\ orders[i].already_deal_amount \in Nat /\ get_amount(orders[i]) \in Nat
      /\ Left(orders[i]) \in Int
  BY <1>1, OrderFields DEF get_amount
<1>3. /\ o \in Order /\ o.id = i
      /\ o.type_ = orders[i].type_ /\ o.flag = orders[i].flag
      /\ o.a_token_amount = orders[i].a_token_amount
      /\ o.b_token_amount = orders[i].b_token_amount
      /\ o.already_deal_amount = orders[i].already_deal_amount + amount
  <2>1. orders[i].already_deal_amount + amount \in Nat
    BY <1>2
  <2> QED
    BY <1>1, <2>1 DEF Order
<1>4. isLive(orders[i]) \/ Left(orders[i]) = 0
  BY DEF ReportDeal, is_live, isLive
<1>5. Report(o)
  BY DEF ReportDeal
<1> HIDE DEF o
<1>6. get_amount(o) = get_amount(orders[i])
  BY <1>3 DEF get_amount, SizedInA, isMarketOrder
<1>7. Left(o) = Left(orders[i]) - amount
  BY <1>2, <1>3, <1>6 DEF Left
<1>8. Later(o, orders[i])
  <2>1. Left(o) <= Left(orders[i]) /\ (Left(orders[i]) = 0 => ~ (Left(o) > 0))
    BY <1>2, <1>7
  <2> QED
    BY <1>3, <1>4, <2>1 DEF Later
<1> QED
  BY <1>1, <1>3, <1>5, <1>8, ReportKeepsIInv

LEMMA ReportCancelKeepsIInv ==
  ASSUME IInv, NEW i \in DOMAIN orders, ReportCancel(i)
  PROVE  IInv'
<1> DEFINE o == [orders[i] EXCEPT !.status = STATUS_CANCEL]
<1>1. /\ orders[i] \in Order /\ orders[i].id = i /\ i \in 1 .. Len(orders)
      /\ Left(orders[i]) \in Int
  <2>1. orders[i] \in Order /\ orders[i].id = i /\ i \in 1 .. Len(orders)
    BY DEF IInv, RightBook, RightOrders
  <2> QED
    BY <2>1, OrderFields
<1>2. /\ o \in Order /\ o.id = i
      /\ o.type_ = orders[i].type_ /\ o.flag = orders[i].flag
      /\ o.a_token_amount = orders[i].a_token_amount
      /\ o.b_token_amount = orders[i].b_token_amount
      /\ o.already_deal_amount = orders[i].already_deal_amount
  BY <1>1 DEF Order
<1>3. isLive(orders[i]) \/ Left(orders[i]) = 0
  BY DEF ReportCancel, is_live, isLive
<1>4. Report(o)
  BY DEF ReportCancel
<1> HIDE DEF o
<1>5. Left(o) = Left(orders[i])
  BY <1>2 DEF Left, get_amount, SizedInA, isMarketOrder
<1>6. Later(o, orders[i])
  BY <1>1, <1>2, <1>3, <1>5 DEF Later
<1> QED
  BY <1>1, <1>2, <1>4, <1>6, ReportKeepsIInv

LEMMA TryMatchKeepsIInv ==
  ASSUME IInv, TryMatch
  PROVE  IInv'
<1>1. RightBook(orders, book)
  BY DEF IInv
<1>2. /\ book' = removeMatchOrder(book) /\ orders' = orders
      /\ trade' = NextTrade(removeMatchOrder(book))
  BY DEF TryMatch, tryMatchOrder
<1> DEFINE c == removeMatchOrder(book)
<1>3. RightBook(orders, c) /\ Clean(c)
  BY <1>1, CleanedBook
<1> HIDE DEF c
<1>4. book' = c /\ trade' = NextTrade(c)
  BY <1>2 DEF c
<1>5. trade' = NextTrade(book')
  BY <1>4
<1>6. RightBook(orders', book') /\ Clean(book')
  BY <1>2, <1>3, <1>4
<1> QED
  BY <1>5, <1>6 DEF IInv

LEMMA IInvNext == IInv /\ [Next]_vars => IInv'
<1> SUFFICES ASSUME IInv, [Next]_vars PROVE IInv'
  OBVIOUS
<1>1. ASSUME NEW flag \in {FLAG_BUY, FLAG_SELL}, NEW pid \in Pids,
             NEW price \in Prices, NEW amount \in LimitAmounts,
             ReportNew(TYPE_LIMIT, flag, pid, price, amount, 0)
      PROVE  IInv'
  <2>1. price \in Nat /\ amount \in Nat
    BY MatcherAssumption
  <2> QED
    BY <1>1, <2>1, ReportNewKeepsIInv
<1>2. ASSUME NEW flag \in {FLAG_BUY, FLAG_SELL}, NEW pid \in Pids,
             NEW amount \in MarketAmounts,
             \/ ReportNew(TYPE_MARKET, flag, pid, 0, amount, 0)
             \/ ReportNew(TYPE_MARKET, flag, pid, 0, 0, amount)
      PROVE  IInv'
  <2>1. amount \in Nat /\ 0 \in Nat
    BY MatcherAssumption
  <2> QED
    BY <1>2, <2>1, ReportNewKeepsIInv
<1>3. ASSUME NEW i \in DOMAIN orders,
             NEW amount \in 1 .. Left(orders[i]) + MaxOverfill,
             ReportDeal(i, amount)
      PROVE  IInv'
  <2>1. amount \in Nat \ {0}
    OBVIOUS
  <2> QED
    BY <1>3, <2>1, ReportDealKeepsIInv
<1>4. ASSUME NEW i \in DOMAIN orders, ReportCancel(i) PROVE IInv'
  BY <1>4, ReportCancelKeepsIInv
<1>5. CASE TryMatch
  BY <1>5, TryMatchKeepsIInv
<1>6. CASE UNCHANGED vars
  BY <1>6 DEF vars, IInv, RightBook, RightOrders, RightList, Clean
<1> QED
  BY <1>1, <1>2, <1>3, <1>4, <1>5, <1>6 DEF Next

LEMMA IInvAlways == Spec => []IInv
BY IInvInit, IInvNext, PTL DEF Spec

-----------------------------------------------------------------------------
(* What the matcher promises.                                              *)

\* Orders are on the same list, and so at the same place, if they have one id.
LEMMA OnceOnItsList ==
  ASSUME NEW os, NEW b, RightBook(os, b), NEW name \in Lists,
         NEW k \in 1 .. Len(b[name]), NEW l \in 1 .. Len(b[name]),
         b[name][k].id = b[name][l].id
  PROVE  k = l
<1> DEFINE list == b[name]
<1>1. RightList(os, list, name)
  BY DEF RightBook
<1> HIDE DEF list
<1>2. /\ list \in Seq(Order) /\ k \in 1 .. Len(list) /\ l \in 1 .. Len(list)
      /\ list[k].id = list[l].id
  BY <1>1 DEF RightList, list
<1>3. list[k] = list[l]
  BY <1>1, <1>2, OnListDef DEF RightList
<1>4. /\ list[k] \in Order /\ list[l] \in Order
      /\ list[k].id \in Int /\ list[k].price \in Int
      /\ ~ list[k].id < list[k].id
  BY <1>2, OrderFields
<1>5. ~ Before(list[k], list[k])
  BY <1>4, BeforeIsAnOrder
<1>6. CASE BestFirst(list)
  BY <1>2, <1>3, <1>5, <1>6 DEF BestFirst
<1>7. CASE Aged(list)
  BY <1>2, <1>3, <1>4, <1>7 DEF Aged
<1> QED
  BY <1>1, <1>6, <1>7 DEF RightList

LEMMA TheBookHoldsTheLiveOrders == IInv => BookHoldsTheLiveOrders
<1> SUFFICES ASSUME IInv PROVE BookHoldsTheLiveOrders
  OBVIOUS
<1> DEFINE c == removeMatchOrder(book)
<1>1. RightBook(orders, c) /\ Clean(c)
  BY CleanedBook DEF IInv
<1> HIDE DEF c
<1>2. /\ OnList(c.bids) = {o \in Buys : isLimitOrder(o)}
      /\ OnList(c.asks) = {o \in Sells : isLimitOrder(o)}
      /\ OnList(c.market_bids) = {o \in Buys : isMarketOrder(o)}
      /\ OnList(c.market_asks) = {o \in Sells : isMarketOrder(o)}
  BY <1>1, ListsOfTheLive
<1>3. DOMAIN c = Lists
  BY <1>1 DEF RightBook
<1>4. InBook(c) = OnList(c.bids) \cup OnList(c.asks)
                    \cup OnList(c.market_bids) \cup OnList(c.market_asks)
  BY <1>3 DEF InBook, Lists
<1>5. \A o \in Live : /\ isLimitOrder(o) \/ isMarketOrder(o)
                      /\ o \in Buys \/ o \in Sells
  BY <1>1, LiveOrders, OrderFields
  DEF RightBook, Buys, Sells, isLimitOrder, isMarketOrder
<1>6. InBook(c) = Live
  BY <1>2, <1>4, <1>5 DEF Buys, Sells
<1>7. ASSUME NEW name \in Lists, NEW k \in DOMAIN c[name],
             NEW l \in DOMAIN c[name], c[name][k].id = c[name][l].id
      PROVE  k = l
  <2>1. DOMAIN c[name] = 1 .. Len(c[name])
    BY <1>1 DEF RightBook, RightList
  <2> QED
    BY <1>1, <1>7, <2>1, OnceOnItsList
<1> QED
  BY <1>3, <1>6, <1>7 DEF BookHoldsTheLiveOrders, c

\* The parties of a trade, as the book chose them.
LEMMA TradedPair ==
  ASSUME IInv, Traded
  PROVE  \E buy \in Buys, sell \in Sells :
           /\ trade = processMatch(buy, sell)
           /\ canMatch(buy, sell)
           /\ BestPair(buy, sell)
           /\ Buyer = buy /\ Seller = sell
<1>1. RightBook(orders, book) /\ RightOrders(orders)
  BY DEF IInv, RightBook
<1>2. Clean(book) /\ trade = NextTrade(book) /\ trade # NoTrade
  BY DEF IInv, Traded, NoTrade
<1>3. PICK buy \in Buys, sell \in Sells :
        /\ NextTrade(book) = processMatch(buy, sell)
        /\ canMatch(buy, sell)
        /\ BestPair(buy, sell)
  BY <1>1, <1>2, NextTradeCases
<1>4. trade.a_order_id = buy.id /\ trade.b_order_id = sell.id
  BY <1>2, <1>3, ProcessMatchIsATrade DEF Traded
<1>5. orders[buy.id] = buy /\ orders[sell.id] = sell
  BY <1>1, LiveOrders DEF Buys, Sells
<1>6. Buyer = buy /\ Seller = sell
  BY <1>4, <1>5 DEF Buyer, Seller
<1> QED
  BY <1>2, <1>3, <1>6

LEMMA TheBestPriceThenOldest == IInv => BestPriceThenOldest
<1> SUFFICES ASSUME IInv, Traded PROVE BestPriceThenOldest
  BY DEF BestPriceThenOldest
<1>1. PICK buy \in Buys, sell \in Sells :
        BestPair(buy, sell) /\ Buyer = buy /\ Seller = sell
  BY TradedPair
<1> QED
  BY <1>1 DEF BestPriceThenOldest, BestPair, BestLimits, BestForMarketBid,
              BestForMarketAsk

LEMMA TheTradeIsWanted == IInv => TradeIsWanted
<1> SUFFICES ASSUME IInv, Traded PROVE TradeIsWanted
  BY DEF TradeIsWanted
<1>1. PICK buy \in Buys, sell \in Sells :
        /\ trade = processMatch(buy, sell) /\ canMatch(buy, sell)
        /\ Buyer = buy /\ Seller = sell
  BY TradedPair
<1>2. /\ buy \in Order /\ Left(buy) \in Int /\ buy.flag = FLAG_BUY
      /\ sell \in Order /\ Left(sell) \in Int /\ sell.flag = FLAG_SELL
  BY LiveOrders DEF IInv, RightBook, Buys, Sells
<1>3. buy.price \in Nat /\ sell.price \in Nat
  BY <1>2, OrderFields
<1>4. /\ isLimitOrder(buy) => MatchPrice(buy, sell) <= buy.price
      /\ isLimitOrder(sell) => MatchPrice(buy, sell) >= sell.price
  BY <1>1, <1>2, <1>3, MatchPrices DEF MatchPrice
<1>5. \A o \in {buy, sell} :
        isLimitOrder(o) =>
          IF o.flag = FLAG_BUY THEN MatchPrice(buy, sell) <= o.price
          ELSE MatchPrice(buy, sell) >= o.price
  BY <1>2, <1>4 DEF FLAG_BUY, FLAG_SELL
<1>6. ASSUME Left(buy) > 0, Left(sell) > 0
      PROVE  \A o \in {buy, sell} :
               IF SizedInA(o) THEN trade.a_actual_amount <= Left(o)
               ELSE trade.b_actual_amount <= Left(o)
  <2>1. Left(buy) \in Nat /\ Left(sell) \in Nat
    BY <1>2, <1>6
  <2> QED
    BY <1>1, <1>3, <2>1, TradedAmounts DEF Traded
<1>7. buy.pid # sell.pid
  BY <1>1 DEF canMatch
<1> QED
  BY <1>1, <1>5, <1>6, <1>7 DEF TradeIsWanted, WithinSize

LEMMA TheTradeFinishesAnOrder == IInv => TradeFinishesAnOrder
<1> SUFFICES ASSUME IInv, Traded, WithinSize PROVE TradeFinishesAnOrder
  BY DEF TradeFinishesAnOrder
<1>1. PICK buy \in Buys, sell \in Sells :
        /\ trade = processMatch(buy, sell)
        /\ Buyer = buy /\ Seller = sell
  BY TradedPair
<1>2. /\ buy.price \in Nat /\ Left(buy) \in Int
      /\ sell.price \in Nat /\ Left(sell) \in Int
  BY LiveOrders, OrderFields DEF IInv, RightBook, Buys, Sells
<1>3. Left(buy) \in Nat /\ Left(sell) \in Nat
  BY <1>1, <1>2 DEF WithinSize
<1>4. \E o \in {buy, sell} :
        IF SizedInA(o)
        THEN MatchPrice(buy, sell) * (trade.b_actual_amount + 1)
               > Left(o) * Precision
        ELSE trade.b_actual_amount = Left(o)
  BY <1>1, <1>2, <1>3, TradedAmounts DEF Traded
<1> QED
  BY <1>1, <1>4 DEF TradeFinishesAnOrder

LEMMA NothingToDo == IInv => NothingToDoMeansNothingToMatch
<1> SUFFICES ASSUME IInv, NextTrade(removeMatchOrder(book)) = NoTrade
             PROVE  NothingToDoMeansNothingToMatch
  BY DEF NothingToDoMeansNothingToMatch
<1> DEFINE c == removeMatchOrder(book)
<1>1. RightBook(orders, c) /\ Clean(c) /\ NextTrade(c) = NoTrade
  BY CleanedBook DEF IInv
<1> HIDE DEF c
<1>2. NothingToMatch
  BY <1>1, NextTradeCases, ProcessMatchIsATrade
<1> QED
  BY <1>2 DEF NothingToMatch, NothingToDoMeansNothingToMatch

\* The lists that upsertOrder and removeMatchOrder keep hold every live order,
\* as the service last heard of it, each once, and nothing else.
THEOREM BookHoldsTheLiveOrdersCorrect == Spec => []BookHoldsTheLiveOrders
BY IInvAlways, TheBookHoldsTheLiveOrders, PTL

\* Price, then age, decide who trades in tryMatchOrder: no better bid and no
\* better matching counterparty is passed over, nor an older market order that
\* trades have not overfilled.
THEOREM BestPriceThenOldestCorrect == Spec => []BestPriceThenOldest
BY IInvAlways, TheBestPriceThenOldest, PTL

\* The trades that processMatch computes keep both limits and, unless one of
\* them is overfilled, exceed neither order, at every precision.
THEOREM TradeIsWantedCorrect == Spec => []TradeIsWanted
BY IInvAlways, TheTradeIsWanted, PTL

\* A trade of processMatch finishes one of its orders if none of them is
\* overfilled, at every precision.
THEOREM TradeFinishesAnOrderCorrect == Spec => []TradeFinishesAnOrder
BY IInvAlways, TheTradeFinishesAnOrder, PTL

\* When tryMatchOrder finds no trade, no market order has a counterparty, and
\* only bids behind a better bid do.
THEOREM NothingToDoCorrect == Spec => []NothingToDoMeansNothingToMatch
BY IInvAlways, NothingToDo, PTL
=============================================================================
