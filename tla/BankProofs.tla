------------------------------ MODULE BankProofs ------------------------------
(***************************************************************************)
(* A bank is sound, whatever its players, tokens and amounts.               *)
(***************************************************************************)
EXTENDS Bank, SumsProofs

BankConstants ==
  /\ NumPlayers \in Nat
  /\ FeeToken \in Tokens
  /\ Fee \in Nat
  /\ Amounts \subseteq Nat

\* Total with the holdings as a parameter.
SumOf(h, t) == SumTo([p \in Players |-> h[p][t]], NumPlayers)
Holdings == [Players -> [Tokens -> Nat]]

LEMMA SumOfType ==
  ASSUME BankConstants, NEW h \in Holdings, NEW t \in Tokens
  PROVE  SumOf(h, t) \in Nat
<1> DEFINE f == [p \in Players |-> h[p][t]]
<1>1. \A p \in 1 .. NumPlayers : f[p] \in Nat
  BY DEF Holdings, Players
<1> HIDE DEF f
<1>2. SumTo(f, NumPlayers) \in Nat
  BY <1>1, SumToNat DEF BankConstants
<1> QED
  BY <1>2 DEF SumOf, f

LEMMA TotalIs ==
  ASSUME BankConstants, BankType, NEW t \in Tokens
  PROVE  /\ Total(t) = SumOf(held, t) + FeesIn(t) + debited[t]
         /\ SumOf(held, t) \in Nat
         /\ FeesIn(t) \in Nat /\ debited[t] \in Nat /\ credited[t] \in Nat
<1>1. SumOf(held, t) \in Nat
  BY SumOfType DEF BankType, Holdings
<1> QED
  BY <1>1 DEF BankType, FeesIn, Total, SumOf

LEMMA TotalIsNext ==
  ASSUME BankConstants, BankType', NEW t \in Tokens
  PROVE  /\ Total(t)' = SumOf(held', t) + FeesIn(t)' + debited'[t]
         /\ SumOf(held', t) \in Nat
         /\ FeesIn(t)' \in Nat /\ debited'[t] \in Nat /\ credited'[t] \in Nat
<1>1. SumOf(held', t) \in Nat
  BY SumOfType DEF BankType, Holdings
<1> QED
  BY <1>1 DEF BankType, FeesIn, Total, SumOf

\* One holding changes.
LEMMA OneChanges ==
  ASSUME BankConstants, NEW h \in Holdings, NEW k \in Holdings,
         NEW p \in Players, NEW t \in Tokens,
         \A r \in Players : r # p => k[r][t] = h[r][t]
  PROVE  SumOf(k, t) = SumOf(h, t) - h[p][t] + k[p][t]
<1> DEFINE f == [r \in Players |-> h[r][t]]
           g == [r \in Players |-> k[r][t]]
<1>1. \A r \in 1 .. NumPlayers :
        /\ f[r] = h[r][t] /\ g[r] = k[r][t]
        /\ f[r] \in Int /\ g[r] \in Int
  BY DEF Holdings, Players
<1>2. NumPlayers \in Nat /\ p \in 1 .. NumPlayers
  BY DEF BankConstants, Players
<1> HIDE DEF f, g
<1>3. \A r \in 1 .. NumPlayers : r # p => g[r] = f[r]
  BY <1>1 DEF Players
<1>4. SumTo(g, NumPlayers) = SumTo(f, NumPlayers) - f[p] + g[p]
  BY <1>1, <1>2, <1>3, SumToUpdate
<1> QED
  BY <1>1, <1>2, <1>4 DEF SumOf, f, g

\* Two holdings change.
LEMMA TwoChange ==
  ASSUME BankConstants, NEW h \in Holdings, NEW k \in Holdings,
         NEW p \in Players, NEW q \in Players, p # q, NEW t \in Tokens,
         \A r \in Players \ {p, q} : k[r][t] = h[r][t]
  PROVE  SumOf(k, t) =
           SumOf(h, t) - h[p][t] + k[p][t] - h[q][t] + k[q][t]
<1> DEFINE f == [r \in Players |-> h[r][t]]
           g == [r \in Players |-> k[r][t]]
<1>1. \A r \in 1 .. NumPlayers :
        /\ f[r] = h[r][t] /\ g[r] = k[r][t]
        /\ f[r] \in Int /\ g[r] \in Int
  BY DEF Holdings, Players
<1>2. NumPlayers \in Nat /\ p \in 1 .. NumPlayers /\ q \in 1 .. NumPlayers
  BY DEF BankConstants, Players
<1> HIDE DEF f, g
<1>3. \A r \in 1 .. NumPlayers : r # p /\ r # q => g[r] = f[r]
  BY <1>1 DEF Players
<1>4. SumTo(g, NumPlayers) =
        SumTo(f, NumPlayers) - f[p] + g[p] - f[q] + g[q]
  BY <1>1, <1>2, <1>3, SumToUpdateTwo
<1> QED
  BY <1>1, <1>2, <1>4 DEF SumOf, f, g

\* What two players hold of a token and its fees are within its total.
LEMMA TwoFit ==
  ASSUME BankConstants, BankType, NEW p \in Players, NEW q \in Players, p # q,
         NEW t \in Tokens
  PROVE  held[p][t] + held[q][t] + FeesIn(t) <= Total(t)
<1> DEFINE k == [r \in Players |->
                   [u \in Tokens |-> IF r \in {p, q} THEN 0 ELSE held[r][u]]]
<1>1. held \in Holdings /\ held[p][t] \in Nat /\ held[q][t] \in Nat
  BY DEF BankType, Holdings
<1>2. /\ k \in Holdings /\ k[p][t] = 0 /\ k[q][t] = 0
      /\ \A r \in Players \ {p, q} : k[r][t] = held[r][t]
  BY DEF BankType, Holdings
<1> HIDE DEF k
<1>3. /\ SumOf(k, t) = SumOf(held, t) - held[p][t] - held[q][t]
      /\ SumOf(k, t) \in Nat
  <2>1. SumOf(k, t) = SumOf(held, t) - held[p][t] + k[p][t]
                        - held[q][t] + k[q][t]
    BY <1>1, <1>2, TwoChange
  <2>2. SumOf(k, t) \in Nat /\ SumOf(held, t) \in Nat
    BY <1>1, <1>2, SumOfType
  <2> QED
    BY <1>1, <1>2, <2>1, <2>2
<1> QED
  BY <1>1, <1>3, TotalIs

\* Every step keeps the types of a bank.
LEMMA BankTypeKept ==
  ASSUME BankConstants, BankType, Next PROVE BankType'
<1>1. CASE \E p, q \in Players, fee_p, fee_q \in {0, Fee} :
             Settle(p, q, fee_p, fee_q)
  BY <1>1 DEF Settle, Arrives, BankType
<1>2. CASE \E p \in Players, t \in Tokens, n \in Amounts : Credit(p, t, n)
  BY <1>2 DEF Credit, BankType, BankConstants
<1>3. CASE \E p \in Players, t \in Tokens, n \in Amounts : Debit(p, t, n)
  BY <1>3 DEF Debit, BankType, BankConstants
<1>4. CASE \E p, q \in Players, t \in Tokens, n \in Amounts : Move(p, q, t, n)
  <2>1. PICK p \in Players, q \in Players, t \in Tokens, n \in Amounts :
          Move(p, q, t, n)
    BY <1>4
  <2> DEFINE h == [held EXCEPT ![p][t] = @ - n]
  <2>2. n \in Nat /\ n <= held[p][t]
    BY <2>1 DEF Move, BankConstants
  <2>3. h \in [Players -> [Tokens -> Nat]]
    BY <2>2 DEF BankType
  <2>4. held' = [h EXCEPT ![q][t] = @ + n]
    BY <2>1 DEF Move
  <2> HIDE DEF h
  <2>5. held' \in [Players -> [Tokens -> Nat]]
    BY <2>2, <2>3, <2>4
  <2> QED
    BY <2>1, <2>5 DEF Move, BankType
<1> QED
  BY <1>1, <1>2, <1>3, <1>4 DEF Next

LEMMA SettleSound ==
  ASSUME BankConstants, BankType, BankType', Sound,
         NEW p \in Players, NEW q \in Players,
         NEW fee_p \in {0, Fee}, NEW fee_q \in {0, Fee},
         Settle(p, q, fee_p, fee_q)
  PROVE  Sound'
<1> SUFFICES ASSUME NEW t \in Tokens
             PROVE  /\ Total(t)' <= credited'[t]
                    /\ credited'[t] <= Capacity => Total(t)' = credited'[t]
  BY DEF Sound
<1>1. PICK a \in Tokens, b \in Tokens, x \in Amounts, y \in Amounts :
        /\ Arrives(held'[p][t], held[p][t] - Part(t, a, x) + Part(t, b, y)
                                  - Part(t, FeeToken, fee_p), t)
        /\ held'[q][t] = held[q][t] + Part(t, a, x) - Part(t, b, y)
                           - Part(t, FeeToken, fee_q)
  BY DEF Settle
<1>2. /\ Part(t, a, x) \in Nat /\ Part(t, b, y) \in Nat
      /\ Part(t, FeeToken, fee_p) \in Nat /\ Part(t, FeeToken, fee_q) \in Nat
      /\ fee_p \in Nat /\ fee_q \in Nat
  BY DEF Part, BankConstants
<1>3. /\ held[p][t] \in Nat /\ held[q][t] \in Nat
      /\ held'[p][t] \in Nat /\ held'[q][t] \in Nat
      /\ fees \in Nat /\ fees' \in Nat
  BY DEF BankType
<1>4. SumOf(held', t) =
        SumOf(held, t) - held[p][t] + held'[p][t]
          - held[q][t] + held'[q][t]
  <2>1. /\ held \in Holdings /\ held' \in Holdings /\ p # q
        /\ \A r \in Players \ {p, q} : held'[r] = held[r]
    BY DEF Settle, BankType, Holdings
  <2> QED
    BY <2>1, TwoChange
<1>5. /\ FeesIn(t)' <= FeesIn(t) + Part(t, FeeToken, fee_p)
                         + Part(t, FeeToken, fee_q)
      /\ credited[t] <= Capacity =>
           FeesIn(t)' = FeesIn(t) + Part(t, FeeToken, fee_p)
                          + Part(t, FeeToken, fee_q)
  BY <1>2, <1>3 DEF Settle, Arrives, FeesIn, Part
<1>6. /\ held'[p][t] <= held[p][t] - Part(t, a, x) + Part(t, b, y)
                          - Part(t, FeeToken, fee_p)
      /\ credited[t] <= Capacity =>
           held'[p][t] = held[p][t] - Part(t, a, x) + Part(t, b, y)
                           - Part(t, FeeToken, fee_p)
  BY <1>1, <1>2, <1>3 DEF Arrives
<1>7. /\ Total(t) = SumOf(held, t) + FeesIn(t) + debited[t]
      /\ SumOf(held, t) \in Nat
      /\ FeesIn(t) \in Nat /\ debited[t] \in Nat /\ credited[t] \in Nat
  BY TotalIs
<1>8. /\ Total(t)' = SumOf(held', t) + FeesIn(t)' + debited'[t]
      /\ SumOf(held', t) \in Nat /\ FeesIn(t)' \in Nat
  BY TotalIsNext
<1>9. debited'[t] = debited[t] /\ credited'[t] = credited[t]
  BY DEF Settle
<1>10. /\ Total(t) <= credited[t]
       /\ credited[t] <= Capacity => Total(t) = credited[t]
  BY DEF Sound
<1> QED
  BY <1>1, <1>2, <1>3, <1>4, <1>5, <1>6, <1>7, <1>8, <1>9, <1>10

\* A step that changes the totals by what it credits.
LEMMA SoundByTotals ==
  ASSUME Sound,
         \A t \in Tokens : /\ Total(t) \in Int /\ credited[t] \in Int
                           /\ credited'[t] \in Int
                           /\ credited[t] <= credited'[t]
                           /\ Total(t)' - Total(t) = credited'[t] - credited[t]
                           /\ Total(t)' \in Int,
         Capacity \in Int
  PROVE  Sound'
<1> SUFFICES ASSUME NEW t \in Tokens
             PROVE  /\ Total(t)' <= credited'[t]
                    /\ credited'[t] <= Capacity => Total(t)' = credited'[t]
  BY DEF Sound
<1>1. /\ Total(t) <= credited[t]
      /\ credited[t] <= Capacity => Total(t) = credited[t]
  BY DEF Sound
<1> QED
  BY <1>1

LEMMA NextSound ==
  ASSUME BankConstants, Capacity \in Int, BankType, Sound, Next
  PROVE  BankType' /\ Sound'
<1>0. BankType'
  BY BankTypeKept
<1>1. CASE \E p, q \in Players, fee_p, fee_q \in {0, Fee} :
             Settle(p, q, fee_p, fee_q)
  BY <1>0, <1>1, SettleSound
<1>2. ASSUME NEW p \in Players, NEW t \in Tokens, NEW n \in Amounts,
             Credit(p, t, n) \/ Debit(p, t, n)
      PROVE  Sound'
  <2> SUFFICES ASSUME NEW u \in Tokens
               PROVE  /\ Total(u) \in Int /\ credited[u] \in Int
                      /\ credited'[u] \in Int
                      /\ credited[u] <= credited'[u]
                      /\ Total(u)' - Total(u) = credited'[u] - credited[u]
                      /\ Total(u)' \in Int
    BY SoundByTotals
  <2>1. n \in Nat
    BY DEF BankConstants
  <2>2. \A r \in Players : r # p => held'[r][u] = held[r][u]
    BY <1>2 DEF Credit, Debit, BankType
  <2>3. SumOf(held', u) =
          SumOf(held, u) - held[p][u] + held'[p][u]
    BY <1>0, <2>2, OneChanges DEF BankType, Holdings
  <2>4. held'[p][u] - held[p][u] + debited'[u] - debited[u]
          = credited'[u] - credited[u]
    <3>1. CASE Credit(p, t, n)
      BY <2>1, <3>1 DEF Credit, BankType
    <3>2. CASE Debit(p, t, n)
      BY <2>1, <3>2 DEF Debit, BankType
    <3> QED
      BY <1>2, <3>1, <3>2
  <2>5. credited[u] <= credited'[u] /\ FeesIn(u)' = FeesIn(u)
    BY <1>2, <2>1 DEF Credit, Debit, BankType, FeesIn
  <2>6. /\ Total(u) = SumOf(held, u) + FeesIn(u) + debited[u]
        /\ SumOf(held, u) \in Nat
        /\ FeesIn(u) \in Nat /\ debited[u] \in Nat /\ credited[u] \in Nat
    BY TotalIs
  <2>7. /\ Total(u)' = SumOf(held', u) + FeesIn(u)' + debited'[u]
        /\ SumOf(held', u) \in Nat
        /\ debited'[u] \in Nat /\ credited'[u] \in Nat
    BY <1>0, TotalIsNext
  <2>8. held[p][u] \in Nat /\ held'[p][u] \in Nat
    BY <1>0 DEF BankType
  <2> QED
    BY <2>3, <2>4, <2>5, <2>6, <2>7, <2>8
<1>3. ASSUME NEW p \in Players, NEW q \in Players, NEW t \in Tokens,
             NEW n \in Amounts, Move(p, q, t, n)
      PROVE  Sound'
  <2> SUFFICES ASSUME NEW u \in Tokens
               PROVE  /\ Total(u) \in Int /\ credited[u] \in Int
                      /\ credited'[u] \in Int
                      /\ credited[u] <= credited'[u]
                      /\ Total(u)' - Total(u) = credited'[u] - credited[u]
                      /\ Total(u)' \in Int
    BY SoundByTotals
  <2>1. n \in Nat /\ p # q
    BY <1>3 DEF BankConstants, Move
  <2>2. \A r \in Players \ {p, q} : held'[r][u] = held[r][u]
    BY <1>3 DEF Move, BankType
  <2>3. SumOf(held', u) =
          SumOf(held, u) - held[p][u] + held'[p][u]
            - held[q][u] + held'[q][u]
    <3>1. held \in Holdings /\ held' \in Holdings
      BY <1>0 DEF BankType, Holdings
    <3> QED
      BY <2>1, <2>2, <3>1, TwoChange
  <2>4. held'[p][u] - held[p][u] + held'[q][u] - held[q][u] = 0
    BY <1>3, <2>1 DEF Move, BankType
  <2>5. /\ credited'[u] = credited[u] /\ debited'[u] = debited[u]
        /\ FeesIn(u)' = FeesIn(u)
    BY <1>3 DEF Move, FeesIn
  <2>6. /\ Total(u) = SumOf(held, u) + FeesIn(u) + debited[u]
        /\ SumOf(held, u) \in Nat
        /\ FeesIn(u) \in Nat /\ debited[u] \in Nat /\ credited[u] \in Nat
    BY TotalIs
  <2>7. /\ Total(u)' = SumOf(held', u) + FeesIn(u)' + debited'[u]
        /\ SumOf(held', u) \in Nat
    BY <1>0, TotalIsNext
  <2>8. /\ held[p][u] \in Nat /\ held'[p][u] \in Nat
        /\ held[q][u] \in Nat /\ held'[q][u] \in Nat
    BY <1>0 DEF BankType
  <2> QED
    BY <2>3, <2>4, <2>5, <2>6, <2>7, <2>8
<1> QED
  BY <1>0, <1>1, <1>2, <1>3 DEF Next

\* Whatever its players do, a bank holds no more of a token than was credited,
\* and nothing less of one that its numbers can count.
THEOREM BankIsSound ==
  ASSUME BankConstants, Capacity \in Int PROVE Spec => [](BankType /\ Sound)
<1>1. Init => BankType /\ Sound
  BY DEF Init, Sound, BankType
<1>2. BankType /\ Sound /\ [Next]_bank_vars => BankType' /\ Sound'
  <2>1. CASE Next
    BY <2>1, NextSound
  <2>2. CASE UNCHANGED bank_vars
    BY <2>2 DEF bank_vars, BankType, Sound, Total, FeesIn
  <2> QED
    BY <2>1, <2>2
<1> QED
  BY <1>1, <1>2, PTL DEF Spec
===============================================================================
