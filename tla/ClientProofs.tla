---------------------------- MODULE ClientProofs ----------------------------
(***************************************************************************)
(* The two directions of the wire, for every word, key, address and record: *)
(* what the methods of api.ts pack is what transaction.rs decodes, and what *)
(* add_event and insert_event push is what eventCallback reads. Then the    *)
(* invariants of Client: every executed transaction is what its call asked, *)
(* an outdated nonce has lost to another call of the same key, and the      *)
(* documents are the records the application stores.                        *)
(***************************************************************************)
EXTENDS Client, SumsProofs, SequenceTheorems, TLAPS

-----------------------------------------------------------------------------
(* Words.                                                                  *)

Bytes == Seq(Nat)
U64 == {w \in Bytes : Len(w) = 8}

LEMMA SameSequence ==
  ASSUME NEW S, NEW s \in Seq(S), NEW t \in Seq(S), Len(s) = Len(t),
         \A i \in 1 .. Len(s) : s[i] = t[i]
  PROVE  s = t
BY SeqEqual

LEMMA Part ==
  ASSUME NEW S, NEW s \in Seq(S), NEW m \in Nat, NEW n \in Nat,
         1 <= m, m <= n, n <= Len(s)
  PROVE  /\ SubSeq(s, m, n) \in Seq(S)
         /\ Len(SubSeq(s, m, n)) = n - m + 1
         /\ \A i \in 1 .. n - m + 1 : SubSeq(s, m, n)[i] = s[m + i - 1]
<1>1. \A i \in m .. n : s[i] \in S
  OBVIOUS
<1> QED
  BY <1>1, SubSeqProperties

LEMMA SecondPart ==
  ASSUME NEW S, NEW s \in Seq(S), NEW t \in Seq(S), NEW m \in Nat, NEW n \in Nat,
         m = Len(s) + 1, n = Len(s) + Len(t), Len(t) > 0
  PROVE  SubSeq(s \o t, m, n) = t
<1>1. Len(s) \in Nat /\ Len(t) \in Nat /\ Len(t) > 0
  OBVIOUS
<1>2. m \in Len(s) + 1 .. Len(s) + Len(t) /\ n \in Len(s) + 1 .. Len(s) + Len(t)
  BY <1>1
<1>3. SubSeq(s \o t, m, n) = SubSeq(t, m - Len(s), n - Len(s))
  BY <1>2, SubSeqOfConcat2
<1>4. m - Len(s) = 1 /\ n - Len(s) = Len(t)
  BY <1>1
<1> QED
  BY <1>3, <1>4, SubSeqFull

LEMMA ReversedTwice ==
  ASSUME NEW S, NEW s \in Seq(S)
  PROVE  FromHex(Reverse(s)) = s
<1> DEFINE n == Len(s)
           r == [i \in 1 .. n |-> s[(n - i) + 1]]
<1>1. n \in Nat
  OBVIOUS
<1>2. Reverse(s) = r
  BY DEF Reverse
<1>3. r \in Seq(S) /\ Len(r) = n
  OBVIOUS
<1>4. FromHex(r) = [i \in 1 .. n |-> r[(n - i) + 1]]
  BY <1>3 DEF FromHex, Reverse
<1>5. ASSUME NEW i \in 1 .. n PROVE r[(n - i) + 1] = s[i]
  <2>1. (n - i) + 1 \in 1 .. n /\ (n - ((n - i) + 1)) + 1 = i
    BY <1>1
  <2> QED
    BY <2>1
<1> DEFINE t == [i \in 1 .. n |-> r[(n - i) + 1]]
<1>6. \A i \in 1 .. n : t[i] = s[i]
  BY <1>5
<1>7. t \in Seq(S) /\ Len(t) = n
  <2>1. \A i \in 1 .. n : s[i] \in S
    OBVIOUS
  <2>2. \A i \in 1 .. n : r[(n - i) + 1] \in S
    BY <1>5, <2>1
  <2> HIDE DEF r
  <2> QED
    BY <1>1, <2>2
<1>8. t = s
  <2> HIDE DEF t
  <2> QED
    BY <1>6, <1>7, SameSequence
<1> QED
  BY <1>2, <1>4, <1>8

LEMMA WordIsU64 ==
  ASSUME NEW n \in Nat
  PROVE  Word(n) \in U64 /\ Word(n)[7] = 0 /\ Word(n)[8] = 0
<1>1. /\ n % 256 \in Nat /\ (n \div 256) % 256 \in Nat
      /\ (n \div 65536) % 256 \in Nat /\ n \div 16777216 \in Nat
  OBVIOUS
<1> QED
  BY <1>1 DEF Word, U64, Bytes

\* An address survives its three limbs, for all its bytes.
LEMMA AddressRoundTrip ==
  ASSUME NEW a \in Bytes, Len(a) = 20
  PROVE  /\ address2BigUint64Array(a) \in Seq(U64)
         /\ Len(address2BigUint64Array(a)) = 3
         /\ u64_array_to_address(address2BigUint64Array(a)) = a
<1> DEFINE x == SubSeq(a, 1, 4)
           y == SubSeq(a, 5, 12)
           z == SubSeq(a, 13, 20)
           zeros == <<0, 0, 0, 0>>
           w == zeros \o x
<1>0. a \in Seq(Nat)
  BY DEF Bytes
<1>1. x \in Seq(Nat) /\ Len(x) = 4
  <2>1. /\ 1 \in Nat /\ 4 \in Nat /\ 1 <= 1 /\ 1 <= 4 /\ 4 <= Len(a)
        /\ 4 - 1 + 1 = 4
    OBVIOUS
  <2> QED
    BY <1>0, <2>1, Part
<1>2. y \in Seq(Nat) /\ Len(y) = 8
  <2>1. /\ 5 \in Nat /\ 12 \in Nat /\ 1 <= 5 /\ 5 <= 12 /\ 12 <= Len(a)
        /\ 12 - 5 + 1 = 8
    OBVIOUS
  <2> QED
    BY <1>0, <2>1, Part
<1>3. z \in Seq(Nat) /\ Len(z) = 8
  <2>1. /\ 13 \in Nat /\ 20 \in Nat /\ 1 <= 13 /\ 13 <= 20 /\ 20 <= Len(a)
        /\ 20 - 13 + 1 = 8
    OBVIOUS
  <2> QED
    BY <1>0, <2>1, Part
<1>4. FromHex(Reverse(x)) = x /\ FromHex(Reverse(y)) = y /\ FromHex(Reverse(z)) = z
  <2> HIDE DEF x, y, z
  <2> QED
    BY <1>1, <1>2, <1>3, ReversedTwice
<1>5. address2BigUint64Array(a) = <<w, y, z>>
  BY <1>4 DEF address2BigUint64Array
<1>6. zeros \in Seq(Nat) /\ Len(zeros) = 4
  OBVIOUS
<1>7. SubSeq(w, 5, 8) = x
  <2> HIDE DEF x, zeros
  <2>1. /\ 5 \in Nat /\ 8 \in Nat /\ 5 = Len(zeros) + 1
        /\ 8 = Len(zeros) + Len(x) /\ Len(x) > 0
    BY <1>1, <1>6
  <2> QED
    BY <1>1, <1>6, <2>1, SecondPart
<1>8. w \in Seq(Nat) /\ Len(w) = 8
  <2> HIDE DEF x, zeros
  <2>1. zeros \o x \in Seq(Nat) /\ Len(zeros \o x) = Len(zeros) + Len(x)
    BY <1>1, <1>6, ConcatProperties
  <2> QED
    BY <1>1, <1>6, <2>1
<1>9. (x \o y) \o z = a
  <2>1. x \o y = SubSeq(a, 1, 12)
    <3>1. 1 \in 1 .. Len(a) + 1 /\ 4 \in 1 - 1 .. Len(a) /\ 12 \in 4 .. Len(a)
      OBVIOUS
    <3> QED
      BY <1>0, <3>1, ConcatAdjacentSubSeq
  <2>2. SubSeq(a, 1, 12) \o z = SubSeq(a, 1, 20)
    <3>1. 1 \in 1 .. Len(a) + 1 /\ 12 \in 1 - 1 .. Len(a) /\ 20 \in 12 .. Len(a)
      OBVIOUS
    <3> QED
      BY <1>0, <3>1, ConcatAdjacentSubSeq
  <2>3. SubSeq(a, 1, 20) = a
    BY <1>0, SubSeqFull
  <2> HIDE DEF x, y, z
  <2> QED
    BY <2>1, <2>2, <2>3
<1> HIDE DEF x, y, z, w
<1>10. u64_array_to_address(<<w, y, z>>) = a
  BY <1>7, <1>9 DEF u64_array_to_address
<1>11. w \in U64 /\ y \in U64 /\ z \in U64
  BY <1>2, <1>3, <1>8 DEF U64, Bytes
<1>12. <<w, y, z>> \in Seq(U64) /\ Len(<<w, y, z>>) = 3
  BY <1>11
<1> QED
  BY <1>5, <1>10, <1>12

\* The six bytes of a nonce that a transaction carries.
LEMMA SixBytes ==
  ASSUME NEW w \in Seq(Nat), Len(w) = 8
  PROVE  /\ SubSeq(w, 1, 6) \in Seq(Nat) /\ Len(SubSeq(w, 1, 6)) = 6
         /\ w[7] = 0 /\ w[8] = 0 => SubSeq(w, 1, 6) \o <<0, 0>> = w
<1>1. SubSeq(w, 1, 6) \in Seq(Nat) /\ Len(SubSeq(w, 1, 6)) = 6
  <2>1. /\ 1 \in Nat /\ 6 \in Nat /\ 1 <= 1 /\ 1 <= 6 /\ 6 <= Len(w)
        /\ 6 - 1 + 1 = 6
    OBVIOUS
  <2> QED
    BY <2>1, Part
<1>2. ASSUME w[7] = 0, w[8] = 0
      PROVE  SubSeq(w, 7, 8) = <<0, 0>>
  <2> DEFINE v == SubSeq(w, 7, 8)
             u == <<0, 0>>
  <2>1. v \in Seq(Nat) /\ Len(v) = 2 /\ \A i \in 1 .. 2 : v[i] = w[7 + i - 1]
    <3>1. /\ 7 \in Nat /\ 8 \in Nat /\ 1 <= 7 /\ 7 <= 8 /\ 8 <= Len(w)
          /\ 8 - 7 + 1 = 2
      OBVIOUS
    <3>2. /\ SubSeq(w, 7, 8) \in Seq(Nat)
          /\ Len(SubSeq(w, 7, 8)) = 8 - 7 + 1
          /\ \A i \in 1 .. 8 - 7 + 1 : SubSeq(w, 7, 8)[i] = w[7 + i - 1]
      BY ONLY w \in Seq(Nat), <3>1, Part
    <3> QED
      BY <3>1, <3>2
  <2>2. u \in Seq(Nat) /\ Len(u) = 2 /\ u[1] = 0 /\ u[2] = 0
    OBVIOUS
  <2> HIDE DEF v, u
  <2>3. v[1] = w[7] /\ v[2] = w[8]
    <3>1. 1 \in 1 .. 2 /\ 2 \in 1 .. 2 /\ 7 + 1 - 1 = 7 /\ 7 + 2 - 1 = 8
      OBVIOUS
    <3> QED
      BY <2>1, <3>1
  <2>4. \A i \in 1 .. Len(v) : v[i] = u[i]
    BY <1>2, <2>1, <2>2, <2>3
  <2>5. v = u
    BY <2>1, <2>2, <2>4, SameSequence
  <2> QED
    BY <2>5 DEF v, u
<1>3. SubSeq(w, 1, 6) \o SubSeq(w, 7, 8) = SubSeq(w, 1, 8)
  <2>1. 1 \in 1 .. Len(w) + 1 /\ 6 \in 1 - 1 .. Len(w) /\ 8 \in 6 .. Len(w)
    OBVIOUS
  <2> QED
    BY <2>1, ConcatAdjacentSubSeq
<1>4. SubSeq(w, 1, 8) = w
  BY SubSeqFull
<1> QED
  BY <1>1, <1>2, <1>3, <1>4

\* What both ends see of a transaction, whatever its parameters.
Carries(p, n) == p \in Seq(Bytes) /\ (n[7] = 0 /\ n[8] = 0 => NonceOf(p) = n)

PackedAs(p, n, command, params) ==
  /\ Carries(p, n)
  /\ Len(p) = Len(params) + 1
  /\ p[1][1] = command
  /\ \A i \in 1 .. Len(params) : p[i + 1] = params[i]

LEMMA Packed ==
  ASSUME NEW n \in U64, NEW command \in Nat, NEW params \in Seq(U64)
  PROVE  PackedAs(encodeCommand(n, Tx(command, params)), n, command, params)
<1> DEFINE p == encodeCommand(n, Tx(command, params))
<1> DEFINE six == SubSeq(n, 1, 6)
           top == <<command, Len(params) + 1>>
           first == top \o six
<1>1. Len(params) \in Nat /\ n \in Seq(Nat) /\ Len(n) = 8
  BY DEF U64, Bytes
<1>2. six \in Seq(Nat) /\ Len(six) = 6
  BY <1>1, SixBytes
<1>3. top \in Seq(Nat) /\ Len(top) = 2 /\ top[1] = command
  BY <1>1
<1>4. p = <<first>> \o params
  BY DEF encodeCommand, Tx
<1> HIDE DEF six, top, p
<1>5. first \in Seq(Nat) /\ Len(first) = 8 /\ first[1] = command
  <2>1. /\ top \o six \in Seq(Nat) /\ Len(top \o six) = Len(top) + Len(six)
        /\ \A i \in 1 .. Len(top) + Len(six) :
             (top \o six)[i] = IF i <= Len(top) THEN top[i] ELSE six[i - Len(top)]
    BY <1>2, <1>3, ConcatProperties
  <2>2. 1 \in 1 .. Len(top) + Len(six) /\ 1 <= Len(top)
    BY <1>2, <1>3
  <2>3. (top \o six)[1] = top[1]
    BY <2>1, <2>2
  <2> QED
    BY <1>2, <1>3, <2>1, <2>3
<1>6. /\ p \in Seq(Bytes) /\ Len(p) = Len(params) + 1 /\ p[1] = first
      /\ \A i \in 1 .. Len(params) : p[i + 1] = params[i]
  <2> HIDE DEF first
  <2>1. params \in Seq(Bytes) /\ <<first>> \in Seq(Bytes)
    BY <1>5 DEF U64, Bytes
  <2>2. Len(<<first>>) = 1 /\ <<first>>[1] = first
    OBVIOUS
  <2>3. /\ p \in Seq(Bytes) /\ Len(p) = 1 + Len(params)
        /\ \A i \in 1 .. 1 + Len(params) :
             p[i] = IF i <= 1 THEN <<first>>[i] ELSE params[i - 1]
    BY <1>4, <2>1, <2>2, ConcatProperties
  <2>4. p[1] = first
    BY <1>1, <2>2, <2>3
  <2>5. ASSUME NEW i \in 1 .. Len(params) PROVE p[i + 1] = params[i]
    <3>1. i + 1 \in 1 .. 1 + Len(params) /\ ~ (i + 1 <= 1) /\ (i + 1) - 1 = i
      BY <1>1
    <3> QED
      BY <2>3, <3>1
  <2> QED
    BY <1>1, <2>3, <2>4, <2>5
<1>7. ASSUME n[7] = 0, n[8] = 0 PROVE NonceOf(p) = n
  <2>1. /\ 3 \in Nat /\ 8 \in Nat /\ 3 = Len(top) + 1
        /\ 8 = Len(top) + Len(six) /\ Len(six) > 0
    BY <1>2, <1>3
  <2>2. top \in Seq(Nat) /\ six \in Seq(Nat)
    BY <1>2, <1>3
  <2>3. SubSeq(first, 3, 8) = six
    BY ONLY <2>1, <2>2, SecondPart
  <2>4. six \o <<0, 0>> = n
    BY <1>1, <1>7, SixBytes DEF six
  <2>7. NonceOf(p) = six \o <<0, 0>>
    BY <1>6, <2>3 DEF NonceOf
  <2> QED
    BY <2>4, <2>7
<1>8. PackedAs(p, n, command, params)
  BY <1>5, <1>6, <1>7 DEF PackedAs, Carries
<1> QED
  BY <1>8 DEF p

-----------------------------------------------------------------------------
(* What a method makes of its arguments is what Data makes of the words.   *)

LEMMA DataByCommand ==
  ASSUME NEW p
  PROVE  /\ p[1][1] = 1 => DataOf(p) = TokenData("AddToken", u32(p[2]),
                                          u64_array_to_address(SubSeq(p, 3, 5)))
         /\ p[1][1] = 12 => DataOf(p) = TokenData("UpdateToken", u32(p[2]),
                                          u64_array_to_address(SubSeq(p, 3, 5)))
         /\ p[1][1] = 2 => DataOf(p) = MarketData(u32(p[2]), u32(p[3]), p[4])
         /\ p[1][1] = 3 => DataOf(p) = MoveData("Deposit", p[2], p[3], u32(p[4]), p[5])
         /\ p[1][1] = 4 => DataOf(p) = RegisterData
         /\ p[1][1] = 5 => DataOf(p) = LimitData(p[2], p[3], p[4], p[5])
         /\ p[1][1] = 6 => DataOf(p) = MarketOrderData(p[2], p[3], p[4], p[5])
         /\ p[1][1] = 7 => DataOf(p) = CancelData(p[2])
         /\ p[1][1] = 8 => DataOf(p) = CloseMarketData(p[2])
         /\ p[1][1] = 9 => DataOf(p) = MoveData("Transfer", p[2], p[3], u32(p[4]), p[5])
         /\ p[1][1] = 10 => DataOf(p) = WithdrawData(u32(p[2]),
                                          u64_array_to_address(SubSeq(p, 3, 5)), p[6])
         /\ p[1][1] = 11 => DataOf(p) = TradeData(p[2], p[3], p[4], p[5])
BY DEF DataOf

LEMMA DecodesByCommand ==
  ASSUME NEW p
  PROVE  /\ p[1][1] = 1 /\ Len(p) = 5 => Decodes(p)
         /\ p[1][1] = 2 /\ Len(p) = 4 => Decodes(p)
         /\ p[1][1] = 3 /\ Len(p) = 5 => Decodes(p)
         /\ p[1][1] = 4 /\ Len(p) = 1 => Decodes(p)
         /\ p[1][1] = 5 /\ Len(p) = 5 => Decodes(p)
         /\ p[1][1] = 6 /\ Len(p) = 5 => Decodes(p)
         /\ p[1][1] = 7 /\ Len(p) = 2 => Decodes(p)
         /\ p[1][1] = 8 /\ Len(p) = 2 => Decodes(p)
         /\ p[1][1] = 9 /\ Len(p) = 5 => Decodes(p)
         /\ p[1][1] = 10 /\ Len(p) = 6 => Decodes(p)
         /\ p[1][1] = 11 /\ Len(p) = 5 => Decodes(p)
         /\ p[1][1] = 12 /\ Len(p) = 5 => Decodes(p)
<1>1. /\ RequiredLength[1] = 5 /\ RequiredLength[2] = 4 /\ RequiredLength[3] = 5
      /\ RequiredLength[4] = 1 /\ RequiredLength[5] = 5 /\ RequiredLength[6] = 5
      /\ RequiredLength[7] = 2 /\ RequiredLength[8] = 2 /\ RequiredLength[9] = 5
      /\ RequiredLength[10] = 6 /\ RequiredLength[11] = 5
      /\ RequiredLength[12] = 5
  BY DEF RequiredLength
<1>2. \A l : p[1][1] \in DOMAIN RequiredLength /\ RequiredLength[p[1][1]] = l
              /\ Len(p) = l => Decodes(p)
  BY DEF Decodes
<1>3. DOMAIN RequiredLength = 1 .. 12
  BY DEF RequiredLength
<1> QED
  BY <1>1, <1>3 DEF Decodes

LEMMA AddressPart ==
  ASSUME NEW p \in Seq(Bytes), Len(p) >= 5, NEW a \in Bytes, Len(a) = 20,
         NEW limbs \in Seq(U64), limbs = address2BigUint64Array(a),
         p[3] = limbs[1], p[4] = limbs[2], p[5] = limbs[3]
  PROVE  u64_array_to_address(SubSeq(p, 3, 5)) = a
<1> DEFINE q == SubSeq(p, 3, 5)
<1>1. \A i \in 1 .. 5 - 3 + 1 : q[i] = p[3 + i - 1]
  <2>1. /\ 3 \in Nat /\ 5 \in Nat /\ 1 <= 3 /\ 3 <= 5 /\ 5 <= Len(p)
        /\ 5 - 3 + 1 = 3
    OBVIOUS
  <2> QED
    BY ONLY p \in Seq(Bytes), <2>1, Part
<1>2. q[1] = limbs[1] /\ q[2] = limbs[2] /\ q[3] = limbs[3]
  <2>1. /\ 1 \in 1 .. 5 - 3 + 1 /\ 2 \in 1 .. 5 - 3 + 1 /\ 3 \in 1 .. 5 - 3 + 1
        /\ 3 + 1 - 1 = 3 /\ 3 + 2 - 1 = 4 /\ 3 + 3 - 1 = 5
    OBVIOUS
  <2> HIDE DEF q
  <2> QED
    BY <1>1, <2>1
<1> HIDE DEF q
<1>3. u64_array_to_address(q) = u64_array_to_address(limbs)
  BY <1>2 DEF u64_array_to_address
<1> QED
  BY <1>3, AddressRoundTrip DEF q

\* The transaction p carries the nonce n, and is decoded as data.
Arrives(p, n, data) == Carries(p, n) /\ Decodes(p) /\ DataOf(p) = data

LEMMA RegisterArrives ==
  ASSUME NEW n \in U64, NEW p, p = encodeCommand(n, register)
  PROVE  Arrives(p, n, RegisterData)
<1>1. <<>> \in Seq(U64) /\ Len(<<>>) = 0 /\ CMD_INSTALL_PLAYER \in Nat
  BY DEF CMD_INSTALL_PLAYER
<1>2. PackedAs(p, n, CMD_INSTALL_PLAYER, <<>>)
  BY <1>1, Packed DEF register
<1>3. Carries(p, n) /\ Len(p) = 0 + 1 /\ p[1][1] = CMD_INSTALL_PLAYER
  BY <1>1, <1>2 DEF PackedAs
<1> QED
  BY <1>3, DataByCommand, DecodesByCommand DEF CMD_INSTALL_PLAYER, Arrives

\* A command with one word.
LEMMA OneWord ==
  ASSUME NEW n \in U64, NEW command \in Nat, NEW a \in U64,
         NEW p, p = encodeCommand(n, Tx(command, <<a>>))
  PROVE  Carries(p, n) /\ p[1][1] = command /\ Len(p) = 2 /\ p[2] = a
<1>1. <<a>> \in Seq(U64) /\ Len(<<a>>) = 1 /\ <<a>>[1] = a
  OBVIOUS
<1> DEFINE w == <<a>>
<1> HIDE DEF w
<1>2. /\ Carries(p, n) /\ p[1][1] = command /\ Len(p) = Len(w) + 1
      /\ \A i \in 1 .. Len(w) : p[i + 1] = w[i]
  <2>1. PackedAs(p, n, command, w)
    BY <1>1, Packed DEF w
  <2> QED
    BY <2>1 DEF PackedAs
<1>3. 1 \in 1 .. Len(w) /\ 1 + 1 = 2 /\ w[1] = a /\ Len(w) = 1
  BY <1>1 DEF w
<1>4. p[2] = a
  BY <1>2, <1>3
<1> QED
  BY <1>2, <1>3, <1>4

LEMMA ThreeWords ==
  ASSUME NEW n \in U64, NEW command \in Nat,
         NEW a \in U64, NEW b \in U64, NEW c \in U64,
         NEW p, p = encodeCommand(n, Tx(command, <<a, b, c>>))
  PROVE  /\ Carries(p, n) /\ p[1][1] = command /\ Len(p) = 4
         /\ p[2] = a /\ p[3] = b /\ p[4] = c
<1> DEFINE w == <<a, b, c>>
<1>1. w \in Seq(U64) /\ Len(w) = 3 /\ w[1] = a /\ w[2] = b /\ w[3] = c
  OBVIOUS
<1> HIDE DEF w
<1>2. /\ Carries(p, n) /\ p[1][1] = command /\ Len(p) = Len(w) + 1
      /\ \A i \in 1 .. Len(w) : p[i + 1] = w[i]
  <2>1. PackedAs(p, n, command, w)
    BY <1>1, Packed DEF w
  <2> QED
    BY <2>1 DEF PackedAs
<1>3. /\ 1 \in 1 .. Len(w) /\ 2 \in 1 .. Len(w) /\ 3 \in 1 .. Len(w)
      /\ 1 + 1 = 2 /\ 2 + 1 = 3 /\ 3 + 1 = 4
  BY <1>1
<1>4. p[2] = w[1] /\ p[3] = w[2] /\ p[4] = w[3]
  BY <1>2, <1>3
<1> QED
  BY <1>1, <1>2, <1>4

LEMMA FourWords ==
  ASSUME NEW n \in U64, NEW command \in Nat, NEW w \in Seq(U64), Len(w) = 4,
         NEW p, p = encodeCommand(n, Tx(command, w))
  PROVE  /\ Carries(p, n) /\ p[1][1] = command /\ Len(p) = 5
         /\ p[2] = w[1] /\ p[3] = w[2] /\ p[4] = w[3] /\ p[5] = w[4]
<1>2. /\ Carries(p, n) /\ p[1][1] = command /\ Len(p) = Len(w) + 1
      /\ \A i \in 1 .. Len(w) : p[i + 1] = w[i]
  <2>1. PackedAs(p, n, command, w)
    BY Packed
  <2> QED
    BY <2>1 DEF PackedAs
<1>3. /\ 1 \in 1 .. Len(w) /\ 2 \in 1 .. Len(w) /\ 3 \in 1 .. Len(w)
      /\ 4 \in 1 .. Len(w)
      /\ 1 + 1 = 2 /\ 2 + 1 = 3 /\ 3 + 1 = 4 /\ 4 + 1 = 5
  OBVIOUS
<1>4. p[2] = w[1] /\ p[3] = w[2] /\ p[4] = w[3] /\ p[5] = w[4]
  BY <1>2, <1>3
<1> QED
  BY <1>2, <1>4

\* What the methods of Player and AdminPlayer that pack plain words send, for
\* every value of the words and every nonce, is decoded by the application as
\* the call meant it, and carries the nonce.
THEOREM PlainMethodsArrive ==
  ASSUME NEW n \in U64, NEW a \in U64, NEW b \in U64, NEW c \in U64, NEW d \in U64,
         NEW p
  PROVE  /\ p = encodeCommand(n, addMarket(a, b, c)) =>
              Arrives(p, n, MarketData(u32(a), u32(b), c))
         /\ p = encodeCommand(n, closeMarket(a)) =>
              Arrives(p, n, CloseMarketData(a))
         /\ p = encodeCommand(n, cancelOrder(a)) =>
              Arrives(p, n, CancelData(a))
         /\ p = encodeCommand(n, depositWithUint64Pid(a, b, c, d)) =>
              Arrives(p, n, MoveData("Deposit", a, b, u32(c), d))
         /\ p = encodeCommand(n, addLimitOrder(a, b, c, d)) =>
              Arrives(p, n, LimitData(a, b, c, d))
         /\ p = encodeCommand(n, addMarketOrder(a, b, c, d)) =>
              Arrives(p, n, MarketOrderData(a, b, c, d))
         /\ p = encodeCommand(n, addTrace(a, b, c, d)) =>
              Arrives(p, n, TradeData(a, b, c, d))
<1> DEFINE w == <<a, b, c, d>>
<1>1. w \in Seq(U64) /\ Len(w) = 4 /\ w[1] = a /\ w[2] = b /\ w[3] = c /\ w[4] = d
  OBVIOUS
<1> HIDE DEF w
<1>2. ASSUME p = encodeCommand(n, addMarket(a, b, c))
      PROVE  Arrives(p, n, MarketData(u32(a), u32(b), c))
  <2>1. 2 \in Nat /\ p = encodeCommand(n, Tx(2, <<a, b, c>>))
    BY <1>2 DEF addMarket, CMD_ADD_MARKET
  <2>2. /\ Carries(p, n) /\ p[1][1] = 2 /\ Len(p) = 4
        /\ p[2] = a /\ p[3] = b /\ p[4] = c
    BY <2>1, ThreeWords
  <2> QED
    BY <2>2, DataByCommand, DecodesByCommand DEF Arrives
<1>3. ASSUME p = encodeCommand(n, closeMarket(a))
      PROVE  Arrives(p, n, CloseMarketData(a))
  <2>1. 8 \in Nat /\ p = encodeCommand(n, Tx(8, <<a>>))
    BY <1>3 DEF closeMarket, CLOSE_MARKET
  <2>2. Carries(p, n) /\ p[1][1] = 8 /\ Len(p) = 2 /\ p[2] = a
    BY <2>1, OneWord
  <2> QED
    BY <2>2, DataByCommand, DecodesByCommand DEF Arrives
<1>4. ASSUME p = encodeCommand(n, cancelOrder(a))
      PROVE  Arrives(p, n, CancelData(a))
  <2>1. 7 \in Nat /\ p = encodeCommand(n, Tx(7, <<a>>))
    BY <1>4 DEF cancelOrder, CANCEL_ORDER
  <2>2. Carries(p, n) /\ p[1][1] = 7 /\ Len(p) = 2 /\ p[2] = a
    BY <2>1, OneWord
  <2> QED
    BY <2>2, DataByCommand, DecodesByCommand DEF Arrives
<1>5. ASSUME NEW command \in Nat, p = encodeCommand(n, Tx(command, w))
      PROVE  /\ Carries(p, n) /\ p[1][1] = command /\ Len(p) = 5
             /\ p[2] = a /\ p[3] = b /\ p[4] = c /\ p[5] = d
  BY <1>1, <1>5, FourWords
<1>6. ASSUME p = encodeCommand(n, depositWithUint64Pid(a, b, c, d))
      PROVE  Arrives(p, n, MoveData("Deposit", a, b, u32(c), d))
  <2>1. 3 \in Nat /\ p = encodeCommand(n, Tx(3, w))
    BY <1>6 DEF depositWithUint64Pid, CMD_DEPOSIT, w
  <2>2. /\ Carries(p, n) /\ p[1][1] = 3 /\ Len(p) = 5
        /\ p[2] = a /\ p[3] = b /\ p[4] = c /\ p[5] = d
    BY <1>5, <2>1
  <2> QED
    BY <2>2, DataByCommand, DecodesByCommand DEF Arrives
<1>7. ASSUME p = encodeCommand(n, addLimitOrder(a, b, c, d))
      PROVE  Arrives(p, n, LimitData(a, b, c, d))
  <2>1. 5 \in Nat /\ p = encodeCommand(n, Tx(5, w))
    BY <1>7 DEF addLimitOrder, ADD_LIMIT_ORDER, w
  <2>2. /\ Carries(p, n) /\ p[1][1] = 5 /\ Len(p) = 5
        /\ p[2] = a /\ p[3] = b /\ p[4] = c /\ p[5] = d
    BY <1>5, <2>1
  <2> QED
    BY <2>2, DataByCommand, DecodesByCommand DEF Arrives
<1>8. ASSUME p = encodeCommand(n, addMarketOrder(a, b, c, d))
      PROVE  Arrives(p, n, MarketOrderData(a, b, c, d))
  <2>1. 6 \in Nat /\ p = encodeCommand(n, Tx(6, w))
    BY <1>8 DEF addMarketOrder, ADD_MARKET_ORDER, w
  <2>2. /\ Carries(p, n) /\ p[1][1] = 6 /\ Len(p) = 5
        /\ p[2] = a /\ p[3] = b /\ p[4] = c /\ p[5] = d
    BY <1>5, <2>1
  <2> QED
    BY <2>2, DataByCommand, DecodesByCommand DEF Arrives
<1>9. ASSUME p = encodeCommand(n, addTrace(a, b, c, d))
      PROVE  Arrives(p, n, TradeData(a, b, c, d))
  <2>1. 11 \in Nat /\ p = encodeCommand(n, Tx(11, w))
    BY <1>9 DEF addTrace, ADD_TRADE, w
  <2>2. /\ Carries(p, n) /\ p[1][1] = 11 /\ Len(p) = 5
        /\ p[2] = a /\ p[3] = b /\ p[4] = c /\ p[5] = d
    BY <1>5, <2>1
  <2> QED
    BY <2>2, DataByCommand, DecodesByCommand DEF Arrives
<1> QED
  BY <1>2, <1>3, <1>4, <1>6, <1>7, <1>8, <1>9

\* The words that a player's id takes from a key of 32 bytes.
LEMMA PidWords ==
  ASSUME NEW key \in Bytes, Len(key) = 32
  PROVE  /\ pidWords(key) \in Seq(U64) /\ Len(pidWords(key)) = 2
         /\ pkey_to_pid(toU64Array(key)) = pidWords(key)
<1> DEFINE A == toU64Array(key)
<1>1. ASSUME NEW k \in 1 .. 4 PROVE SubSeq(key, 8 * k - 7, 8 * k) \in U64
  <2>1. /\ 8 * k - 7 \in Nat /\ 8 * k \in Nat /\ 1 <= 8 * k - 7
        /\ 8 * k - 7 <= 8 * k /\ 8 * k <= Len(key)
        /\ 8 * k - (8 * k - 7) + 1 = 8
    OBVIOUS
  <2>2. /\ SubSeq(key, 8 * k - 7, 8 * k) \in Seq(Nat)
        /\ Len(SubSeq(key, 8 * k - 7, 8 * k)) = 8 * k - (8 * k - 7) + 1
    <3>1. key \in Seq(Nat)
      BY DEF Bytes
    <3> DEFINE m == 8 * k - 7
               n == 8 * k
    <3>2. m \in Nat /\ n \in Nat /\ 1 <= m /\ m <= n /\ n <= Len(key)
      BY <2>1
    <3> HIDE DEF m, n
    <3>3. SubSeq(key, m, n) \in Seq(Nat) /\ Len(SubSeq(key, m, n)) = n - m + 1
      BY ONLY <3>1, <3>2, Part
    <3> QED
      BY <3>3 DEF m, n
  <2> QED
    BY <2>1, <2>2 DEF U64, Bytes
<1>2. A \in Seq(U64) /\ Len(A) = 4
  BY <1>1 DEF toU64Array
<1>3. SubSeq(A, 2, 3) \in Seq(U64) /\ Len(SubSeq(A, 2, 3)) = 2
  <2> HIDE DEF A
  <2>1. /\ 2 \in Nat /\ 3 \in Nat /\ 1 <= 2 /\ 2 <= 3 /\ 3 <= Len(A)
        /\ 3 - 2 + 1 = 2
    BY <1>2
  <2> QED
    BY <1>2, <2>1, Part
<1> QED
  BY <1>3 DEF pidWords, pkey_to_pid

\* What a concatenation has at each of its places.
JoinedAs(r, s, t) ==
  /\ Len(r) = Len(s) + Len(t)
  /\ \A i \in 1 .. Len(s) : r[i] = s[i]
  /\ \A i \in 1 .. Len(t) : r[Len(s) + i] = t[i]

LEMMA Joined ==
  ASSUME NEW S, NEW s \in Seq(S), NEW t \in Seq(S)
  PROVE  s \o t \in Seq(S) /\ JoinedAs(s \o t, s, t)
<1>1. Len(s) \in Nat /\ Len(t) \in Nat
  OBVIOUS
<1>2. /\ s \o t \in Seq(S) /\ Len(s \o t) = Len(s) + Len(t)
      /\ \A i \in 1 .. Len(s) + Len(t) :
           (s \o t)[i] = IF i <= Len(s) THEN s[i] ELSE t[i - Len(s)]
  BY ConcatProperties
<1>3. ASSUME NEW i \in 1 .. Len(t) PROVE (s \o t)[Len(s) + i] = t[i]
  <2>1. /\ Len(s) + i \in 1 .. Len(s) + Len(t) /\ ~ (Len(s) + i <= Len(s))
        /\ Len(s) + i - Len(s) = i
    BY <1>1
  <2> QED
    BY <1>2, <2>1
<1> QED
  BY <1>1, <1>2, <1>3 DEF JoinedAs

\* An index and the three limbs of an address.
LEMMA IndexAndLimbs ==
  ASSUME NEW idx \in U64, NEW limbs \in Seq(U64), Len(limbs) = 3
  PROVE  /\ <<idx>> \o limbs \in Seq(U64) /\ Len(<<idx>> \o limbs) = 4
         /\ (<<idx>> \o limbs)[1] = idx /\ (<<idx>> \o limbs)[2] = limbs[1]
         /\ (<<idx>> \o limbs)[3] = limbs[2] /\ (<<idx>> \o limbs)[4] = limbs[3]
<1> DEFINE s == <<idx>>
<1>1. s \in Seq(U64) /\ Len(s) = 1 /\ s[1] = idx
  OBVIOUS
<1> HIDE DEF s
<1>2. /\ s \o limbs \in Seq(U64) /\ Len(s \o limbs) = Len(s) + Len(limbs)
      /\ \A i \in 1 .. Len(s) : (s \o limbs)[i] = s[i]
      /\ \A i \in 1 .. Len(limbs) : (s \o limbs)[Len(s) + i] = limbs[i]
  <2>1. s \o limbs \in Seq(U64) /\ JoinedAs(s \o limbs, s, limbs)
    BY <1>1, Joined
  <2> QED
    BY <2>1 DEF JoinedAs
<1>3. /\ (s \o limbs)[1] = s[1] /\ (s \o limbs)[2] = limbs[1]
      /\ (s \o limbs)[3] = limbs[2] /\ (s \o limbs)[4] = limbs[3]
  <2>1. /\ 1 \in 1 .. Len(s) /\ 1 \in 1 .. Len(limbs) /\ 2 \in 1 .. Len(limbs)
        /\ 3 \in 1 .. Len(limbs)
        /\ Len(s) + 1 = 2 /\ Len(s) + 2 = 3 /\ Len(s) + 3 = 4
    BY <1>1
  <2> QED
    BY <1>2, <2>1
<1>4. Len(s) + Len(limbs) = 4
  BY <1>1
<1> QED
  BY <1>1, <1>2, <1>3, <1>4 DEF s

\* So is what the methods send that pack the 20 bytes of an address in limbs of
\* 4, 8 and 8: the application puts the same address together again.
THEOREM AddressMethodsArrive ==
  ASSUME NEW n \in U64, NEW idx \in U64, NEW a \in Bytes, Len(a) = 20,
         NEW amount \in U64, NEW p
  PROVE  /\ p = encodeCommand(n, addToken(idx, a)) =>
              Arrives(p, n, TokenData("AddToken", u32(idx), a))
         /\ p = encodeCommand(n, updateToken(idx, a)) =>
              Arrives(p, n, TokenData("UpdateToken", u32(idx), a))
         /\ p = encodeCommand(n, withdraw(idx, a, amount)) =>
              Arrives(p, n, WithdrawData(u32(idx), a, amount))
<1> DEFINE limbs == address2BigUint64Array(a)
           w == <<idx>> \o limbs
           v == w \o <<amount>>
<1>1. limbs \in Seq(U64) /\ Len(limbs) = 3
  BY AddressRoundTrip
<1> HIDE DEF limbs
<1>2. /\ w \in Seq(U64) /\ Len(w) = 4 /\ w[1] = idx /\ w[2] = limbs[1]
      /\ w[3] = limbs[2] /\ w[4] = limbs[3]
  BY <1>1, IndexAndLimbs
<1> HIDE DEF w
<1>3. ASSUME NEW command \in Nat, p = encodeCommand(n, Tx(command, w))
      PROVE  /\ Carries(p, n) /\ p[1][1] = command /\ Len(p) = 5 /\ p[2] = idx
             /\ u64_array_to_address(SubSeq(p, 3, 5)) = a
  <2>1. /\ Carries(p, n) /\ p[1][1] = command /\ Len(p) = 5
        /\ p[2] = w[1] /\ p[3] = w[2] /\ p[4] = w[3] /\ p[5] = w[4]
    BY <1>2, <1>3, FourWords
  <2>2. Len(p) >= 5 /\ p[3] = limbs[1] /\ p[4] = limbs[2] /\ p[5] = limbs[3]
    BY <1>2, <2>1
  <2>3. limbs = address2BigUint64Array(a)
    BY DEF limbs
  <2>4. u64_array_to_address(SubSeq(p, 3, 5)) = a
    BY <1>1, <2>1, <2>2, <2>3, AddressPart DEF Carries
  <2> QED
    BY <1>2, <2>1, <2>4
<1>4. ASSUME p = encodeCommand(n, addToken(idx, a))
      PROVE  Arrives(p, n, TokenData("AddToken", u32(idx), a))
  <2>1. 1 \in Nat /\ p = encodeCommand(n, Tx(1, w))
    BY <1>4 DEF addToken, CMD_ADD_TOKEN, w, limbs
  <2>2. /\ Carries(p, n) /\ p[1][1] = 1 /\ Len(p) = 5 /\ p[2] = idx
        /\ u64_array_to_address(SubSeq(p, 3, 5)) = a
    BY <1>3, <2>1
  <2> QED
    BY <2>2, DataByCommand, DecodesByCommand DEF Arrives
<1>5. ASSUME p = encodeCommand(n, updateToken(idx, a))
      PROVE  Arrives(p, n, TokenData("UpdateToken", u32(idx), a))
  <2>1. 12 \in Nat /\ p = encodeCommand(n, Tx(12, w))
    BY <1>5 DEF updateToken, UPDATE_TOKEN, w, limbs
  <2>2. /\ Carries(p, n) /\ p[1][1] = 12 /\ Len(p) = 5 /\ p[2] = idx
        /\ u64_array_to_address(SubSeq(p, 3, 5)) = a
    BY <1>3, <2>1
  <2> QED
    BY <2>2, DataByCommand, DecodesByCommand DEF Arrives
<1>6. /\ v \in Seq(U64) /\ Len(v) = 5 /\ v[1] = idx /\ v[2] = limbs[1]
      /\ v[3] = limbs[2] /\ v[4] = limbs[3] /\ v[5] = amount
  <2> DEFINE s == <<amount>>
  <2>1. s \in Seq(U64) /\ Len(s) = 1 /\ s[1] = amount
    OBVIOUS
  <2> HIDE DEF s
  <2>2. /\ w \o s \in Seq(U64) /\ Len(w \o s) = Len(w) + Len(s)
        /\ \A i \in 1 .. Len(w) : (w \o s)[i] = w[i]
        /\ \A i \in 1 .. Len(s) : (w \o s)[Len(w) + i] = s[i]
    <3>1. w \o s \in Seq(U64) /\ JoinedAs(w \o s, w, s)
      BY <1>2, <2>1, Joined
    <3> QED
      BY <3>1 DEF JoinedAs
  <2>3. /\ 1 \in 1 .. Len(w) /\ 2 \in 1 .. Len(w) /\ 3 \in 1 .. Len(w)
        /\ 4 \in 1 .. Len(w) /\ 1 \in 1 .. Len(s) /\ Len(w) + 1 = 5
        /\ Len(w) + Len(s) = 5
    BY <1>2, <2>1
  <2>4. /\ (w \o s)[1] = w[1] /\ (w \o s)[2] = w[2] /\ (w \o s)[3] = w[3]
        /\ (w \o s)[4] = w[4] /\ (w \o s)[5] = s[1]
    BY <2>2, <2>3
  <2> QED
    BY <1>2, <2>1, <2>2, <2>3, <2>4 DEF s
<1> HIDE DEF v
<1>7. ASSUME p = encodeCommand(n, withdraw(idx, a, amount))
      PROVE  Arrives(p, n, WithdrawData(u32(idx), a, amount))
  <2>1. 10 \in Nat /\ p = encodeCommand(n, Tx(10, v))
    BY <1>7 DEF withdraw, WITHDRAW, w, v, limbs
  <2>2. PackedAs(p, n, 10, v)
    BY <1>6, <2>1, Packed
  <2>3. /\ Carries(p, n) /\ p[1][1] = 10 /\ Len(p) = 6
        /\ \A i \in 1 .. Len(v) : p[i + 1] = v[i]
    BY <1>6, <2>2 DEF PackedAs
  <2>4. /\ 1 \in 1 .. Len(v) /\ 2 \in 1 .. Len(v) /\ 3 \in 1 .. Len(v)
        /\ 4 \in 1 .. Len(v) /\ 5 \in 1 .. Len(v)
        /\ 1 + 1 = 2 /\ 2 + 1 = 3 /\ 3 + 1 = 4 /\ 4 + 1 = 5 /\ 5 + 1 = 6
    BY <1>6
  <2>5. /\ p[2] = v[1] /\ p[3] = v[2] /\ p[4] = v[3] /\ p[5] = v[4]
        /\ p[6] = v[5]
    BY <2>3, <2>4
  <2>6. Len(p) >= 5 /\ p[3] = limbs[1] /\ p[4] = limbs[2] /\ p[5] = limbs[3]
    BY <1>6, <2>3, <2>5
  <2>7. limbs = address2BigUint64Array(a)
    BY DEF limbs
  <2>8. u64_array_to_address(SubSeq(p, 3, 5)) = a
    BY <1>1, <2>3, <2>6, <2>7, AddressPart DEF Carries
  <2> QED
    BY <1>6, <2>3, <2>5, <2>8, DataByCommand, DecodesByCommand DEF Arrives
<1> QED
  BY <1>4, <1>5, <1>7

\* So is what deposit and transfer send: the two words they take of a key are
\* the id under which the application knows the player of that key.
THEOREM PidMethodsArrive ==
  ASSUME NEW n \in U64, NEW key \in Bytes, Len(key) = 32,
         NEW t \in U64, NEW amount \in U64, NEW p,
         NEW pid, pid = pkey_to_pid(toU64Array(key))
  PROVE  /\ p = encodeCommand(n, deposit(key, t, amount)) =>
              Arrives(p, n, MoveData("Deposit", pid[1], pid[2], u32(t), amount))
         /\ p = encodeCommand(n, transfer(key, t, amount)) =>
              Arrives(p, n, MoveData("Transfer", pid[1], pid[2], u32(t), amount))
<1> DEFINE s == <<t, amount>>
           w == pid \o s
<1>1. pid = pidWords(key) /\ pid \in Seq(U64) /\ Len(pid) = 2
  BY PidWords
<1>2. s \in Seq(U64) /\ Len(s) = 2 /\ s[1] = t /\ s[2] = amount
  OBVIOUS
<1> HIDE DEF s
<1>3. /\ w \in Seq(U64) /\ Len(w) = 4 /\ w[1] = pid[1] /\ w[2] = pid[2]
      /\ w[3] = t /\ w[4] = amount
  <2>1. /\ pid \o s \in Seq(U64) /\ Len(pid \o s) = Len(pid) + Len(s)
        /\ \A i \in 1 .. Len(pid) : (pid \o s)[i] = pid[i]
        /\ \A i \in 1 .. Len(s) : (pid \o s)[Len(pid) + i] = s[i]
    <3>1. pid \o s \in Seq(U64) /\ JoinedAs(pid \o s, pid, s)
      BY <1>1, <1>2, Joined
    <3> QED
      BY <3>1 DEF JoinedAs
  <2>2. /\ 1 \in 1 .. Len(pid) /\ 2 \in 1 .. Len(pid)
        /\ 1 \in 1 .. Len(s) /\ 2 \in 1 .. Len(s)
        /\ Len(pid) + 1 = 3 /\ Len(pid) + 2 = 4 /\ Len(pid) + Len(s) = 4
    BY <1>1, <1>2
  <2>3. /\ (pid \o s)[1] = pid[1] /\ (pid \o s)[2] = pid[2]
        /\ (pid \o s)[3] = s[1] /\ (pid \o s)[4] = s[2]
    BY <2>1, <2>2
  <2> QED
    BY <1>2, <2>1, <2>2, <2>3
<1> HIDE DEF w
<1>4. ASSUME NEW command \in Nat, p = encodeCommand(n, Tx(command, w))
      PROVE  /\ Carries(p, n) /\ p[1][1] = command /\ Len(p) = 5
             /\ p[2] = pid[1] /\ p[3] = pid[2] /\ p[4] = t /\ p[5] = amount
  <2>1. /\ Carries(p, n) /\ p[1][1] = command /\ Len(p) = 5
        /\ p[2] = w[1] /\ p[3] = w[2] /\ p[4] = w[3] /\ p[5] = w[4]
    BY <1>3, <1>4, FourWords
  <2> QED
    BY <1>3, <2>1
<1>5. ASSUME p = encodeCommand(n, deposit(key, t, amount))
      PROVE  Arrives(p, n, MoveData("Deposit", pid[1], pid[2], u32(t), amount))
  <2>1. 3 \in Nat /\ p = encodeCommand(n, Tx(3, w))
    BY <1>1, <1>5 DEF deposit, CMD_DEPOSIT, w, s
  <2>2. /\ Carries(p, n) /\ p[1][1] = 3 /\ Len(p) = 5
        /\ p[2] = pid[1] /\ p[3] = pid[2] /\ p[4] = t /\ p[5] = amount
    BY <1>4, <2>1
  <2> QED
    BY <2>2, DataByCommand, DecodesByCommand DEF Arrives
<1>6. ASSUME p = encodeCommand(n, transfer(key, t, amount))
      PROVE  Arrives(p, n, MoveData("Transfer", pid[1], pid[2], u32(t), amount))
  <2>1. 9 \in Nat /\ p = encodeCommand(n, Tx(9, w))
    BY <1>1, <1>6 DEF transfer, TRANSFER, w, s
  <2>2. /\ Carries(p, n) /\ p[1][1] = 9 /\ Len(p) = 5
        /\ p[2] = pid[1] /\ p[3] = pid[2] /\ p[4] = t /\ p[5] = amount
    BY <1>4, <2>1
  <2> QED
    BY <2>2, DataByCommand, DecodesByCommand DEF Arrives
<1> QED
  BY <1>5, <1>6

-----------------------------------------------------------------------------
(* The calls' transactions.                                                 *)

LEMMA SampleWords ==
  /\ \A n \in Nat : W(n) \in U64
  /\ \A k \in Nat : PublicKey(k) \in Bytes /\ Len(PublicKey(k)) = 32
  /\ Address \in Bytes /\ Len(Address) = 20
BY DEF W, PublicKey, Address, U64, Bytes

LEMMA WordIsOne ==
  ASSUME NEW m \in Nat, NEW n \in Nat, Word(m) = Word(n)
  PROVE  m = n
<1>1. /\ Word(m)[1] = m % 256 /\ Word(n)[1] = n % 256
      /\ Word(m)[2] = (m \div 256) % 256 /\ Word(n)[2] = (n \div 256) % 256
      /\ Word(m)[3] = (m \div 65536) % 256 /\ Word(n)[3] = (n \div 65536) % 256
      /\ Word(m)[4] = m \div 16777216 /\ Word(n)[4] = n \div 16777216
  BY DEF Word
<1>2. /\ m % 256 = n % 256 /\ (m \div 256) % 256 = (n \div 256) % 256
      /\ (m \div 65536) % 256 = (n \div 65536) % 256
      /\ m \div 16777216 = n \div 16777216
  BY <1>1
<1>3. m \div 65536 = n \div 65536
  BY <1>2
<1>4. m \div 256 = n \div 256
  BY <1>2, <1>3
<1> QED
  BY <1>2, <1>4

LEMMA RequestArrives ==
  ASSUME NEW n \in U64, NEW r \in DOMAIN Requests
  PROVE  Arrives(encodeCommand(n, Requests[r].tx), n, Requests[r].data)
<1> DEFINE p == encodeCommand(n, Requests[r].tx)
           key == PublicKey(1)
<1>1. /\ W(1) \in U64 /\ W(2) \in U64 /\ W(3) \in U64 /\ W(4) \in U64 /\ W(5) \in U64
      /\ key \in Bytes /\ Len(key) = 32 /\ Address \in Bytes /\ Len(Address) = 20
      /\ pid_of(1) = pkey_to_pid(toU64Array(key))
  BY SampleWords DEF pid_of
<1>2. r \in 1 .. 13
  BY DEF Requests
<1>3. CASE r = 1
  <2>1. Requests[r] = Ask(RegisterData, register)
    BY <1>3 DEF Requests
  <2> QED
    BY <2>1, RegisterArrives DEF Ask
<1>4. CASE r = 2
  <2>1. Requests[r] = Ask(TokenData("AddToken", u32(W(1)), Address),
                          addToken(W(1), Address))
    BY <1>4 DEF Requests
  <2>2. Arrives(encodeCommand(n, addToken(W(1), Address)), n,
                TokenData("AddToken", u32(W(1)), Address))
    BY <1>1, AddressMethodsArrive
  <2> QED
    BY <2>1, <2>2 DEF Ask
<1>5. CASE r = 3
  <2>1. Requests[r] = Ask(TokenData("UpdateToken", u32(W(1)), Address),
                          updateToken(W(1), Address))
    BY <1>5 DEF Requests
  <2>2. Arrives(encodeCommand(n, updateToken(W(1), Address)), n,
                TokenData("UpdateToken", u32(W(1)), Address))
    BY <1>1, AddressMethodsArrive
  <2> QED
    BY <2>1, <2>2 DEF Ask
<1>6. CASE r = 4
  <2>1. Requests[r] = Ask(MarketData(u32(W(1)), u32(W(2)), W(3)),
                          addMarket(W(1), W(2), W(3)))
    BY <1>6 DEF Requests
  <2>2. Arrives(encodeCommand(n, addMarket(W(1), W(2), W(3))), n,
                MarketData(u32(W(1)), u32(W(2)), W(3)))
    BY <1>1, PlainMethodsArrive
  <2> QED
    BY <2>1, <2>2 DEF Ask
<1>7. CASE r = 5
  <2>1. Requests[r] = Ask(CloseMarketData(W(1)),
                          closeMarket(W(1)))
    BY <1>7 DEF Requests
  <2>2. Arrives(encodeCommand(n, closeMarket(W(1))), n,
                CloseMarketData(W(1)))
    BY <1>1, PlainMethodsArrive
  <2> QED
    BY <2>1, <2>2 DEF Ask
<1>8. CASE r = 6
  <2>1. Requests[r] = Ask(MoveData("Deposit", pid_of(1)[1], pid_of(1)[2], u32(W(3)), W(4)),
                          deposit(key, W(3), W(4)))
    BY <1>8 DEF Requests
  <2>2. Arrives(encodeCommand(n, deposit(key, W(3), W(4))), n,
                MoveData("Deposit", pid_of(1)[1], pid_of(1)[2], u32(W(3)), W(4)))
    BY <1>1, PidMethodsArrive
  <2> QED
    BY <2>1, <2>2 DEF Ask
<1>9. CASE r = 7
  <2>1. Requests[r] = Ask(MoveData("Deposit", W(1), W(2), u32(W(3)), W(4)),
                          depositWithUint64Pid(W(1), W(2), W(3), W(4)))
    BY <1>9 DEF Requests
  <2>2. Arrives(encodeCommand(n, depositWithUint64Pid(W(1), W(2), W(3), W(4))), n,
                MoveData("Deposit", W(1), W(2), u32(W(3)), W(4)))
    BY <1>1, PlainMethodsArrive
  <2> QED
    BY <2>1, <2>2 DEF Ask
<1>10. CASE r = 8
  <2>1. Requests[r] = Ask(LimitData(W(1), W(2), W(3), W(4)),
                          addLimitOrder(W(1), W(2), W(3), W(4)))
    BY <1>10 DEF Requests
  <2>2. Arrives(encodeCommand(n, addLimitOrder(W(1), W(2), W(3), W(4))), n,
                LimitData(W(1), W(2), W(3), W(4)))
    BY <1>1, PlainMethodsArrive
  <2> QED
    BY <2>1, <2>2 DEF Ask
<1>11. CASE r = 9
  <2>1. Requests[r] = Ask(MarketOrderData(W(1), W(2), W(3), W(4)),
                          addMarketOrder(W(1), W(2), W(3), W(4)))
    BY <1>11 DEF Requests
  <2>2. Arrives(encodeCommand(n, addMarketOrder(W(1), W(2), W(3), W(4))), n,
                MarketOrderData(W(1), W(2), W(3), W(4)))
    BY <1>1, PlainMethodsArrive
  <2> QED
    BY <2>1, <2>2 DEF Ask
<1>12. CASE r = 10
  <2>1. Requests[r] = Ask(CancelData(W(1)),
                          cancelOrder(W(1)))
    BY <1>12 DEF Requests
  <2>2. Arrives(encodeCommand(n, cancelOrder(W(1))), n,
                CancelData(W(1)))
    BY <1>1, PlainMethodsArrive
  <2> QED
    BY <2>1, <2>2 DEF Ask
<1>13. CASE r = 11
  <2>1. Requests[r] = Ask(TradeData(W(1), W(2), W(3), W(4)),
                          addTrace(W(1), W(2), W(3), W(4)))
    BY <1>13 DEF Requests
  <2>2. Arrives(encodeCommand(n, addTrace(W(1), W(2), W(3), W(4))), n,
                TradeData(W(1), W(2), W(3), W(4)))
    BY <1>1, PlainMethodsArrive
  <2> QED
    BY <2>1, <2>2 DEF Ask
<1>14. CASE r = 12
  <2>1. Requests[r] = Ask(MoveData("Transfer", pid_of(1)[1], pid_of(1)[2], u32(W(3)), W(4)),
                          transfer(key, W(3), W(4)))
    BY <1>14 DEF Requests
  <2>2. Arrives(encodeCommand(n, transfer(key, W(3), W(4))), n,
                MoveData("Transfer", pid_of(1)[1], pid_of(1)[2], u32(W(3)), W(4)))
    BY <1>1, PidMethodsArrive
  <2> QED
    BY <2>1, <2>2 DEF Ask
<1>15. CASE r = 13
  <2>1. Requests[r] = Ask(WithdrawData(u32(W(1)), Address, W(5)),
                          withdraw(W(1), Address, W(5)))
    BY <1>15 DEF Requests
  <2>2. Arrives(encodeCommand(n, withdraw(W(1), Address, W(5))), n,
                WithdrawData(u32(W(1)), Address, W(5)))
    BY <1>1, AddressMethodsArrive
  <2> QED
    BY <2>1, <2>2 DEF Ask
<1> QED
  BY <1>2, <1>3, <1>4, <1>5, <1>6, <1>7, <1>8, <1>9,
     <1>10, <1>11, <1>12, <1>13, <1>14, <1>15

-----------------------------------------------------------------------------
(* What is true of every call, from its method to its answer.              *)

CallRecords == [at : Places \ {"not made"}, key : Keys, asked : DOMAIN Requests,
                nonce : Nat]
CallTable == [Calls -> {NotYet} \cup CallRecords]
Jobs == [call : Calls, key : Keys, words : Seq(Bytes)]
Entries == [call : Calls, key : Keys,
            data : {Requests[r].data : r \in DOMAIN Requests}, nonce : Nat]

Gone == {"waiting", "done", "undefined"}    \* past its sending
Read == {"sending"} \cup Gone               \* past its reading of the nonce

Start(k) == IF k = 1 THEN FirstNonce ELSE 0

CallsTyped ==
  /\ call \in CallTable /\ nonce \in [Keys -> Nat]
  /\ queue \in Seq(Jobs) /\ log \in Seq(Entries) /\ outdated \subseteq Calls

\* A call has read a nonce that its key has had.
NoncesRead ==
  \A c \in Calls : call[c].at \in Read =>
    Start(call[c].key) <= call[c].nonce /\ call[c].nonce <= nonce[call[c].key]

\* Every nonce that a key has had since the start was used by a transaction.
UsedBy(k, m) == \E i \in DOMAIN log : log[i].key = k /\ log[i].nonce = m

NoncesUsed ==
  \A k \in Keys :
    /\ Start(k) <= nonce[k]
    /\ \A m \in Nat : Start(k) <= m /\ m < nonce[k] => UsedBy(k, m)

\* What is queued is what its call has sent.
SentBy(table, job) ==
  /\ table[job.call].at \in Gone /\ job.key = table[job.call].key
  /\ job.words = encodeCommand(Word(table[job.call].nonce),
                               Requests[table[job.call].asked].tx)

QueueAsSent ==
  /\ \A i \in DOMAIN queue : SentBy(call, queue[i])
  /\ \A i, j \in DOMAIN queue : queue[i].call = queue[j].call => i = j

AskedBy(table, entry) ==
  /\ table[entry.call].at \in Gone /\ entry.key = table[entry.call].key
  /\ entry.data = Requests[table[entry.call].asked].data

LogAsAsked ==
  /\ \A i \in DOMAIN log : AskedBy(call, log[i])
  /\ \A i, j \in DOMAIN log : log[i].call = log[j].call => i = j

\* A transaction is queued, accepted or refused for its nonce, and only one
\* of these.
OneFate ==
  /\ \A i \in DOMAIN queue, j \in DOMAIN log : queue[i].call # log[j].call
  /\ \A i \in DOMAIN queue : queue[i].call \notin outdated
  /\ \A i \in DOMAIN log : log[i].call \notin outdated

Behind ==
  \A c \in outdated :
    call[c].at \in Gone /\ call[c].nonce < nonce[call[c].key]

CallsInv == /\ CallsTyped /\ NoncesRead /\ NoncesUsed /\ QueueAsSent
            /\ LogAsAsked /\ OneFate /\ Behind

\* No step makes another call of a call that was sent.
MeaningKept ==
  \A c \in Calls : call[c].at \in Read =>
    /\ call'[c].key = call[c].key /\ call'[c].asked = call[c].asked
    /\ call'[c].nonce = call[c].nonce /\ call'[c].at \in Read
    /\ call[c].at \in Gone => call'[c].at \in Gone

\* Who reads a nonce reads the current one.
ReadersRead ==
  \A c \in Calls : call'[c].at \in Read =>
    \/ call[c].at \in Read
    \/ /\ call'[c].key \in Keys
       /\ call'[c].nonce = nonce[call'[c].key]

CallsKept == call' \in CallTable /\ MeaningKept /\ ReadersRead

LEMMA ACallHasItsFields ==
  ASSUME NEW f \in CallTable, NEW c \in Calls, f[c].at # "not made"
  PROVE  /\ f[c] \in CallRecords /\ f[c].key \in Keys /\ f[c].nonce \in Nat
         /\ f[c].asked \in DOMAIN Requests
<1>1. f[c] \in {NotYet} \cup CallRecords
  BY DEF CallTable
<1>2. f[c] # NotYet
  <2>1. NotYet.at = "not made"
    BY DEF NotYet
  <2> QED
    BY <2>1
<1> QED
  BY <1>1, <1>2 DEF CallRecords

LEMMA InitialCalls ==
  Init => CallsInv
<1> SUFFICES ASSUME Init PROVE CallsInv
  OBVIOUS
<1> USE DEF Init
<1>1. CallsTyped
  <2>1. FirstNonce \in Nat
    BY ClientAssumption
  <2>2. call \in CallTable
    BY DEF CallTable
  <2>3. nonce \in [Keys -> Nat]
    BY <2>1
  <2>4. queue \in Seq(Jobs) /\ log \in Seq(Entries) /\ outdated \subseteq Calls
    OBVIOUS
  <2> QED
    BY <2>2, <2>3, <2>4 DEF CallsTyped
<1>2. \A c \in Calls : call[c].at \notin Read
  BY DEF NotYet, Read, Gone
<1>3. NoncesRead
  BY <1>2 DEF NoncesRead
<1>4. NoncesUsed
  <2>1. \A k \in Keys : nonce[k] = Start(k)
    BY DEF Start
  <2>2. \A k \in Keys : Start(k) \in Nat
    BY ClientAssumption DEF Start
  <2> QED
    BY <2>1, <2>2 DEF NoncesUsed
<1>5. DOMAIN queue = {} /\ DOMAIN log = {}
  OBVIOUS
<1> QED
  BY <1>1, <1>3, <1>4, <1>5 DEF CallsInv, QueueAsSent, LogAsAsked, OneFate, Behind

\* A call moves on, and everything else about it stays.
LEMMA CallMoves ==
  ASSUME call \in CallTable, NEW c \in Calls, NEW place \in Places \ {"not made"},
         call[c].at # "not made", call' = [call EXCEPT ![c].at = place],
         call[c].at \in Gone => place \in Gone,
         call[c].at \in Read => place \in Read,
         call[c].at \notin Read => place \notin Read
  PROVE  CallsKept
<1>1. call[c] \in CallRecords
  BY ACallHasItsFields
<1>2. \A d \in Calls : d # c => call'[d] = call[d]
  BY DEF CallTable
<1>3. call'[c] = [call[c] EXCEPT !.at = place]
  BY DEF CallTable
<1>4. /\ call'[c] \in CallRecords /\ call'[c].at = place
      /\ call'[c].key = call[c].key /\ call'[c].asked = call[c].asked
      /\ call'[c].nonce = call[c].nonce
  BY <1>1, <1>3 DEF CallRecords
<1>5. call' \in CallTable
  BY <1>1, <1>3, <1>4 DEF CallTable
<1>6. MeaningKept
  BY <1>2, <1>4 DEF MeaningKept
<1>7. ReadersRead
  BY <1>2, <1>4 DEF ReadersRead
<1> QED
  BY <1>5, <1>6, <1>7 DEF CallsKept

LEMMA NoCallMoves ==
  ASSUME call \in CallTable, call' = call
  PROVE  CallsKept
BY DEF CallsKept, MeaningKept, ReadersRead

LEMMA MakeKeepsCalls ==
  ASSUME call \in CallTable, NEW c \in Calls, NEW k \in Keys,
         NEW request \in DOMAIN Requests, Make(c, k, request)
  PROVE  CallsKept
<1> DEFINE new == [at |-> "asking", key |-> k, asked |-> request, nonce |-> 0]
<1>1. call[c].at = "not made" /\ call' = [call EXCEPT ![c] = new]
  <2>1. NotYet.at = "not made"
    BY DEF NotYet
  <2> QED
    BY <2>1 DEF Make
<1>2. new \in CallRecords /\ new.at = "asking"
  BY DEF CallRecords, Places
<1> HIDE DEF new
<1>3. call' \in CallTable
  BY <1>1, <1>2 DEF CallTable
<1>4. call'[c] = new /\ \A d \in Calls : d # c => call'[d] = call[d]
  BY <1>1 DEF CallTable
<1>5. MeaningKept /\ ReadersRead
  BY <1>1, <1>2, <1>4 DEF MeaningKept, ReadersRead, Read, Gone
<1> QED
  BY <1>3, <1>5 DEF CallsKept

LEMMA GetNonceKeepsCalls ==
  ASSUME call \in CallTable, nonce \in [Keys -> Nat], NEW c \in Calls, getNonce(c)
  PROVE  CallsKept
<1>1. call[c].at = "asking"
  BY DEF getNonce
<1>2. call[c] \in CallRecords /\ call[c].key \in Keys
  BY <1>1, ACallHasItsFields
<1> DEFINE new == [[call[c] EXCEPT !.nonce = nonce[call[c].key]] EXCEPT !.at = "sending"]
<1>3. call' = [call EXCEPT ![c] = new]
  BY DEF getNonce, CallTable
<1>4. /\ new \in CallRecords /\ new.key = call[c].key
      /\ new.nonce = nonce[call[c].key]
  BY <1>2 DEF CallRecords, Places
<1> HIDE DEF new
<1>5. call' \in CallTable
  BY <1>3, <1>4 DEF CallTable
<1>6. call'[c] = new /\ \A d \in Calls : d # c => call'[d] = call[d]
  BY <1>3 DEF CallTable
<1>7. MeaningKept /\ ReadersRead
  BY <1>1, <1>2, <1>4, <1>6 DEF MeaningKept, ReadersRead, Read, Gone
<1> QED
  BY <1>5, <1>7 DEF CallsKept

LEMMA AnsweredKeepsCalls ==
  ASSUME call \in CallTable, NEW c \in Calls, NEW answer \in {"done", "undefined"},
         call' = Answered(c, answer)
  PROVE  CallsKept
<1>1. CASE call[c].at = "waiting"
  <2>1. call' = [call EXCEPT ![c].at = answer]
    BY <1>1 DEF Answered
  <2>2. /\ answer \in Places \ {"not made"} /\ call[c].at # "not made"
        /\ answer \in Gone /\ answer \in Read /\ call[c].at \in Read
    BY <1>1 DEF Places, Gone, Read
  <2> QED
    BY <2>1, <2>2, CallMoves
<1>2. CASE call[c].at # "waiting"
  BY <1>2, NoCallMoves DEF Answered
<1> QED
  BY <1>1, <1>2

\* What the calls read keeps its meaning as long as nonces only grow.
LEMMA CallsKeptKeepsNonces ==
  ASSUME CallsInv, CallsKept, nonce' \in [Keys -> Nat],
         \A k \in Keys : nonce[k] <= nonce'[k]
  PROVE  /\ NoncesRead'
         /\ \A c \in outdated : call'[c].at \in Gone
                                /\ call'[c].nonce < nonce'[call'[c].key]
<1>1. call \in CallTable /\ nonce \in [Keys -> Nat] /\ outdated \subseteq Calls
  BY DEF CallsInv, CallsTyped
<1>2. ASSUME NEW c \in Calls, call'[c].at \in Read
      PROVE  /\ Start(call'[c].key) <= call'[c].nonce
             /\ call'[c].nonce <= nonce'[call'[c].key]
  <2>1. CASE call[c].at \in Read
    <3>1. call[c].at # "not made"
      BY <2>1 DEF Read, Gone
    <3>2. call[c].key \in Keys /\ call[c].nonce \in Nat
      BY <1>1, <3>1, ACallHasItsFields
    <3>3. /\ Start(call[c].key) <= call[c].nonce
          /\ call[c].nonce <= nonce[call[c].key]
      BY <2>1 DEF CallsInv, NoncesRead
    <3>4. call'[c].key = call[c].key /\ call'[c].nonce = call[c].nonce
      BY <2>1 DEF CallsKept, MeaningKept
    <3>5. nonce[call[c].key] <= nonce'[call[c].key]
          /\ nonce[call[c].key] \in Nat /\ nonce'[call[c].key] \in Nat
      BY <1>1, <3>2
    <3> QED
      BY <3>2, <3>3, <3>4, <3>5
  <2>2. CASE call[c].at \notin Read
    <3> DEFINE k == call'[c].key
    <3>1. k \in Keys /\ call'[c].nonce = nonce[k]
      BY <1>2, <2>2 DEF CallsKept, ReadersRead
    <3> HIDE DEF k
    <3>2. nonce[k] \in Nat /\ nonce'[k] \in Nat /\ nonce[k] <= nonce'[k]
      BY <1>1, <3>1
    <3>3. Start(k) <= nonce[k]
      BY <3>1 DEF CallsInv, NoncesUsed
    <3> QED
      BY <3>1, <3>2, <3>3 DEF k
  <2> QED
    BY <2>1, <2>2
<1>3. NoncesRead'
  BY <1>2 DEF NoncesRead
<1>4. ASSUME NEW c \in outdated
      PROVE  call'[c].at \in Gone /\ call'[c].nonce < nonce'[call'[c].key]
  <2>1. c \in Calls /\ call[c].at \in Gone /\ call[c].nonce < nonce[call[c].key]
    BY <1>1 DEF CallsInv, Behind
  <2>2. call[c].at \in Read /\ call[c].at # "not made"
    BY <2>1 DEF Read, Gone
  <2>3. call[c].key \in Keys /\ call[c].nonce \in Nat
    BY <1>1, <2>1, <2>2, ACallHasItsFields
  <2>4. /\ call'[c].key = call[c].key /\ call'[c].nonce = call[c].nonce
        /\ call'[c].at \in Gone
    BY <2>1, <2>2 DEF CallsKept, MeaningKept
  <2>5. /\ nonce[call[c].key] \in Nat /\ nonce'[call[c].key] \in Nat
        /\ nonce[call[c].key] <= nonce'[call[c].key]
    BY <1>1, <2>3
  <2> QED
    BY <2>1, <2>3, <2>4, <2>5
<1> QED
  BY <1>3, <1>4

\* What was sent stays what its call has sent.
LEMMA SentStays ==
  ASSUME CallsKept, NEW job \in Jobs, SentBy(call, job)
  PROVE  SentBy(call', job)
<1>1. job.call \in Calls /\ call[job.call].at \in Gone
  BY DEF Jobs, SentBy
<1>2. call[job.call].at \in Read
  BY <1>1 DEF Read
<1>3. /\ call'[job.call].key = call[job.call].key
      /\ call'[job.call].asked = call[job.call].asked
      /\ call'[job.call].nonce = call[job.call].nonce
      /\ call'[job.call].at \in Gone
  BY <1>1, <1>2 DEF CallsKept, MeaningKept
<1> QED
  BY <1>3 DEF SentBy

LEMMA AskedStays ==
  ASSUME CallsKept, NEW entry \in Entries, AskedBy(call, entry)
  PROVE  AskedBy(call', entry)
<1>1. entry.call \in Calls /\ call[entry.call].at \in Gone
  BY DEF Entries, AskedBy
<1>2. call[entry.call].at \in Read
  BY <1>1 DEF Read
<1>3. /\ call'[entry.call].key = call[entry.call].key
      /\ call'[entry.call].asked = call[entry.call].asked
      /\ call'[entry.call].at \in Gone
  BY <1>1, <1>2 DEF CallsKept, MeaningKept
<1> QED
  BY <1>3 DEF AskedBy

LEMMA LogStaysAsAsked ==
  ASSUME CallsInv, CallsKept, log' = log
  PROVE  LogAsAsked'
<1>1. \A i \in DOMAIN log : log[i] \in Entries
  BY DEF CallsInv, CallsTyped
<1>2. \A i \in DOMAIN log : AskedBy(call, log[i])
  BY DEF CallsInv, LogAsAsked
<1>3. \A i \in DOMAIN log : AskedBy(call', log[i])
  BY <1>1, <1>2, AskedStays
<1>4. \A i, j \in DOMAIN log : log[i].call = log[j].call => i = j
  BY DEF CallsInv, LogAsAsked
<1> QED
  BY <1>3, <1>4 DEF LogAsAsked

\* Whoever reads a nonce or gives up leaves the transactions alone.
LEMMA QuietKeepsCalls ==
  ASSUME CallsInv, CallsKept, UNCHANGED <<nonce, queue, log, outdated>>
  PROVE  CallsInv'
<1>1. CallsTyped
  BY DEF CallsInv
<1>2. CallsTyped'
  BY <1>1 DEF CallsTyped, CallsKept
<1>3. NoncesRead' /\ Behind'
  <2>1. \A k \in Keys : nonce[k] <= nonce'[k]
    BY <1>1 DEF CallsTyped
  <2>2. nonce' \in [Keys -> Nat]
    BY <1>1 DEF CallsTyped
  <2> QED
    BY <2>1, <2>2, CallsKeptKeepsNonces DEF Behind
<1>4. NoncesUsed'
  BY DEF CallsInv, NoncesUsed, UsedBy
<1>5. QueueAsSent'
  <2>1. \A i \in DOMAIN queue : queue[i] \in Jobs
    BY <1>1 DEF CallsTyped
  <2>2. \A i \in DOMAIN queue : SentBy(call, queue[i])
    BY DEF CallsInv, QueueAsSent
  <2>3. \A i \in DOMAIN queue : SentBy(call', queue[i])
    BY <2>1, <2>2, SentStays
  <2> QED
    BY <2>3 DEF CallsInv, QueueAsSent
<1>6. LogAsAsked'
  BY LogStaysAsAsked
<1>7. OneFate'
  BY DEF CallsInv, OneFate
<1> QED
  BY <1>2, <1>3, <1>4, <1>5, <1>6, <1>7 DEF CallsInv

LEMMA SendKeepsCallsInv ==
  ASSUME CallsInv, NEW c \in Calls, Send(c)
  PROVE  CallsInv'
<1> DEFINE words == encodeCommand(Word(call[c].nonce), Requests[call[c].asked].tx)
           job == [call |-> c, key |-> call[c].key, words |-> words]
<1>1. CallsTyped /\ call \in CallTable /\ queue \in Seq(Jobs)
  BY DEF CallsInv, CallsTyped
<1>2. /\ call[c].at = "sending" /\ call' = [call EXCEPT ![c].at = "waiting"]
      /\ queue' = Append(queue, job)
      /\ UNCHANGED <<nonce, log, outdated>>
  BY DEF Send, At
<1>3. /\ call[c] \in CallRecords /\ call[c].key \in Keys
      /\ call[c].nonce \in Nat /\ call[c].asked \in DOMAIN Requests
  BY <1>1, <1>2, ACallHasItsFields
<1>4. CallsKept
  BY <1>1, <1>2, CallMoves DEF Gone, Read, Places
<1>5. words \in Seq(Bytes)
  <2>1. Word(call[c].nonce) \in U64
    BY <1>3, WordIsU64
  <2>2. Arrives(words, Word(call[c].nonce), Requests[call[c].asked].data)
    BY <1>3, <2>1, RequestArrives
  <2> QED
    BY <2>2 DEF Arrives, Carries
<1>6. call'[c] = [call[c] EXCEPT !.at = "waiting"]
  BY <1>1, <1>2 DEF CallTable
<1>7. /\ call'[c].at = "waiting" /\ call'[c].key = call[c].key
      /\ call'[c].nonce = call[c].nonce /\ call'[c].asked = call[c].asked
  BY <1>3, <1>6 DEF CallRecords
<1>8. job \in Jobs /\ job.call = c
  BY <1>3, <1>5 DEF Jobs
<1>9. SentBy(call', job)
  BY <1>7 DEF SentBy, Gone
<1> HIDE DEF job, words
<1>10. /\ queue' \in Seq(Jobs) /\ DOMAIN queue' = 1 .. Len(queue) + 1
       /\ DOMAIN queue = 1 .. Len(queue) /\ Len(queue) \in Nat
       /\ \A i \in 1 .. Len(queue) : queue'[i] = queue[i]
       /\ queue'[Len(queue) + 1] = job
  BY <1>1, <1>2, <1>8
<1>11. \A i \in DOMAIN queue : queue[i].call # c
  <2>1. \A i \in DOMAIN queue : call[queue[i].call].at \in Gone
    BY DEF CallsInv, QueueAsSent, SentBy
  <2> QED
    BY <1>2, <2>1 DEF Gone
<1>12. \A i \in DOMAIN log : log[i].call # c
  <2>1. \A i \in DOMAIN log : call[log[i].call].at \in Gone
    BY DEF CallsInv, LogAsAsked, AskedBy
  <2> QED
    BY <1>2, <2>1 DEF Gone
<1>13. c \notin outdated
  BY <1>2 DEF CallsInv, Behind, Gone
<1>14. CallsTyped'
  BY <1>1, <1>2, <1>4, <1>10 DEF CallsTyped, CallsKept
<1>15. NoncesRead' /\ Behind'
  <2>1. nonce' \in [Keys -> Nat] /\ \A k \in Keys : nonce[k] <= nonce'[k]
    BY <1>1, <1>2 DEF CallsTyped
  <2> QED
    BY <1>2, <1>4, <2>1, CallsKeptKeepsNonces DEF Behind
<1>16. NoncesUsed'
  BY <1>2 DEF CallsInv, NoncesUsed, UsedBy
<1>17. QueueAsSent'
  <2>1. \A i \in DOMAIN queue : queue[i] \in Jobs /\ SentBy(call, queue[i])
    BY <1>1 DEF CallsInv, QueueAsSent
  <2>2. \A i \in DOMAIN queue : SentBy(call', queue[i])
    BY <1>4, <2>1, SentStays
  <2>3. \A i \in DOMAIN queue' : SentBy(call', queue'[i])
    BY <1>9, <1>10, <2>2
  <2>4. \A i, j \in DOMAIN queue : queue[i].call = queue[j].call => i = j
    BY DEF CallsInv, QueueAsSent
  <2>5. \A i, j \in DOMAIN queue' : queue'[i].call = queue'[j].call => i = j
    BY <1>8, <1>10, <1>11, <2>4
  <2> QED
    BY <2>3, <2>5 DEF QueueAsSent
<1>18. LogAsAsked'
  BY <1>2, <1>4, LogStaysAsAsked
<1>19. OneFate'
  <2>1. \A i \in DOMAIN queue', j \in DOMAIN log : queue'[i].call # log[j].call
    BY <1>8, <1>10, <1>12 DEF CallsInv, OneFate
  <2>2. \A i \in DOMAIN queue' : queue'[i].call \notin outdated
    BY <1>8, <1>10, <1>13 DEF CallsInv, OneFate
  <2> QED
    BY <1>2, <2>1, <2>2 DEF CallsInv, OneFate
<1> QED
  BY <1>14, <1>15, <1>16, <1>17, <1>18, <1>19 DEF CallsInv

\* The head of the queue is gone, and the rest is what it was.
LEMMA QueueWithoutItsHead ==
  ASSUME CallsInv, CallsKept, queue # <<>>, queue' = Tail(queue)
  PROVE  /\ Head(queue) \in Jobs /\ SentBy(call, Head(queue))
         /\ queue' \in Seq(Jobs) /\ QueueAsSent'
         /\ \A i \in DOMAIN queue' : queue'[i].call # Head(queue).call
         /\ \A i \in DOMAIN queue' :
              \E j \in DOMAIN queue : queue'[i] = queue[j]
         /\ \A i \in DOMAIN log : log[i].call # Head(queue).call
         /\ Head(queue).call \notin outdated
<1>1. queue \in Seq(Jobs)
  BY DEF CallsInv, CallsTyped
<1>2. /\ 1 \in DOMAIN queue /\ Head(queue) = queue[1]
      /\ queue' \in Seq(Jobs)
      /\ \A i \in DOMAIN queue' :
           i \in Nat /\ i + 1 \in DOMAIN queue /\ queue'[i] = queue[i + 1] /\ i + 1 # 1
  BY <1>1
<1>3. /\ \A i \in DOMAIN queue : queue[i] \in Jobs /\ SentBy(call, queue[i])
      /\ \A i, j \in DOMAIN queue : queue[i].call = queue[j].call => i = j
  BY <1>1 DEF CallsInv, QueueAsSent
<1>4. \A i \in DOMAIN queue : SentBy(call', queue[i])
  BY <1>3, SentStays
<1>5. \A i \in DOMAIN queue' : SentBy(call', queue'[i])
  BY <1>2, <1>4
<1>6. \A i, j \in DOMAIN queue' : queue'[i].call = queue'[j].call => i = j
  <2>1. ASSUME NEW i \in DOMAIN queue', NEW j \in DOMAIN queue',
               queue'[i].call = queue'[j].call
        PROVE  i = j
    <3>1. i + 1 = j + 1 /\ i \in Nat /\ j \in Nat
      BY <1>2, <1>3, <2>1
    <3> QED
      BY <3>1
  <2> QED
    BY <2>1
<1>7. QueueAsSent'
  BY <1>5, <1>6 DEF QueueAsSent
<1>8. \A i \in DOMAIN queue' : queue'[i].call # Head(queue).call
  BY <1>2, <1>3
<1>9. \A i \in DOMAIN queue' : \E j \in DOMAIN queue : queue'[i] = queue[j]
  BY <1>2
<1>10. /\ \A i \in DOMAIN log : log[i].call # Head(queue).call
       /\ Head(queue).call \notin outdated
  BY <1>2 DEF CallsInv, OneFate
<1> QED
  BY <1>2, <1>3, <1>7, <1>8, <1>9, <1>10

LEMMA RefuseKeepsCallsInv ==
  ASSUME CallsInv, queue # <<>>, queue' = Tail(queue), Refuse(Head(queue))
  PROVE  CallsInv'
<1>1. CallsTyped /\ call \in CallTable
  BY DEF CallsInv, CallsTyped
<1>2. Head(queue) \in Jobs
  BY <1>1 DEF CallsTyped
<1>3. /\ call' = Answered(Head(queue).call, "undefined")
      /\ UNCHANGED <<nonce, log, outdated>>
  BY DEF Refuse
<1>4. CallsKept
  BY <1>1, <1>2, <1>3, AnsweredKeepsCalls DEF Jobs
<1>5. /\ queue' \in Seq(Jobs) /\ QueueAsSent'
      /\ \A i \in DOMAIN queue' : \E j \in DOMAIN queue : queue'[i] = queue[j]
  BY <1>4, QueueWithoutItsHead
<1>6. CallsTyped'
  BY <1>1, <1>3, <1>4, <1>5 DEF CallsTyped, CallsKept
<1>7. NoncesRead' /\ Behind'
  <2>1. nonce' \in [Keys -> Nat] /\ \A k \in Keys : nonce[k] <= nonce'[k]
    BY <1>1, <1>3 DEF CallsTyped
  <2> QED
    BY <1>3, <1>4, <2>1, CallsKeptKeepsNonces DEF Behind
<1>8. NoncesUsed'
  BY <1>3 DEF CallsInv, NoncesUsed, UsedBy
<1>9. LogAsAsked'
  BY <1>3, <1>4, LogStaysAsAsked
<1>10. OneFate'
  BY <1>3, <1>5 DEF CallsInv, OneFate
<1> QED
  BY <1>5, <1>6, <1>7, <1>8, <1>9, <1>10 DEF CallsInv

\* What is queued is decoded as it was asked, and carries the nonce it read.
LEMMA QueuedArrives ==
  ASSUME CallsInv, NEW job \in Jobs, SentBy(call, job)
  PROVE  /\ job.call \in Calls /\ call[job.call] \in CallRecords
         /\ Decodes(job.words)
         /\ DataOf(job.words) = Requests[call[job.call].asked].data
         /\ NonceOf(job.words) = Word(call[job.call].nonce)
<1>1. job.call \in Calls /\ call[job.call].at # "not made"
  BY DEF Jobs, SentBy, Gone
<1>2. /\ call[job.call] \in CallRecords /\ call[job.call].nonce \in Nat
      /\ call[job.call].asked \in DOMAIN Requests
  BY <1>1, ACallHasItsFields DEF CallsInv, CallsTyped
<1> DEFINE n == Word(call[job.call].nonce)
           r == call[job.call].asked
<1>3. n \in U64 /\ n[7] = 0 /\ n[8] = 0
  BY <1>2, WordIsU64
<1>4. job.words = encodeCommand(n, Requests[r].tx)
  BY DEF SentBy
<1> HIDE DEF n
<1>5. Arrives(job.words, n, Requests[r].data)
  BY <1>2, <1>3, <1>4, RequestArrives
<1>6. /\ Decodes(job.words) /\ DataOf(job.words) = Requests[r].data
      /\ NonceOf(job.words) = n
  BY <1>3, <1>5 DEF Arrives, Carries
<1> QED
  BY <1>1, <1>2, <1>6 DEF n

LEMMA TrapKeepsCallsInv ==
  ASSUME CallsInv, queue # <<>>, queue' = Tail(queue), Trap(Head(queue))
  PROVE  CallsInv'
<1> DEFINE job == Head(queue)
           c == job.call
<1>1. CallsTyped /\ call \in CallTable /\ nonce \in [Keys -> Nat]
  BY DEF CallsInv, CallsTyped
<1>2. job \in Jobs
  BY <1>1 DEF CallsTyped
<1>3. /\ call' = Answered(c, "undefined") /\ UNCHANGED <<nonce, log>>
      /\ outdated' = IF Registered(job) THEN outdated \cup {c} ELSE outdated
      /\ ~Decodes(job.words) \/ ~NonceIsRight(job) \/ ~Registered(job)
  BY DEF Trap
<1>4. CallsKept
  BY <1>1, <1>2, <1>3, AnsweredKeepsCalls DEF Jobs
<1>5. /\ SentBy(call, job) /\ queue' \in Seq(Jobs) /\ QueueAsSent'
      /\ \A i \in DOMAIN queue' : queue'[i].call # c
      /\ \A i \in DOMAIN queue' : \E j \in DOMAIN queue : queue'[i] = queue[j]
      /\ \A i \in DOMAIN log : log[i].call # c
      /\ c \notin outdated
  BY <1>4, QueueWithoutItsHead
<1> HIDE DEF job
<1>6. /\ c \in Calls /\ call[c] \in CallRecords /\ Decodes(job.words)
      /\ NonceOf(job.words) = Word(call[c].nonce)
  BY <1>2, <1>5, QueuedArrives
<1>7. call[c].at \in Gone /\ job.key = call[c].key /\ job.key \in Keys
  BY <1>2, <1>5 DEF SentBy, Jobs
<1>8. /\ call'[c].at \in Gone /\ call'[c].key = call[c].key
      /\ call'[c].nonce = call[c].nonce /\ call[c].nonce <= nonce[call[c].key]
  <2>1. call[c].at \in Read
    BY <1>7 DEF Read
  <2> QED
    BY <1>4, <1>6, <1>7, <2>1 DEF CallsKept, MeaningKept, CallsInv, NoncesRead
<1>9. CallsTyped'
  BY <1>1, <1>3, <1>4, <1>5, <1>6 DEF CallsTyped, CallsKept
<1>10. /\ NoncesRead'
       /\ \A d \in outdated : call'[d].at \in Gone
                              /\ call'[d].nonce < nonce'[call'[d].key]
  <2>1. nonce' \in [Keys -> Nat] /\ \A k \in Keys : nonce[k] <= nonce'[k]
    BY <1>1, <1>3
  <2> QED
    BY <1>4, <2>1, CallsKeptKeepsNonces
<1>11. Behind'
  <2>1. CASE Registered(job)
    <3>1. Word(call[c].nonce) # Word(nonce[call[c].key])
      BY <1>3, <1>6, <1>7, <2>1 DEF NonceIsRight
    <3>2. call[c].nonce \in Nat /\ nonce[call[c].key] \in Nat
      BY <1>1, <1>6, <1>7 DEF CallRecords
    <3>3. call[c].nonce < nonce[call[c].key]
      BY <1>8, <3>1, <3>2
    <3> QED
      BY <1>3, <1>8, <1>10, <2>1, <3>3 DEF Behind
  <2>2. CASE ~Registered(job)
    BY <1>3, <1>10, <2>2 DEF Behind
  <2> QED
    BY <2>1, <2>2
<1>12. NoncesUsed'
  BY <1>3 DEF CallsInv, NoncesUsed, UsedBy
<1>13. LogAsAsked'
  BY <1>3, <1>4, LogStaysAsAsked
<1>14. OneFate'
  BY <1>3, <1>5 DEF CallsInv, OneFate
<1> QED
  BY <1>5, <1>9, <1>10, <1>11, <1>12, <1>13, <1>14 DEF CallsInv

LEMMA AcceptKeepsCallsInv ==
  ASSUME CallsInv, queue # <<>>, queue' = Tail(queue), Accept(Head(queue))
  PROVE  CallsInv'
<1> DEFINE job == Head(queue)
           c == job.call
           entry == [call |-> c, key |-> job.key, data |-> DataOf(job.words),
                     nonce |-> nonce[job.key]]
<1>1. /\ CallsTyped /\ call \in CallTable /\ nonce \in [Keys -> Nat]
      /\ log \in Seq(Entries)
  BY DEF CallsInv, CallsTyped
<1>2. job \in Jobs
  BY <1>1 DEF CallsTyped
<1>3. /\ call' = Answered(c, "done") /\ outdated' = outdated
      /\ nonce' = [nonce EXCEPT ![job.key] = @ + 1]
      /\ log' = Append(log, entry)
  BY DEF Accept
<1>4. CallsKept
  BY <1>1, <1>2, <1>3, AnsweredKeepsCalls DEF Jobs
<1>5. /\ SentBy(call, job) /\ queue' \in Seq(Jobs) /\ QueueAsSent'
      /\ \A i \in DOMAIN queue' : queue'[i].call # c
      /\ \A i \in DOMAIN queue' : \E j \in DOMAIN queue : queue'[i] = queue[j]
      /\ \A i \in DOMAIN log : log[i].call # c
      /\ c \notin outdated
  BY <1>4, QueueWithoutItsHead
<1> HIDE DEF job
<1>6. /\ c \in Calls /\ call[c] \in CallRecords
      /\ DataOf(job.words) = Requests[call[c].asked].data
  BY <1>2, <1>5, QueuedArrives
<1>7. call[c].at \in Gone /\ job.key = call[c].key /\ job.key \in Keys
  BY <1>2, <1>5 DEF SentBy, Jobs
<1>8. /\ entry \in Entries /\ entry.call = c /\ entry.key = job.key
      /\ entry.nonce = nonce[job.key] /\ entry.data = Requests[call[c].asked].data
  <2>1. call[c].asked \in DOMAIN Requests /\ nonce[job.key] \in Nat
    BY <1>1, <1>6, <1>7 DEF CallRecords
  <2> QED
    BY <1>6, <1>7, <2>1 DEF Entries
<1>9. AskedBy(call, entry)
  BY <1>7, <1>8 DEF AskedBy
<1> HIDE DEF entry
<1>10. AskedBy(call', entry)
  BY <1>4, <1>8, <1>9, AskedStays
<1>11. /\ log' \in Seq(Entries) /\ DOMAIN log' = 1 .. Len(log) + 1
       /\ DOMAIN log = 1 .. Len(log) /\ Len(log) \in Nat
       /\ \A i \in 1 .. Len(log) : log'[i] = log[i]
       /\ log'[Len(log) + 1] = entry
  BY <1>1, <1>3, <1>8
<1>12. /\ nonce' \in [Keys -> Nat]
       /\ \A k \in Keys : nonce[k] <= nonce'[k]
       /\ nonce'[job.key] = nonce[job.key] + 1
       /\ \A k \in Keys : k # job.key => nonce'[k] = nonce[k]
  BY <1>1, <1>3, <1>7
<1>13. CallsTyped'
  BY <1>1, <1>3, <1>4, <1>5, <1>11, <1>12 DEF CallsTyped, CallsKept
<1>14. NoncesRead' /\ Behind'
  BY <1>3, <1>4, <1>12, CallsKeptKeepsNonces DEF Behind
<1>15. NoncesUsed'
  <2>1. ASSUME NEW k \in Keys PROVE Start(k) <= nonce'[k]
    <3>1. Start(k) <= nonce[k] /\ nonce[k] <= nonce'[k]
      BY <1>12 DEF CallsInv, NoncesUsed
    <3>2. Start(k) \in Nat /\ nonce[k] \in Nat /\ nonce'[k] \in Nat
      BY <1>1, <1>12, ClientAssumption DEF Start
    <3> QED
      BY <3>1, <3>2
  <2>2. ASSUME NEW k \in Keys, NEW m \in Nat, Start(k) <= m, m < nonce'[k]
        PROVE  UsedBy(k, m)'
    <3>1. CASE m < nonce[k]
      <4>1. PICK i \in DOMAIN log : log[i].key = k /\ log[i].nonce = m
        BY <2>2, <3>1 DEF CallsInv, NoncesUsed, UsedBy
      <4>2. i \in DOMAIN log' /\ log'[i] = log[i]
        BY <1>11
      <4> QED
        BY <4>1, <4>2 DEF UsedBy
    <3>2. CASE ~ (m < nonce[k])
      <4>1. k = job.key /\ m = nonce[k]
        BY <1>1, <1>12, <2>2, <3>2
      <4>2. Len(log) + 1 \in DOMAIN log'
        BY <1>11
      <4> QED
        BY <1>8, <1>11, <4>1, <4>2 DEF UsedBy
    <3> QED
      BY <3>1, <3>2
  <2> QED
    BY <2>1, <2>2 DEF NoncesUsed
<1>16. LogAsAsked'
  <2>1. \A i \in DOMAIN log : log[i] \in Entries /\ AskedBy(call, log[i])
    BY <1>1 DEF CallsInv, LogAsAsked
  <2>2. \A i \in DOMAIN log : AskedBy(call', log[i])
    BY <1>4, <2>1, AskedStays
  <2>3. \A i \in DOMAIN log' : AskedBy(call', log'[i])
    BY <1>10, <1>11, <2>2
  <2>4. \A i, j \in DOMAIN log : log[i].call = log[j].call => i = j
    BY DEF CallsInv, LogAsAsked
  <2>5. \A i \in DOMAIN log : log[i].call # entry.call
    BY <1>5, <1>8
  <2>6. \A i, j \in DOMAIN log' : log'[i].call = log'[j].call => i = j
    BY <1>11, <2>4, <2>5
  <2> QED
    BY <2>3, <2>6 DEF LogAsAsked
<1>17. OneFate'
  <2>1. \A i \in DOMAIN queue', j \in DOMAIN log' : queue'[i].call # log'[j].call
    BY <1>5, <1>8, <1>11 DEF CallsInv, OneFate
  <2>2. \A i \in DOMAIN log' : log'[i].call \notin outdated
    BY <1>5, <1>8, <1>11 DEF CallsInv, OneFate
  <2> QED
    BY <1>3, <1>5, <2>1, <2>2 DEF CallsInv, OneFate
<1> QED
  BY <1>5, <1>13, <1>14, <1>15, <1>16, <1>17 DEF CallsInv

\* The nonces, the queue and the log hang together in every state.
LEMMA CallsInvariant ==
  Spec => []CallsInv
<1>1. ASSUME CallsInv, [Next]_client_vars PROVE CallsInv'
  <2>1. call \in CallTable /\ nonce \in [Keys -> Nat]
    BY <1>1 DEF CallsInv, CallsTyped
  <2>2. ASSUME NEW c \in Calls, NEW k \in Keys, NEW request \in DOMAIN Requests,
               Make(c, k, request)
        PROVE  CallsInv'
    BY <1>1, <2>1, <2>2, MakeKeepsCalls, QuietKeepsCalls DEF Make
  <2>3. ASSUME NEW c \in Calls, getNonce(c) PROVE CallsInv'
    BY <1>1, <2>1, <2>3, GetNonceKeepsCalls, QuietKeepsCalls DEF getNonce
  <2>4. ASSUME NEW c \in Calls, getNonceFails(c) PROVE CallsInv'
    <3>1. /\ call[c].at = "asking" /\ call' = [call EXCEPT ![c].at = "thrown"]
          /\ UNCHANGED <<nonce, queue, log, outdated>>
      BY <2>4 DEF getNonceFails, At
    <3>2. CallsKept
      BY <2>1, <3>1, CallMoves DEF Places, Gone, Read
    <3> QED
      BY <1>1, <3>1, <3>2, QuietKeepsCalls
  <2>5. ASSUME NEW c \in Calls, Send(c) PROVE CallsInv'
    BY <1>1, <2>5, SendKeepsCallsInv
  <2>6. ASSUME NEW c \in Calls, SendFails(c) PROVE CallsInv'
    <3>1. /\ call[c].at \in {"sending", "waiting"}
          /\ call' = [call EXCEPT ![c].at = "undefined"]
          /\ UNCHANGED <<nonce, queue, log, outdated>>
      BY <2>6 DEF SendFails, At
    <3>2. CallsKept
      BY <2>1, <3>1, CallMoves DEF Places, Gone, Read
    <3> QED
      BY <1>1, <3>1, <3>2, QuietKeepsCalls
  <2>7. ASSUME Execute PROVE CallsInv'
    <3>1. queue # <<>> /\ queue' = Tail(queue)
      BY <2>7 DEF Execute
    <3>2. CASE Refuse(Head(queue))
      BY <1>1, <3>1, <3>2, RefuseKeepsCallsInv
    <3>3. CASE Trap(Head(queue))
      BY <1>1, <3>1, <3>3, TrapKeepsCallsInv
    <3>4. CASE Accept(Head(queue))
      BY <1>1, <3>1, <3>4, AcceptKeepsCallsInv
    <3> QED
      BY <2>7, <3>2, <3>3, <3>4 DEF Execute
  <2>8. ASSUME ApplyEvent \/ CallbackEnds \/ UNCHANGED client_vars
        PROVE  CallsInv'
    <3>1. call' = call /\ UNCHANGED <<nonce, queue, log, outdated>>
      BY <2>8 DEF ApplyEvent, CallbackEnds, client_vars
    <3> QED
      BY <1>1, <2>1, <3>1, NoCallMoves, QuietKeepsCalls
  <2> QED
    BY <1>1, <2>2, <2>3, <2>4, <2>5, <2>6, <2>7, <2>8 DEF Next
<1> QED
  BY <1>1, InitialCalls, PTL DEF Spec

\* api.ts and transaction.rs agree on every transaction: what the application
\* executes is what the caller asked for, under the caller's key, and once,
\* however calls overlap, fail and are answered late.
THEOREM ExecutedAsAskedCorrect ==
  Spec => []ExecutedAsAsked
<1>1. CallsInv => ExecutedAsAsked
  BY DEF CallsInv, LogAsAsked, AskedBy, ExecutedAsAsked
<1> QED
  BY <1>1, CallsInvariant, PTL

\* A transaction refused for its nonce had read a nonce which another accepted
\* transaction of the same key has used up meanwhile.
THEOREM OutdatedLostARaceCorrect ==
  Spec => []OutdatedLostARace
<1>1. ASSUME CallsInv, NEW c \in outdated
      PROVE  \E i \in DOMAIN log : /\ log[i].key = call[c].key
                                   /\ log[i].nonce = call[c].nonce
                                   /\ log[i].call # c
  <2>1. /\ c \in Calls /\ call[c].at \in Gone
        /\ call[c].nonce < nonce[call[c].key]
    BY <1>1 DEF CallsInv, CallsTyped, Behind
  <2>2. call[c].at \in Read /\ call[c].at # "not made"
    BY <2>1 DEF Read, Gone
  <2>3. call[c].key \in Keys /\ call[c].nonce \in Nat
    BY <1>1, <2>1, <2>2, ACallHasItsFields DEF CallsInv, CallsTyped
  <2>4. Start(call[c].key) <= call[c].nonce
    BY <1>1, <2>1, <2>2 DEF CallsInv, NoncesRead
  <2>5. UsedBy(call[c].key, call[c].nonce)
    BY <1>1, <2>1, <2>3, <2>4 DEF CallsInv, NoncesUsed
  <2>6. \A i \in DOMAIN log : log[i].call # c
    BY <1>1 DEF CallsInv, OneFate
  <2> QED
    BY <2>5, <2>6 DEF UsedBy
<1>2. CallsInv => OutdatedLostARace
  BY <1>1 DEF OutdatedLostARace
<1> QED
  BY <1>2, CallsInvariant, PTL

-----------------------------------------------------------------------------
(* Records on their way to documents: what the application stores one after *)
(* the other, and where its words are.                                      *)

LEMMA StoredAfterEquation ==
  ASSUME NEW all, NEW records, Len(records) \in Nat
  PROVE  /\ StoredAfter(all, records)[0] = all
         /\ \A k \in 1 .. Len(records) :
              StoredAfter(all, records)[k] =
                StoreOne(StoredAfter(all, records)[k - 1], records[k])
<1> DEFINE Seg(m, h) ==
      h = [k \in 0 .. m |-> IF k = 0 THEN all ELSE StoreOne(h[k - 1], records[k])]
<1>1. \A m \in Nat : \E h : Seg(m, h)
  <2> DEFINE S == {m \in Nat : \E h : Seg(m, h)}
  <2>1. 0 \in S
    <3>1. Seg(0, [k \in 0 .. 0 |-> all])
      OBVIOUS
    <3> QED
      BY <3>1
  <2>2. ASSUME NEW m \in Nat, m \in S PROVE m + 1 \in S
    <3>1. PICK h : Seg(m, h)
      BY <2>2
    <3> DEFINE last == StoreOne(h[m], records[m + 1])
               g == [k \in 0 .. m + 1 |-> IF k <= m THEN h[k] ELSE last]
    <3>2. \A k \in 0 .. m :
            h[k] = IF k = 0 THEN all ELSE StoreOne(h[k - 1], records[k])
      BY <3>1
    <3>3. ASSUME NEW k \in 0 .. m + 1
          PROVE  g[k] = IF k = 0 THEN all ELSE StoreOne(g[k - 1], records[k])
      <4>1. CASE k = m + 1
        BY <4>1
      <4>2. CASE k \in 0 .. m
        BY <3>2, <4>2
      <4> QED
        BY <4>1, <4>2
    <3>4. Seg(m + 1, g)
      BY <3>3
    <3>5. \E h1 : Seg(m + 1, h1)
      <4> HIDE DEF Seg, g
      <4> QED
        BY <3>4
    <3> QED
      BY <3>5
  <2> QED
    BY <2>1, <2>2, NatSetInduction
<1>2. \E h : Seg(Len(records), h)
  <2> HIDE DEF Seg
  <2> QED
    BY <1>1
<1>3. StoredAfter(all, records) = CHOOSE h : Seg(Len(records), h)
  BY DEF StoredAfter
<1>4. Seg(Len(records), CHOOSE h : Seg(Len(records), h))
  <2> HIDE DEF Seg
  <2> QED
    BY <1>2
<1>5. Seg(Len(records), StoredAfter(all, records))
  BY <1>3, <1>4
<1> QED
  BY <1>5

\* The steps of FlattenSeq.
LEMMA FlattenSteps ==
  ASSUME NEW parts, Len(parts) \in Nat, Len(parts) > 0
  PROVE  \E f : /\ f[1] = parts[1]
                /\ \A k \in 1 .. Len(parts) - 1 : f[k + 1] = f[k] \o parts[k + 1]
                /\ FlattenSeq(parts) = f[Len(parts)]
<1> DEFINE Seg(m, h) ==
      h = [k \in 1 .. m |-> IF k = 1 THEN parts[k] ELSE h[k - 1] \o parts[k]]
<1>1. \A m \in Nat : \E h : Seg(m + 1, h)
  <2> DEFINE S == {m \in Nat : \E h : Seg(m + 1, h)}
  <2>1. 0 \in S
    <3>1. Seg(0 + 1, [k \in 1 .. 1 |-> parts[1]])
      OBVIOUS
    <3>2. \E h : Seg(0 + 1, h)
      <4> HIDE DEF Seg
      <4> QED
        BY <3>1
    <3> QED
      BY <3>2
  <2>2. ASSUME NEW m \in Nat, m \in S PROVE m + 1 \in S
    <3>1. PICK h : Seg(m + 1, h)
      BY <2>2
    <3> DEFINE last == h[m + 1] \o parts[m + 2]
               g == [k \in 1 .. m + 2 |-> IF k <= m + 1 THEN h[k] ELSE last]
    <3>2. \A k \in 1 .. m + 1 :
            h[k] = IF k = 1 THEN parts[k] ELSE h[k - 1] \o parts[k]
      BY <3>1
    <3>3. ASSUME NEW k \in 1 .. m + 2
          PROVE  g[k] = IF k = 1 THEN parts[k] ELSE g[k - 1] \o parts[k]
      <4>1. CASE k = m + 2
        <5>1. /\ k # 1 /\ k - 1 = m + 1 /\ ~ (k <= m + 1) /\ m + 1 <= m + 1
              /\ m + 1 \in 1 .. m + 2
          BY <4>1
        <5>2. g[k] = last /\ g[m + 1] = h[m + 1]
          BY <5>1
        <5> QED
          BY <4>1, <5>1, <5>2
      <4>2. CASE k \in 1 .. m + 1
        BY <3>2, <4>2
      <4> QED
        BY <4>1, <4>2
    <3>4. Seg(m + 2, g)
      BY <3>3
    <3>5. \E h1 : Seg(m + 2, h1)
      <4> HIDE DEF Seg, g
      <4> QED
        BY <3>4
    <3>6. (m + 1) + 1 = m + 2
      OBVIOUS
    <3>7. \E h1 : Seg((m + 1) + 1, h1)
      <4> HIDE DEF Seg
      <4> QED
        BY <3>5, <3>6
    <3>8. m + 1 \in Nat
      OBVIOUS
    <3> HIDE DEF Seg
    <3> QED
      BY <3>7, <3>8
  <2> HIDE DEF Seg
  <2> QED
    BY <2>1, <2>2, NatSetInduction
<1>2. \E h : Seg(Len(parts), h)
  <2>1. Len(parts) - 1 \in Nat /\ (Len(parts) - 1) + 1 = Len(parts)
    OBVIOUS
  <2>2. \E h : Seg((Len(parts) - 1) + 1, h)
    <3> HIDE DEF Seg
    <3> QED
      BY <1>1, <2>1
  <2> HIDE DEF Seg
  <2> QED
    BY <2>1, <2>2
<1> DEFINE f == CHOOSE h : Seg(Len(parts), h)
<1>3. FlattenSeq(parts) = f[Len(parts)]
  BY DEF FlattenSeq
<1>4. Seg(Len(parts), f)
  <2> HIDE DEF Seg
  <2> QED
    BY <1>2
<1> HIDE DEF f
<1>5. f[1] = parts[1]
  BY <1>4
<1>6. ASSUME NEW k \in 1 .. Len(parts) - 1
      PROVE  f[k + 1] = f[k] \o parts[k + 1]
  <2>1. k + 1 \in 1 .. Len(parts) /\ k + 1 # 1 /\ (k + 1) - 1 = k
    OBVIOUS
  <2>2. \A j \in 1 .. Len(parts) :
          f[j] = IF j = 1 THEN parts[j] ELSE f[j - 1] \o parts[j]
    BY <1>4
  <2> QED
    BY <2>1, <2>2
<1> QED
  BY <1>3, <1>5, <1>6

\* end[k] is the number of words in the first k parts.
Ends(end, parts) ==
  /\ end \in [0 .. Len(parts) -> Nat] /\ end[0] = 0
  /\ \A k \in 1 .. Len(parts) : /\ end[k] = end[k - 1] + Len(parts[k])
                                /\ end[k] <= end[Len(parts)]

\* The first n parts are where they should be.
PlacedUpTo(f, end, parts, n) ==
  \A k \in 1 .. n : \A i \in 1 .. Len(parts[k]) : f[end[k - 1] + i] = parts[k][i]

LEMMA PartsInPlace ==
  ASSUME NEW T, NEW parts \in Seq(Seq(T)), Len(parts) > 0,
         NEW f, f[1] = parts[1],
         \A k \in 1 .. Len(parts) - 1 : f[k + 1] = f[k] \o parts[k + 1]
  PROVE  \E end : /\ Ends(end, parts)
                  /\ f[Len(parts)] \in Seq(T)
                  /\ Len(f[Len(parts)]) = end[Len(parts)]
                  /\ PlacedUpTo(f[Len(parts)], end, parts, Len(parts))
<1> DEFINE end == [k \in 0 .. Len(parts) |-> IF k = 0 THEN 0 ELSE Len(f[k])]
           P(n) == /\ f[n] \in Seq(T)
                   /\ \A k \in 1 .. n : /\ f[k] \in Seq(T)
                                        /\ end[k] = end[k - 1] + Len(parts[k])
                                        /\ end[k] <= end[n]
                   /\ PlacedUpTo(f[n], end, parts, n)
           S == {m \in Nat : m + 1 <= Len(parts) => P(m + 1)}
<1>1. /\ Len(parts) \in Nat
      /\ \A k \in 1 .. Len(parts) : parts[k] \in Seq(T) /\ Len(parts[k]) \in Nat
  OBVIOUS
<1>2. end[0] = 0 /\ \A k \in 1 .. Len(parts) : end[k] = Len(f[k])
  BY <1>1
<1> HIDE DEF end
<1>3. P(1)
  <2>1. f[1] \in Seq(T) /\ end[1] = end[0] + Len(parts[1]) /\ end[1] \in Nat
    BY <1>1, <1>2
  <2>2. \A i \in 1 .. Len(parts[1]) : f[1][end[0] + i] = parts[1][i]
    BY <1>1, <1>2
  <2>3. PlacedUpTo(f[1], end, parts, 1)
    <3>1. ASSUME NEW k \in 1 .. 1 PROVE k = 1 /\ k - 1 = 0
      OBVIOUS
    <3> QED
      BY <2>2, <3>1 DEF PlacedUpTo
  <2>4. \A k \in 1 .. 1 : k = 1 /\ k - 1 = 0
    OBVIOUS
  <2> QED
    BY <2>1, <2>3, <2>4
<1>4. ASSUME NEW m \in Nat, m \in S PROVE m + 1 \in S
  <2>1. SUFFICES ASSUME (m + 1) + 1 <= Len(parts) PROVE P((m + 1) + 1)
    OBVIOUS
  <2> DEFINE n == m + 1
  <2>2. /\ n \in 1 .. Len(parts) - 1 /\ n \in 1 .. Len(parts)
        /\ n + 1 \in 1 .. Len(parts) /\ n \in Nat
        /\ P(n)
    BY <1>1, <1>4, <2>1
  <2> HIDE DEF n
  <2>3. /\ f[n] \in Seq(T) /\ parts[n + 1] \in Seq(T) /\ Len(parts[n + 1]) \in Nat
        /\ f[n + 1] = f[n] \o parts[n + 1] /\ Len(f[n]) \in Nat
        /\ end[n] = Len(f[n]) /\ end[n + 1] = Len(f[n + 1])
    <3>1. f[n] \in Seq(T) /\ parts[n + 1] \in Seq(T)
          /\ Len(parts[n + 1]) \in Nat
      BY <1>1, <2>2
    <3>2. f[n + 1] = f[n] \o parts[n + 1]
      BY <2>2
    <3>3. end[n] = Len(f[n]) /\ end[n + 1] = Len(f[n + 1])
      BY <1>2, <2>2
    <3>4. Len(f[n]) \in Nat
      BY <3>1
    <3> QED
      BY <3>1, <3>2, <3>3, <3>4
  <2>4. f[n + 1] \in Seq(T) /\ JoinedAs(f[n + 1], f[n], parts[n + 1])
    BY <2>3, Joined
  <2>5. /\ end[n + 1] = end[n] + Len(parts[n + 1]) /\ end[n] <= end[n + 1]
        /\ end[n] \in Nat /\ end[n + 1] \in Nat
    <3>1. Len(f[n + 1]) = Len(f[n]) + Len(parts[n + 1])
      BY <2>4 DEF JoinedAs
    <3>2. end[n + 1] = end[n] + Len(parts[n + 1])
      BY <2>3, <3>1
    <3>3. end[n] \in Nat /\ Len(parts[n + 1]) \in Nat
      BY <2>3
    <3> QED
      BY <3>2, <3>3
  <2>6. ASSUME NEW k \in 1 .. n + 1
        PROVE  /\ f[k] \in Seq(T) /\ end[k] = end[k - 1] + Len(parts[k])
               /\ end[k] <= end[n + 1]
    <3>1. CASE k \in 1 .. n
      <4>1. /\ f[k] \in Seq(T) /\ end[k] = end[k - 1] + Len(parts[k])
            /\ end[k] <= end[n] /\ end[k] = Len(f[k])
        BY <1>2, <2>2, <3>1
      <4>2. end[k] \in Nat
        <5>1. Len(f[k]) \in Nat
          BY <4>1
        <5> QED
          BY <4>1, <5>1
      <4> QED
        BY <2>5, <4>1, <4>2
    <3>2. CASE k = n + 1
      <4>1. k - 1 = n
        BY <2>2, <3>2
      <4>2. end[n + 1] <= end[n + 1]
        BY <2>5
      <4> QED
        BY <2>4, <2>5, <3>2, <4>1, <4>2
    <3> QED
      BY <2>2, <3>1, <3>2
  <2>7. PlacedUpTo(f[n + 1], end, parts, n + 1)
    <3>1. ASSUME NEW k \in 1 .. n + 1, NEW i \in 1 .. Len(parts[k])
          PROVE  f[n + 1][end[k - 1] + i] = parts[k][i]
      <4>1. CASE k \in 1 .. n
        <5>1. f[n][end[k - 1] + i] = parts[k][i]
          BY <2>2, <4>1 DEF PlacedUpTo
        <5>2. end[k] = end[k - 1] + Len(parts[k]) /\ end[k] <= end[n]
          BY <2>2, <4>1
        <5>3. end[k - 1] \in Nat
          <6>1. CASE k = 1
            BY <1>2, <6>1
          <6>2. CASE k # 1
            <7>1. k - 1 \in 1 .. n /\ k - 1 \in 1 .. Len(parts)
              BY <2>2, <4>1, <6>2
            <7>2. f[k - 1] \in Seq(T) /\ end[k - 1] = Len(f[k - 1])
              BY <1>2, <2>2, <7>1
            <7> QED
              BY <7>2
          <6> QED
            BY <6>1, <6>2
        <5>4. Len(parts[k]) \in Nat
          BY <1>1, <2>2, <4>1
        <5>5. end[k - 1] + i \in 1 .. Len(f[n])
          <6>1. /\ i \in Nat /\ 1 <= i /\ i <= Len(parts[k])
                /\ Len(f[n]) = end[n] /\ Len(f[n]) \in Nat
            BY <2>3, <5>4
          <6> HIDE DEF end
          <6> QED
            BY ONLY <5>2, <5>3, <5>4, <6>1
        <5>6. f[n + 1][end[k - 1] + i] = f[n][end[k - 1] + i]
          BY <2>4, <5>5 DEF JoinedAs
        <5> QED
          BY <5>1, <5>6
      <4>2. CASE k = n + 1
        <5>1. k - 1 = n /\ end[k - 1] = Len(f[n])
          BY <2>2, <2>3, <4>2
        <5> QED
          BY <2>4, <4>2, <5>1 DEF JoinedAs
      <4> QED
        BY <2>2, <4>1, <4>2
    <3> QED
      BY <3>1 DEF PlacedUpTo
  <2>8. P(n + 1)
    <3>1. end[n + 1] <= end[n + 1]
      BY <2>3, <2>4
    <3> QED
      BY <2>4, <2>6, <2>7
  <2> QED
    BY <2>8 DEF n
<1>5. 0 \in S
  BY <1>3
<1>6. P(Len(parts))
  <2>1. Nat \subseteq S
    <3> HIDE DEF S
    <3> QED
      BY <1>4, <1>5, NatSetInduction
  <2>2. Len(parts) - 1 \in Nat /\ (Len(parts) - 1) + 1 = Len(parts)
    BY <1>1
  <2>3. Len(parts) - 1 \in S
    BY <2>1, <2>2
  <2> HIDE DEF P
  <2>4. P((Len(parts) - 1) + 1)
    BY <1>1, <2>2, <2>3
  <2> QED
    BY <2>2, <2>4
<1>7. Len(parts) \in 1 .. Len(parts)
  BY <1>1
<1>8. Ends(end, parts)
  <2>1. ASSUME NEW k \in 0 .. Len(parts) PROVE end[k] \in Nat
    <3>1. CASE k = 0
      BY <1>2, <3>1
    <3>2. CASE k \in 1 .. Len(parts)
      <4>1. f[k] \in Seq(T) /\ end[k] = Len(f[k])
        BY <1>2, <1>6, <3>2
      <4> QED
        BY <4>1
    <3> QED
      BY <1>1, <3>1, <3>2
  <2>2. end \in [0 .. Len(parts) -> Nat]
    BY <2>1 DEF end
  <2> QED
    BY <1>2, <1>6, <2>2 DEF Ends
<1> QED
  BY <1>2, <1>6, <1>7, <1>8

\* The records of the application.
PositionRecords ==
  [kind : {EVENT_POSITION}, pid : U64 \X U64, token_idx : U64, balance : U64,
   lock_balance : U64]
TokenRecords ==
  [kind : {EVENT_TOKEN}, token_idx : U64, address : [1 .. 20 -> 0 .. 255]]
MarketRecords ==
  [kind : {EVENT_MARKET}, market_id : U64, status : U64, token_a : U64,
   token_b : U64, last_deal_price : U64]
OrderRecords ==
  [kind : {EVENT_ORDER}, id : U64, type_ : U64, status : U64, pid : U64 \X U64,
   market_id : U64, flag : U64, lock_balance : U64, lock_fee : U64, price : U64,
   b_token_amount : U64, a_token_amount : U64, already_deal_amount : U64]
TradeRecords ==
  [kind : {EVENT_TRADE}, trade_id : U64, market_id : U64, a_order_id : U64,
   b_order_id : U64, a_actual_amount : U64, b_actual_amount : U64]

Records == PositionRecords \cup TokenRecords \cup MarketRecords
             \cup OrderRecords \cup TradeRecords

\* The document of a record, and where it is looked up.
UpsertOf(r) ==
  CASE r.kind = EVENT_POSITION ->
         Upsert("positions", <<r.pid[1], r.pid[2], r.token_idx>>, Mirrored(r))
    [] r.kind = EVENT_TOKEN -> Upsert("tokens", r.token_idx, Mirrored(r))
    [] r.kind = EVENT_MARKET -> Upsert("markets", r.market_id, Mirrored(r))
    [] r.kind = EVENT_ORDER -> Upsert("orders", r.id, Mirrored(r))
    [] r.kind = EVENT_TRADE -> Upsert("trades", r.trade_id, Mirrored(r))

\* The words of a record and the document they become.
Understood(r) ==
  /\ RecordWords(r) \in Seq(U64) /\ Len(RecordWords(r)) \in 1 .. 21
  /\ r.kind \in 1 .. 5
  /\ Upserts(r.kind, RecordWords(r)) = {UpsertOf(r)}

USE DEF EVENT_POSITION, EVENT_TOKEN, EVENT_MARKET, EVENT_ORDER, EVENT_TRADE

LEMMA PositionUnderstood ==
  ASSUME NEW r \in PositionRecords
  PROVE  Understood(r)
<1>1. /\ r.kind = 1 /\ r.pid[1] \in U64 /\ r.pid[2] \in U64 /\ r.token_idx \in U64
      /\ r.balance \in U64 /\ r.lock_balance \in U64
  BY DEF PositionRecords
<1> DEFINE w == PositionWords(r)
<1>2. /\ w \in Seq(U64) /\ Len(w) = 5 /\ w[1] = r.pid[1] /\ w[2] = r.pid[2]
      /\ w[3] = r.token_idx /\ w[4] = r.balance /\ w[5] = r.lock_balance
  BY <1>1 DEF PositionWords
<1>3. RecordWords(r) = w
  BY <1>1 DEF RecordWords
<1> HIDE DEF w
<1>4. /\ PositionFromEvent(w).pid_1 = r.pid[1] /\ PositionFromEvent(w).pid_2 = r.pid[2]
      /\ PositionFromEvent(w).token_idx = r.token_idx
      /\ PositionFromEvent(w) = Mirrored(r)
  BY <1>1, <1>2 DEF PositionFromEvent, Mirrored
<1>5. UpsertOf(r) = Upsert("positions", <<r.pid[1], r.pid[2], r.token_idx>>,
                           Mirrored(r))
  BY <1>1 DEF UpsertOf
<1>6. Upserts(r.kind, w) = {UpsertOf(r)}
  BY <1>1, <1>4, <1>5 DEF Upserts
<1> QED
  BY <1>1, <1>2, <1>3, <1>6 DEF Understood

LEMMA MarketUnderstood ==
  ASSUME NEW r \in MarketRecords
  PROVE  Understood(r)
<1>1. /\ r.kind = 3 /\ r.market_id \in U64 /\ r.status \in U64 /\ r.token_a \in U64
      /\ r.token_b \in U64 /\ r.last_deal_price \in U64
  BY DEF MarketRecords
<1> DEFINE w == MarketWords(r)
<1>2. /\ w \in Seq(U64) /\ Len(w) = 5 /\ w[1] = r.market_id /\ w[2] = r.status
      /\ w[3] = r.token_a /\ w[4] = r.token_b /\ w[5] = r.last_deal_price
  BY <1>1 DEF MarketWords
<1>3. RecordWords(r) = w
  BY <1>1 DEF RecordWords
<1> HIDE DEF w
<1>4. /\ MarketFromEvent(w).marketId = r.market_id
      /\ MarketFromEvent(w) = Mirrored(r)
  BY <1>1, <1>2
     DEF MarketFromEvent, Mirrored
<1>5. UpsertOf(r) = Upsert("markets", r.market_id, Mirrored(r))
  BY <1>1 DEF UpsertOf
<1>6. Upserts(r.kind, w) = {UpsertOf(r)}
  BY <1>1, <1>4, <1>5 DEF Upserts
<1> QED
  BY <1>1, <1>2, <1>3, <1>6 DEF Understood

LEMMA TradeUnderstood ==
  ASSUME NEW r \in TradeRecords
  PROVE  Understood(r)
<1>0. r = [kind |-> 5, trade_id |-> r.trade_id, market_id |-> r.market_id,
           a_order_id |-> r.a_order_id, b_order_id |-> r.b_order_id,
           a_actual_amount |-> r.a_actual_amount,
           b_actual_amount |-> r.b_actual_amount]
  BY DEF TradeRecords
<1>1. /\ r.kind = 5 /\ r.trade_id \in U64 /\ r.market_id \in U64
      /\ r.a_order_id \in U64 /\ r.b_order_id \in U64
      /\ r.a_actual_amount \in U64 /\ r.b_actual_amount \in U64
  BY DEF TradeRecords
<1> DEFINE w == TradeWords(r)
<1>2. /\ w \in Seq(U64) /\ Len(w) = 6 /\ w[1] = r.trade_id /\ w[2] = r.market_id
      /\ w[3] = r.a_order_id /\ w[4] = r.b_order_id /\ w[5] = r.a_actual_amount
      /\ w[6] = r.b_actual_amount
  BY <1>1 DEF TradeWords
<1>3. RecordWords(r) = w
  BY <1>1 DEF RecordWords
<1> HIDE DEF w
<1>4. Mirrored(r) =
        [trade_id |-> r.trade_id, market_id |-> r.market_id,
         a_order_id |-> r.a_order_id, b_order_id |-> r.b_order_id,
         a_actual_amount |-> r.a_actual_amount,
         b_actual_amount |-> r.b_actual_amount]
  <2>1. Mirrored(r) = [f \in DOMAIN r \ {"kind"} |-> r[f]]
    BY <1>1 DEF Mirrored
  <2> QED
    BY <1>0, <2>1
<1>5. TradeFromEvent(w).trade_id = r.trade_id /\ TradeFromEvent(w) = Mirrored(r)
  BY <1>2, <1>4 DEF TradeFromEvent
<1>6. UpsertOf(r) = Upsert("trades", r.trade_id, Mirrored(r))
  BY <1>1 DEF UpsertOf
<1>7. Upserts(r.kind, w) = {UpsertOf(r)}
  BY <1>1, <1>5, <1>6 DEF Upserts
<1> QED
  BY <1>1, <1>2, <1>3, <1>7 DEF Understood

LEMMA OrderUnderstood ==
  ASSUME NEW r \in OrderRecords
  PROVE  Understood(r)
<1>0. r = [kind |-> 4, id |-> r.id, type_ |-> r.type_, status |-> r.status,
           pid |-> r.pid, market_id |-> r.market_id, flag |-> r.flag,
           lock_balance |-> r.lock_balance, lock_fee |-> r.lock_fee,
           price |-> r.price, b_token_amount |-> r.b_token_amount,
           a_token_amount |-> r.a_token_amount,
           already_deal_amount |-> r.already_deal_amount]
  BY DEF OrderRecords
<1>1. /\ r.kind = 4 /\ r.id \in U64 /\ r.type_ \in U64 /\ r.status \in U64
      /\ r.pid \in U64 \X U64 /\ r.market_id \in U64 /\ r.flag \in U64
      /\ r.lock_balance \in U64 /\ r.lock_fee \in U64 /\ r.price \in U64
      /\ r.b_token_amount \in U64 /\ r.a_token_amount \in U64
      /\ r.already_deal_amount \in U64
  BY DEF OrderRecords
<1>2. r.pid = <<r.pid[1], r.pid[2]>> /\ r.pid[1] \in U64 /\ r.pid[2] \in U64
  BY <1>1
<1> DEFINE w == OrderWords(r)
<1>3. w \in Seq(U64) /\ Len(w) = 13
  BY <1>1, <1>2 DEF OrderWords
<1>4. /\ w[1] = r.id /\ w[2] = r.type_ /\ w[3] = r.status /\ w[4] = r.pid[1]
      /\ w[5] = r.pid[2] /\ w[6] = r.market_id /\ w[7] = r.flag
      /\ w[8] = r.lock_balance /\ w[9] = r.lock_fee /\ w[10] = r.price
      /\ w[11] = r.b_token_amount /\ w[12] = r.a_token_amount
      /\ w[13] = r.already_deal_amount
  BY DEF OrderWords
<1>5. RecordWords(r) = w
  BY <1>1 DEF RecordWords
<1> HIDE DEF w
<1> DEFINE doc == [id |-> r.id, type_ |-> r.type_, status |-> r.status,
           pid |-> r.pid, market_id |-> r.market_id, flag |-> r.flag,
           lock_balance |-> r.lock_balance, lock_fee |-> r.lock_fee,
           price |-> r.price, b_token_amount |-> r.b_token_amount,
           a_token_amount |-> r.a_token_amount,
           already_deal_amount |-> r.already_deal_amount]
<1>6. Mirrored(r) = doc
  <2>1. Mirrored(r) = [f \in DOMAIN r \ {"kind"} |-> r[f]]
    BY <1>1 DEF Mirrored
  <2> QED
    BY <1>0, <2>1
<1>7. OrderToObject(OrderFromEvent(w)) = doc /\ OrderFromEvent(w).id = r.id
  <2>1. OrderFromEvent(w) =
          [id |-> r.id, type_ |-> r.type_, status |-> r.status,
           pid |-> r.pid, market_id |-> r.market_id, flag |-> r.flag,
           lock_balance |-> r.lock_balance, lock_fee |-> r.lock_fee,
           price |-> r.price, b_token_amount |-> r.b_token_amount,
           a_token_amount |-> r.a_token_amount,
           already_deal_amount |-> r.already_deal_amount,
           shadow_already_deal_amount |-> r.already_deal_amount]
    BY <1>2, <1>4 DEF OrderFromEvent
  <2> QED
    BY <2>1 DEF OrderToObject
<1> HIDE DEF doc
<1>8. UpsertOf(r) = Upsert("orders", r.id, doc)
  BY <1>1, <1>6 DEF UpsertOf
<1>9. Upserts(r.kind, w) = {UpsertOf(r)}
  BY <1>1, <1>7, <1>8 DEF Upserts
<1> QED
  BY <1>1, <1>3, <1>5, <1>9 DEF Understood

LEMMA ByteOfWord ==
  ASSUME NEW n \in 0 .. 255
  PROVE  Word(n) \in U64 /\ Word(n)[1] = n
<1>1. n \in Nat /\ n % 256 = n
  OBVIOUS
<1> QED
  BY <1>1, WordIsU64 DEF Word

LEMMA TokenUnderstood ==
  ASSUME NEW r \in TokenRecords
  PROVE  Understood(r)
<1>1. r.kind = 2 /\ r.token_idx \in U64 /\ r.address \in [1 .. 20 -> 0 .. 255]
  BY DEF TokenRecords
<1> DEFINE top == <<r.token_idx>>
           rest == [i \in 1 .. 20 |-> Word(r.address[i])]
           w == TokenWords(r)
<1>2. top \in Seq(U64) /\ Len(top) = 1 /\ top[1] = r.token_idx
  BY <1>1
<1>3. \A i \in 1 .. 20 : r.address[i] \in 0 .. 255
  BY <1>1
<1>4. \A i \in 1 .. 20 : Word(r.address[i]) \in U64 /\ Word(r.address[i])[1] = r.address[i]
  BY <1>3, ByteOfWord
<1>5. /\ rest \in Seq(U64) /\ Len(rest) = 20
      /\ \A i \in 1 .. 20 : rest[i][1] = r.address[i]
  BY <1>4
<1>6. w = top \o rest /\ RecordWords(r) = w
  <2>1. w = top \o rest
    BY DEF TokenWords
  <2> HIDE DEF w
  <2>2. RecordWords(r) = TokenWords(r)
    <3>1. r.kind = 2
      BY <1>1
    <3> QED
      BY ONLY <3>1 DEF RecordWords, EVENT_POSITION, EVENT_TOKEN, EVENT_MARKET,
                       EVENT_ORDER, EVENT_TRADE
  <2> QED
    BY <2>1, <2>2 DEF w
<1> HIDE DEF top, rest, w
<1>7. w \in Seq(U64) /\ JoinedAs(w, top, rest)
  BY <1>2, <1>5, <1>6, Joined
<1>8. Len(w) = 21 /\ w[1] = r.token_idx
  <2>1. Len(w) = Len(top) + Len(rest)
    BY <1>7 DEF JoinedAs
  <2>2. 1 \in 1 .. Len(top)
    BY <1>2
  <2>3. w[1] = top[1]
    BY <1>7, <2>2 DEF JoinedAs
  <2> QED
    BY <1>2, <1>5, <2>1, <2>3
<1>9. \A i \in 1 .. 20 : w[i + 1][1] = r.address[i]
  <2>1. ASSUME NEW i \in 1 .. 20 PROVE w[i + 1][1] = r.address[i]
    <3>1. i \in 1 .. Len(rest) /\ Len(top) + i = i + 1
      BY <1>2, <1>5
    <3>2. w[Len(top) + i] = rest[i]
      BY <1>7, <3>1 DEF JoinedAs
    <3> QED
      BY <1>5, <3>1, <3>2
  <2> QED
    BY <2>1
<1> DEFINE doc == [tokenIdx |-> r.token_idx, address |-> r.address]
<1>10. Mirrored(r) = doc
  BY <1>1 DEF Mirrored
<1>11. [i \in 1 .. 20 |-> w[i + 1][1]] = r.address
  BY <1>1, <1>9
<1>12. TokenFromEvent(w) = doc /\ doc.tokenIdx = r.token_idx
  BY <1>8, <1>11 DEF TokenFromEvent
<1> HIDE DEF doc
<1>13. UpsertOf(r) = Upsert("tokens", r.token_idx, doc)
  BY <1>1, <1>10 DEF UpsertOf
<1>14. Upserts(r.kind, w) = {UpsertOf(r)}
  BY <1>1, <1>12, <1>13 DEF Upserts
<1> QED
  BY <1>1, <1>6, <1>7, <1>8, <1>14 DEF Understood

\* Whatever words a record has, its document says what it says.
LEMMA RecordUnderstood ==
  ASSUME NEW r \in Records
  PROVE  Understood(r)
BY PositionUnderstood, TokenUnderstood, MarketUnderstood, OrderUnderstood,
   TradeUnderstood DEF Records

\* Two records have one document exactly if they are of one key.
LEMMA OneDocumentPerKey ==
  ASSUME NEW r \in Records, NEW s \in Records
  PROVE  SameRecord(s, r) <=> /\ UpsertOf(s).in = UpsertOf(r).in
                              /\ UpsertOf(s).key = UpsertOf(r).key
<1>1. ASSUME NEW x \in Records
      PROVE  /\ x.kind \in 1 .. 5
             /\ x.kind = 1 => /\ UpsertOf(x).in = "positions"
                              /\ x.pid = <<x.pid[1], x.pid[2]>>
                              /\ UpsertOf(x).key = <<x.pid[1], x.pid[2], x.token_idx>>
             /\ x.kind = 2 => UpsertOf(x).in = "tokens" /\ UpsertOf(x).key = x.token_idx
             /\ x.kind = 3 => UpsertOf(x).in = "markets" /\ UpsertOf(x).key = x.market_id
             /\ x.kind = 4 => UpsertOf(x).in = "orders" /\ UpsertOf(x).key = x.id
             /\ x.kind = 5 => UpsertOf(x).in = "trades" /\ UpsertOf(x).key = x.trade_id
  <2>1. x.kind \in 1 .. 5
    BY RecordUnderstood DEF Understood
  <2>2. x.kind = 1 => x.pid \in U64 \X U64
    <3>1. x \in PositionRecords => x.pid \in U64 \X U64
      BY DEF PositionRecords
    <3>2. x.kind = 1 => x \in PositionRecords
      <4>1. x \in TokenRecords => x.kind # 1
        BY DEF TokenRecords
      <4>2. x \in MarketRecords => x.kind # 1
        BY DEF MarketRecords
      <4>3. x \in OrderRecords => x.kind # 1
        BY DEF OrderRecords
      <4>4. x \in TradeRecords => x.kind # 1
        BY DEF TradeRecords
      <4> QED
        BY <4>1, <4>2, <4>3, <4>4 DEF Records
    <3> QED
      BY <3>1, <3>2
  <2>3. x.kind = 1 => x.pid = <<x.pid[1], x.pid[2]>>
    BY <2>2
  <2>4. /\ x.kind = 1 => UpsertOf(x) = Upsert("positions",
                           <<x.pid[1], x.pid[2], x.token_idx>>, Mirrored(x))
        /\ x.kind = 2 => UpsertOf(x) = Upsert("tokens", x.token_idx, Mirrored(x))
        /\ x.kind = 3 => UpsertOf(x) = Upsert("markets", x.market_id, Mirrored(x))
        /\ x.kind = 4 => UpsertOf(x) = Upsert("orders", x.id, Mirrored(x))
        /\ x.kind = 5 => UpsertOf(x) = Upsert("trades", x.trade_id, Mirrored(x))
    BY DEF UpsertOf
  <2> QED
    BY <2>1, <2>3, <2>4 DEF Upsert
<1>2. r.kind # s.kind => UpsertOf(s).in # UpsertOf(r).in
  BY <1>1
<1>3. ASSUME r.kind = s.kind
      PROVE  SameRecord(s, r) <=> UpsertOf(s).key = UpsertOf(r).key
  <2>1. CASE r.kind = 1
    <3>1. UpsertOf(s).key = UpsertOf(r).key <=>
            s.pid[1] = r.pid[1] /\ s.pid[2] = r.pid[2] /\ s.token_idx = r.token_idx
      <4>1. /\ UpsertOf(s).key = <<s.pid[1], s.pid[2], s.token_idx>>
            /\ UpsertOf(r).key = <<r.pid[1], r.pid[2], r.token_idx>>
        BY <1>1, <1>3, <2>1
      <4> QED
        BY <4>1
    <3>2. s.pid = r.pid <=> s.pid[1] = r.pid[1] /\ s.pid[2] = r.pid[2]
      BY <1>1, <1>3, <2>1
    <3>3. SameRecord(s, r) <=> s.pid = r.pid /\ s.token_idx = r.token_idx
      BY <1>3, <2>1 DEF SameRecord
    <3> QED
      BY <3>1, <3>2, <3>3
  <2>2. CASE r.kind = 2
    <3>1. UpsertOf(s).key = s.token_idx /\ UpsertOf(r).key = r.token_idx
      BY <1>1, <1>3, <2>2
    <3>2. SameRecord(s, r) <=> s.token_idx = r.token_idx
      BY <1>3, <2>2 DEF SameRecord
    <3> QED
      BY <3>1, <3>2
  <2>3. CASE r.kind = 3
    <3>1. UpsertOf(s).key = s.market_id /\ UpsertOf(r).key = r.market_id
      BY <1>1, <1>3, <2>3
    <3>2. SameRecord(s, r) <=> s.market_id = r.market_id
      BY <1>3, <2>3 DEF SameRecord
    <3> QED
      BY <3>1, <3>2
  <2>4. CASE r.kind = 4
    <3>1. UpsertOf(s).key = s.id /\ UpsertOf(r).key = r.id
      BY <1>1, <1>3, <2>4
    <3>2. SameRecord(s, r) <=> s.id = r.id
      BY <1>3, <2>4 DEF SameRecord
    <3> QED
      BY <3>1, <3>2
  <2>5. CASE r.kind = 5
    <3>1. UpsertOf(s).key = s.trade_id /\ UpsertOf(r).key = r.trade_id
      BY <1>1, <1>3, <2>5
    <3>2. SameRecord(s, r) <=> s.trade_id = r.trade_id
      BY <1>3, <2>5 DEF SameRecord
    <3> QED
      BY <3>1, <3>2
  <2> QED
    BY <1>1, <2>1, <2>2, <2>3, <2>4, <2>5
<1>4. SameRecord(s, r) => r.kind = s.kind
  BY DEF SameRecord
<1>5. r.kind = s.kind => UpsertOf(s).in = UpsertOf(r).in
  BY <1>1
<1> QED
  BY <1>2, <1>3, <1>4, <1>5

\* The header of an event is read as it was written.
FirstOf(u, s, n) == Len(u) = n /\ \A i \in 1 .. n : u[i] = s[i]

LEMMA FirstPart ==
  ASSUME NEW S, NEW s \in Seq(S), NEW n \in 1 .. Len(s)
  PROVE  SubSeq(s, 1, n) \in Seq(S) /\ FirstOf(SubSeq(s, 1, n), s, n)
<1>1. 1 \in Int /\ n \in Int /\ \A i \in 1 .. n : s[i] \in S
  OBVIOUS
<1>2. /\ SubSeq(s, 1, n) \in Seq(S)
      /\ Len(SubSeq(s, 1, n)) = IF 1 <= n THEN n - 1 + 1 ELSE 0
      /\ \A i \in 1 .. n - 1 + 1 : SubSeq(s, 1, n)[i] = s[1 + i - 1]
  BY <1>1, SubSeqProperties
<1>3. n - 1 + 1 = n /\ 1 <= n /\ \A i \in 1 .. n : 1 + i - 1 = i
  OBVIOUS
<1> QED
  BY <1>2, <1>3 DEF FirstOf

HeaderOf(h, l, kind) == h \in Bytes /\ Low(h) = l /\ Low(SubSeq(h, 5, 8)) = kind

LEMMA HeaderIsRead ==
  ASSUME NEW l \in Nat, NEW kind \in Nat
  PROVE  HeaderOf(u32(Word(l)) \o u32(Word(kind)), l, kind)
<1> DEFINE h == u32(Word(l)) \o u32(Word(kind))
<1>1. ASSUME NEW n \in Nat
      PROVE  /\ u32(Word(n)) \in Seq(Nat) /\ Len(u32(Word(n))) = 4
             /\ Low(u32(Word(n))) = n
  <2> DEFINE w == Word(n)
             u == SubSeq(w, 1, 4)
  <2>1. w \in Seq(Nat) /\ Len(w) = 8
    BY WordIsU64 DEF U64, Bytes
  <2>2. w[1] + 256 * w[2] + 65536 * w[3] + 16777216 * w[4] = n
    <3>1. /\ w[1] = n % 256 /\ w[2] = (n \div 256) % 256
          /\ w[3] = (n \div 65536) % 256 /\ w[4] = n \div 16777216
      BY DEF Word
    <3>2. (n % 256) + 256 * ((n \div 256) % 256) + 65536 * ((n \div 65536) % 256)
            + 16777216 * (n \div 16777216) = n
      OBVIOUS
    <3> QED
      BY <3>1, <3>2
  <2> HIDE DEF w
  <2>3. u \in Seq(Nat) /\ FirstOf(u, w, 4)
    <3>1. 4 \in 1 .. Len(w)
      BY <2>1
    <3> QED
      BY <2>1, <3>1, FirstPart
  <2>4. /\ Len(u) = 4
        /\ u[1] = w[1] /\ u[2] = w[2] /\ u[3] = w[3] /\ u[4] = w[4]
    <3> HIDE DEF u
    <3>1. 1 \in 1 .. 4 /\ 2 \in 1 .. 4 /\ 3 \in 1 .. 4 /\ 4 \in 1 .. 4
      OBVIOUS
    <3> QED
      BY <2>3, <3>1 DEF FirstOf
  <2>5. u32(Word(n)) = u
    BY DEF u32, w
  <2> HIDE DEF u
  <2> QED
    BY <2>2, <2>3, <2>4, <2>5 DEF Low
<1> DEFINE s == u32(Word(l))
           t == u32(Word(kind))
<1>2. /\ s \in Seq(Nat) /\ Len(s) = 4 /\ Low(s) = l
      /\ t \in Seq(Nat) /\ Len(t) = 4 /\ Low(t) = kind
  BY <1>1
<1> HIDE DEF s, t, h
<1>3. h \in Seq(Nat) /\ JoinedAs(h, s, t)
  BY <1>2, Joined DEF s, t, h
<1>4. h[1] = s[1] /\ h[2] = s[2] /\ h[3] = s[3] /\ h[4] = s[4]
  <2>1. 1 \in 1 .. Len(s) /\ 2 \in 1 .. Len(s) /\ 3 \in 1 .. Len(s) /\ 4 \in 1 .. Len(s)
    BY <1>2
  <2> QED
    BY <1>3, <2>1 DEF JoinedAs
<1>5. Low(h) = l
  BY <1>2, <1>4 DEF Low
<1>6. SubSeq(h, 5, 8) = t
  <2>1. /\ 5 \in Nat /\ 8 \in Nat /\ 5 = Len(s) + 1 /\ 8 = Len(s) + Len(t)
        /\ Len(t) > 0
    BY <1>2
  <2>3. s \in Seq(Nat) /\ t \in Seq(Nat)
    BY <1>2
  <2>2. SubSeq(s \o t, 5, 8) = t
    BY ONLY <2>1, <2>3, SecondPart
  <2> QED
    BY <2>2 DEF s, t, h
<1> QED
  BY <1>2, <1>3, <1>5, <1>6 DEF Bytes, HeaderOf, h

LEMMA SmallerOfTwo ==
  ASSUME NEW a \in Int, NEW b \in Int, a <= b
  PROVE  Min({a, b}) = a
BY DEF Min

-----------------------------------------------------------------------------
\* e is the event of r: its header, and its words.
EventOf(e, r) ==
  /\ Len(e) = 1 + Len(RecordWords(r))
  /\ Low(e[1]) = Len(RecordWords(r)) /\ Low(SubSeq(e[1], 5, 8)) = r.kind
  /\ \A i \in 1 .. Len(RecordWords(r)) : e[1 + i] = RecordWords(r)[i]

LEMMA AddedEvent ==
  ASSUME NEW r \in Records
  PROVE  add_event(r) \in Seq(Bytes) /\ EventOf(add_event(r), r)
<1> DEFINE w == RecordWords(r)
           h == u32(Word(Len(w))) \o u32(Word(r.kind))
           top == <<h>>
<1>1. w \in Seq(U64) /\ Len(w) \in Nat /\ r.kind \in Nat
  BY RecordUnderstood DEF Understood
<1>2. add_event(r) = top \o w
  BY DEF add_event
<1> HIDE DEF w
<1>3. h \in Bytes /\ Low(h) = Len(w) /\ Low(SubSeq(h, 5, 8)) = r.kind
  <2>1. HeaderOf(h, Len(w), r.kind)
    BY <1>1, HeaderIsRead
  <2> QED
    BY <2>1 DEF HeaderOf
<1> HIDE DEF h
<1>4. top \in Seq(Bytes) /\ Len(top) = 1 /\ top[1] = h
  BY <1>3
<1>5. w \in Seq(Bytes)
  BY <1>1 DEF U64
<1> HIDE DEF top
<1>6. top \o w \in Seq(Bytes) /\ JoinedAs(top \o w, top, w)
  BY <1>4, <1>5, Joined
<1> DEFINE e == add_event(r)
<1>7. /\ Len(e) = 1 + Len(w) /\ e[1] = h
      /\ \A i \in 1 .. Len(w) : e[1 + i] = w[i]
  <2>1. 1 \in 1 .. Len(top)
    BY <1>4
  <2> QED
    BY <1>2, <1>4, <1>6, <2>1 DEF JoinedAs
<1> QED
  BY <1>2, <1>3, <1>6, <1>7 DEF EventOf, w

\* Where the events of the records are among the words of a transaction.
EventsPlaced(ev, R, end) ==
  /\ ev \in Seq(Bytes) /\ ev[1] = Word(0) /\ Len(ev) = 2 + end[Len(R)]
  /\ end \in [0 .. Len(R) -> Nat] /\ end[0] = 0
  /\ \A k \in 1 .. Len(R) :
       /\ end[k] = end[k - 1] + Len(add_event(R[k])) /\ end[k] <= end[Len(R)]
       /\ \A i \in 1 .. Len(add_event(R[k])) :
            ev[2 + end[k - 1] + i] = add_event(R[k])[i]

LEMMA EventsArePlaced ==
  ASSUME NEW R \in Seq(Records), NEW ev, ev = Events(0, W(1), R)
  PROVE  \E end : EventsPlaced(ev, R, end)
<1> DEFINE parts == [k \in DOMAIN R |-> add_event(R[k])]
           id == IF R = <<>> THEN Word(0) ELSE W(1)
           top == <<Word(0), id>>
           all == FlattenSeq(parts)
<1>1. Len(R) \in Nat /\ DOMAIN R = 1 .. Len(R) /\ \A k \in 1 .. Len(R) : R[k] \in Records
  OBVIOUS
<1>2. \A k \in 1 .. Len(R) : add_event(R[k]) \in Seq(Bytes)
  BY <1>1, AddedEvent
<1>3. /\ parts \in Seq(Seq(Bytes)) /\ Len(parts) = Len(R)
      /\ \A k \in 1 .. Len(R) : parts[k] = add_event(R[k])
  BY <1>1, <1>2
<1>4. ev = top \o all
  BY DEF Events
<1>5. top \in Seq(Bytes) /\ Len(top) = 2 /\ top[1] = Word(0)
  <2>1. Word(0) \in Bytes /\ W(1) \in Bytes
    <3>1. Word(0) \in U64
      BY WordIsU64
    <3>2. W(1) \in U64
      BY DEF W, U64, Bytes
    <3> QED
      BY <3>1, <3>2 DEF U64
  <2>2. id \in Bytes
    BY <2>1
  <2> HIDE DEF id
  <2> QED
    BY <2>1, <2>2
<1> HIDE DEF parts, top, all
<1>6. \E end : /\ Ends(end, parts) /\ all \in Seq(Bytes)
               /\ Len(all) = end[Len(parts)]
               /\ PlacedUpTo(all, end, parts, Len(parts))
  <2>1. CASE Len(R) = 0
    <3>1. all = parts
      BY <1>3, <2>1 DEF all, FlattenSeq
    <3>2. parts = <<>>
      BY <1>3, <2>1
    <3> DEFINE e == [k \in 0 .. 0 |-> 0]
    <3>3. Ends(e, parts)
      BY <1>3, <2>1 DEF Ends
    <3>4. PlacedUpTo(all, e, parts, Len(parts))
      BY <1>3, <2>1 DEF PlacedUpTo
    <3>5. all \in Seq(Bytes) /\ Len(all) = e[Len(parts)]
      BY <1>3, <2>1, <3>1, <3>2
    <3> HIDE DEF e
    <3> QED
      BY <3>3, <3>4, <3>5
  <2>2. CASE Len(R) # 0
    <3>1. Len(parts) \in Nat /\ Len(parts) > 0
      BY <1>1, <1>3, <2>2
    <3>2. PICK f : /\ f[1] = parts[1]
                   /\ \A k \in 1 .. Len(parts) - 1 : f[k + 1] = f[k] \o parts[k + 1]
                   /\ FlattenSeq(parts) = f[Len(parts)]
      BY <3>1, FlattenSteps
    <3>3. PICK end : /\ Ends(end, parts)
                     /\ f[Len(parts)] \in Seq(Bytes)
                     /\ Len(f[Len(parts)]) = end[Len(parts)]
                     /\ PlacedUpTo(f[Len(parts)], end, parts, Len(parts))
      BY <1>3, <3>1, <3>2, PartsInPlace
    <3>4. all = f[Len(parts)]
      BY <3>2 DEF all
    <3> QED
      BY <3>3, <3>4
  <2> QED
    BY <2>1, <2>2
<1>7. PICK end : /\ Ends(end, parts) /\ all \in Seq(Bytes)
                 /\ Len(all) = end[Len(parts)]
                 /\ PlacedUpTo(all, end, parts, Len(parts))
  BY <1>6
<1>8. ev \in Seq(Bytes) /\ JoinedAs(ev, top, all)
  BY <1>4, <1>5, <1>7, Joined
<1>9. ev[1] = Word(0) /\ Len(ev) = 2 + end[Len(R)]
  <2>1. 1 \in 1 .. Len(top)
    BY <1>5
  <2> QED
    BY <1>3, <1>5, <1>7, <1>8, <2>1 DEF JoinedAs
<1>10. end \in [0 .. Len(R) -> Nat] /\ end[0] = 0
  BY <1>3, <1>7 DEF Ends
<1>11. ASSUME NEW k \in 1 .. Len(R)
       PROVE  /\ end[k] = end[k - 1] + Len(add_event(R[k])) /\ end[k] <= end[Len(R)]
              /\ \A i \in 1 .. Len(add_event(R[k])) :
                   ev[2 + end[k - 1] + i] = add_event(R[k])[i]
  <2>1. end[k] = end[k - 1] + Len(add_event(R[k])) /\ end[k] <= end[Len(R)]
    BY <1>3, <1>7 DEF Ends
  <2>2. ASSUME NEW i \in 1 .. Len(add_event(R[k]))
        PROVE  ev[2 + end[k - 1] + i] = add_event(R[k])[i]
    <3>1. all[end[k - 1] + i] = add_event(R[k])[i]
      <4>1. k \in 1 .. Len(parts) /\ parts[k] = add_event(R[k])
            /\ i \in 1 .. Len(parts[k])
        BY <1>3
      <4>2. all[end[k - 1] + i] = parts[k][i]
        BY <1>7, <4>1 DEF PlacedUpTo
      <4> QED
        BY <4>1, <4>2
    <3>2. k - 1 \in 0 .. Len(R) /\ k \in 0 .. Len(R) /\ Len(R) \in 0 .. Len(R)
      BY <1>1
    <3>3. end[k - 1] \in Nat /\ end[k] \in Nat /\ end[Len(R)] \in Nat
      BY <1>10, <3>2
    <3>4. end[k - 1] + i \in 1 .. Len(all)
      <4>1. Len(add_event(R[k])) \in Nat
        BY <1>2
      <4>2. Len(all) = end[Len(R)]
        BY <1>3, <1>7
      <4> QED
        BY <2>1, <3>3, <4>1, <4>2
    <3>5. ev[Len(top) + (end[k - 1] + i)] = all[end[k - 1] + i]
      BY <1>8, <3>4 DEF JoinedAs
    <3>6. Len(top) + (end[k - 1] + i) = 2 + end[k - 1] + i
      BY <1>5, <3>3
    <3> QED
      BY <3>1, <3>5, <3>6
  <2> QED
    BY <2>1, <2>2
<1>12. EventsPlaced(ev, R, end)
  BY <1>8, <1>9, <1>10, <1>11 DEF EventsPlaced
<1> QED
  BY <1>12

\* At p the callback reads the record r, and finds what follows it at next.
ReadsAt(ev, p, r, next) ==
  /\ p \in Nat /\ p <= Len(ev) /\ nextEvent(ev, p) = next
  /\ Upserts(eventType(ev, p), eventData(ev, p)) = {UpsertOf(r)}

\* For every sequence of records of every kind that a transaction reports, the
\* callback that stands at the k-th event reads the k-th record from it, as the
\* document of that record, and finds where the next event begins.
THEOREM EventIsRead ==
  ASSUME NEW R \in Seq(Records), NEW ev, NEW end, EventsPlaced(ev, R, end),
         NEW k \in 1 .. Len(R), NEW p, p = 3 + end[k - 1]
  PROVE  ReadsAt(ev, p, R[k], 3 + end[k])
<1> DEFINE r == R[k]
           e == add_event(r)
           w == RecordWords(r)
<1>1. r \in Records
  OBVIOUS
<1>2. /\ w \in Seq(U64) /\ Len(w) \in 1 .. 21 /\ Upserts(r.kind, w) = {UpsertOf(r)}
  BY <1>1, RecordUnderstood DEF Understood
<1>3. EventOf(e, r)
  BY <1>1, AddedEvent
<1>4. /\ ev \in Seq(Bytes) /\ Len(ev) = 2 + end[Len(R)]
      /\ end[k] = end[k - 1] + Len(e) /\ end[k] <= end[Len(R)]
      /\ \A i \in 1 .. Len(e) : ev[2 + end[k - 1] + i] = e[i]
  BY DEF EventsPlaced
<1>5. end[k - 1] \in Nat /\ end[k] \in Nat /\ end[Len(R)] \in Nat
  <2>1. k - 1 \in 0 .. Len(R) /\ k \in 0 .. Len(R) /\ Len(R) \in 0 .. Len(R)
    OBVIOUS
  <2>2. end \in [0 .. Len(R) -> Nat]
    BY DEF EventsPlaced
  <2> QED
    BY <2>1, <2>2
<1>6. /\ Len(e) = 1 + Len(w) /\ Low(e[1]) = Len(w) /\ Low(SubSeq(e[1], 5, 8)) = r.kind
      /\ \A i \in 1 .. Len(w) : e[1 + i] = w[i]
  BY <1>3 DEF EventOf
<1> HIDE DEF e, w
<1>7. /\ p \in Nat /\ p + Len(w) = 2 + end[k] /\ p + Len(w) <= Len(ev)
      /\ p <= Len(ev) /\ Len(w) \in Nat /\ 1 <= Len(w) /\ Len(ev) \in Nat
      /\ Len(e) = 1 + Len(w) /\ end[k] = end[k - 1] + 1 + Len(w)
  <2> DEFINE b == end[k - 1]
             c == end[k]
             d == end[Len(R)]
             l == Len(w)
  <2>1. b \in Nat /\ c \in Nat /\ d \in Nat
    BY <1>5
  <2>2. l \in Nat /\ 1 <= l
    <3>1. l \in 1 .. 21
      BY <1>2
    <3> HIDE DEF l
    <3> QED
      BY ONLY <3>1
  <2>3. Len(e) = 1 + l /\ Len(ev) = 2 + d /\ c <= d /\ c = b + Len(e)
    BY <1>4, <1>6
  <2>4. p = 3 + b
    OBVIOUS
  <2> HIDE DEF b, c, d, l
  <2>5. /\ p \in Nat /\ p + l = 2 + c /\ p + l <= Len(ev)
        /\ p <= Len(ev) /\ l \in Nat /\ 1 <= l /\ Len(ev) \in Nat
        /\ Len(e) = 1 + l /\ c = b + 1 + l
    BY ONLY <2>1, <2>2, <2>3, <2>4
  <2> QED
    BY <2>5 DEF b, c, d, l
<1>8. ev[p] = e[1]
  <2>1. 1 \in 1 .. Len(e) /\ 2 + end[k - 1] + 1 = p
    BY <1>2, <1>5, <1>6
  <2> QED
    BY <1>4, <2>1
<1>9. nextEvent(ev, p) = 3 + end[k]
  <2>1. Low(ev[p]) = Len(w)
    BY <1>6, <1>8
  <2>2. p + 1 + Len(w) = 3 + end[k]
    <3>1. p \in Nat /\ Len(w) \in Nat /\ end[k] \in Nat /\ p + Len(w) = 2 + end[k]
      BY <1>5, <1>7
    <3> QED
      BY ONLY <3>1
  <2> QED
    BY <2>1, <2>2 DEF nextEvent
<1>10. eventType(ev, p) = r.kind
  BY <1>6, <1>8 DEF eventType
<1>11. eventData(ev, p) = w
  <2> DEFINE q == p + Len(w)
             d == SubSeq(ev, p + 1, q)
  <2>1. Min({p + Len(w), Len(ev)}) = p + Len(w)
    <3>1. p + Len(w) \in Int /\ Len(ev) \in Int
      BY <1>2, <1>4, <1>7
    <3> QED
      BY <1>7, <3>1, SmallerOfTwo
  <2>2. eventData(ev, p) = d
    BY <1>6, <1>8, <2>1 DEF eventData
  <2>3. /\ d \in Seq(Bytes) /\ Len(d) = Len(w)
        /\ \A i \in 1 .. Len(w) : d[i] = ev[p + i]
    <3>1. p + 1 \in Int /\ q \in Int /\ \A i \in p + 1 .. q : ev[i] \in Bytes
      <4>1. /\ p \in Nat /\ Len(w) \in Nat /\ Len(ev) \in Nat
            /\ p + Len(w) <= Len(ev)
        BY <1>7
      <4>2. \A i \in 1 .. Len(ev) : ev[i] \in Bytes
        BY <1>4
      <4>3. p + 1 \in Int /\ q \in Int /\ \A i \in p + 1 .. q : i \in 1 .. Len(ev)
        BY ONLY <4>1
      <4> QED
        BY <4>2, <4>3
    <3>2. /\ d \in Seq(Bytes)
          /\ Len(d) = IF p + 1 <= q THEN q - (p + 1) + 1 ELSE 0
          /\ \A i \in 1 .. q - (p + 1) + 1 : d[i] = ev[p + 1 + i - 1]
      <4> HIDE DEF q
      <4> QED
        BY ONLY <3>1, SubSeqProperties
    <3>3. /\ p + 1 <= q /\ q - (p + 1) + 1 = Len(w)
          /\ \A i \in 1 .. Len(w) : p + 1 + i - 1 = p + i
      <4>1. p \in Nat /\ Len(w) \in Nat /\ 1 <= Len(w) /\ q = p + Len(w)
        BY <1>7
      <4> HIDE DEF q
      <4> QED
        BY ONLY <4>1
    <3> HIDE DEF d, q
    <3> QED
      BY <3>2, <3>3
  <2> HIDE DEF d
  <2>4. \A i \in 1 .. Len(w) : ev[p + i] = w[i]
    <3>1. ASSUME NEW i \in 1 .. Len(w) PROVE ev[p + i] = w[i]
      <4>1. 1 + i \in 1 .. Len(e) /\ 2 + end[k - 1] + (1 + i) = p + i
        <5> DEFINE b == end[k - 1]
                   l == Len(w)
        <5>1. b \in Nat /\ l \in Nat /\ Len(e) = 1 + l /\ p = 3 + b /\ i \in 1 .. l
          BY <1>5, <1>7
        <5> HIDE DEF b, l
        <5>2. 1 + i \in 1 .. Len(e) /\ 2 + b + (1 + i) = p + i
          BY ONLY <5>1
        <5> QED
          BY <5>2 DEF b
      <4>2. ev[2 + end[k - 1] + (1 + i)] = e[1 + i]
        BY <1>4, <4>1
      <4> QED
        BY <1>6, <4>1, <4>2
    <3> QED
      BY <3>1
  <2>5. w \in Seq(Bytes)
    BY <1>2 DEF U64
  <2>6. d = w
    BY <2>3, <2>4, <2>5, SameSequence
  <2> QED
    BY <2>2, <2>6
<1> QED
  BY <1>2, <1>7, <1>9, <1>10, <1>11 DEF ReadsAt


-----------------------------------------------------------------------------
(* The collections follow the application's store, record by record.       *)

DocsOf(S) == {UpsertOf(r) : r \in S}

LEMMA DocOfUpsert ==
  ASSUME NEW r \in Records
  PROVE  UpsertOf(r).doc = Mirrored(r)
<1>1. r.kind \in 1 .. 5
  BY RecordUnderstood DEF Understood
<1> QED
  BY <1>1 DEF UpsertOf, Upsert

LEMMA UpsertFollowsStore ==
  ASSUME NEW S \in SUBSET Records, NEW r \in Records, docs = DocsOf(S)
  PROVE  Upserted({UpsertOf(r)}) = DocsOf(StoreOne(S, r))
<1>1. \A s \in S : SameRecord(s, r) <=> /\ UpsertOf(s).in = UpsertOf(r).in
                                        /\ UpsertOf(s).key = UpsertOf(r).key
  BY OneDocumentPerKey
<1>2. Upserted({UpsertOf(r)}) =
        {d \in docs : d.in # UpsertOf(r).in \/ d.key # UpsertOf(r).key}
          \cup {UpsertOf(r)}
  BY DEF Upserted
<1>3. DocsOf(StoreOne(S, r)) =
        {UpsertOf(s) : s \in {s \in S : ~SameRecord(s, r)}} \cup {UpsertOf(r)}
  BY DEF DocsOf, StoreOne
<1>4. {d \in docs : d.in # UpsertOf(r).in \/ d.key # UpsertOf(r).key} =
        {UpsertOf(s) : s \in {s \in S : ~SameRecord(s, r)}}
  BY <1>1 DEF DocsOf
<1> QED
  BY <1>2, <1>3, <1>4

LEMMA StoredAfterTyped ==
  ASSUME NEW S \in SUBSET Records, NEW R \in Seq(Records)
  PROVE  \A k \in 0 .. Len(R) : StoredAfter(S, R)[k] \in SUBSET Records
<1> DEFINE f == StoredAfter(S, R)
           T == {k \in Nat : k <= Len(R) => f[k] \in SUBSET Records}
<1>1. Len(R) \in Nat /\ \A k \in 1 .. Len(R) : R[k] \in Records
  OBVIOUS
<1>2. f[0] = S /\ \A k \in 1 .. Len(R) : f[k] = StoreOne(f[k - 1], R[k])
  BY <1>1, StoredAfterEquation
<1> HIDE DEF f
<1>3. 0 \in T
  BY <1>2
<1>4. ASSUME NEW n \in Nat, n \in T PROVE n + 1 \in T
  <2>1. SUFFICES ASSUME n + 1 <= Len(R) PROVE f[n + 1] \in SUBSET Records
    OBVIOUS
  <2>2. n + 1 \in 1 .. Len(R) /\ (n + 1) - 1 = n /\ f[n] \in SUBSET Records
    BY <1>1, <1>4, <2>1
  <2>3. f[n + 1] = StoreOne(f[n], R[n + 1]) /\ R[n + 1] \in Records
    BY <1>1, <1>2, <2>2
  <2> QED
    BY <2>2, <2>3 DEF StoreOne
<1>5. Nat \subseteq T
  <2> HIDE DEF T
  <2> QED
    BY <1>3, <1>4, NatSetInduction
<1> QED
  BY <1>1, <1>5 DEF f

-----------------------------------------------------------------------------
(* What the application reports of what it was asked are records.           *)

Halves == {h \in Seq(Nat) : Len(h) = 4}

LEMMA HalfOfWord ==
  ASSUME NEW w \in U64
  PROVE  u32(w) \in Halves
<1>1. w \in Seq(Nat) /\ 4 \in 1 .. Len(w)
  <2>1. w \in Seq(Nat) /\ Len(w) = 8
    BY DEF U64, Bytes
  <2> QED
    BY <2>1
<1>2. SubSeq(w, 1, 4) \in Seq(Nat) /\ FirstOf(SubSeq(w, 1, 4), w, 4)
  BY <1>1, FirstPart
<1> QED
  BY <1>2 DEF FirstOf, Halves, u32

LEMMA PaddedHalf ==
  ASSUME NEW h \in Halves
  PROVE  h \o <<0, 0, 0, 0>> \in U64
<1> DEFINE z == <<0, 0, 0, 0>>
<1>1. z \in Seq(Nat) /\ Len(z) = 4 /\ h \in Seq(Nat) /\ Len(h) = 4
  BY DEF Halves
<1> HIDE DEF z
<1>2. h \o z \in Seq(Nat) /\ JoinedAs(h \o z, h, z)
  BY <1>1, Joined
<1>3. Len(h \o z) = 8
  <2>1. Len(h \o z) = Len(h) + Len(z)
    BY <1>2 DEF JoinedAs
  <2> QED
    BY <1>1, <2>1
<1>4. h \o z \in U64
  BY <1>2, <1>3 DEF U64, Bytes
<1> QED
  BY <1>4 DEF z

LEMMA SamplesAreRecords ==
  /\ \A t \in U64 : SamplePosition(t) \in Records
  /\ \A id \in U64 : SampleOrder(id) \in Records
  /\ \A id \in U64 : \A a, b \in Halves : \A price \in U64 :
       SampleMarket(id, a, b, price) \in Records
  /\ \A d : /\ d.a_order_id \in U64 /\ d.b_order_id \in U64
            /\ d.a_actual_amount \in U64 /\ d.b_actual_amount \in U64
            => SampleTrade(d) \in Records
  /\ \A h \in Halves :
       [kind |-> EVENT_TOKEN, token_idx |-> h \o <<0, 0, 0, 0>>,
        address |-> Address] \in Records
<1>1. /\ \A n \in Nat : W(n) \in U64
      /\ Word(1) \in U64 /\ Word(2) \in U64 /\ Word(3) \in U64 /\ Word(4) \in U64
  BY SampleWords, WordIsU64
<1>2. \A t \in U64 : SamplePosition(t) \in Records
  BY <1>1 DEF SamplePosition, Records, PositionRecords
<1>3. \A id \in U64 : SampleOrder(id) \in Records
  BY <1>1 DEF SampleOrder, Records, OrderRecords
<1>4. ASSUME NEW id \in U64, NEW a \in Halves, NEW b \in Halves, NEW price \in U64
      PROVE  SampleMarket(id, a, b, price) \in Records
  <2>1. a \o <<0, 0, 0, 0>> \in U64 /\ b \o <<0, 0, 0, 0>> \in U64
    BY PaddedHalf
  <2> QED
    BY <1>1, <2>1 DEF SampleMarket, Records, MarketRecords
<1>5. ASSUME NEW d, d.a_order_id \in U64, d.b_order_id \in U64,
             d.a_actual_amount \in U64, d.b_actual_amount \in U64
      PROVE  SampleTrade(d) \in Records
  BY <1>1, <1>5 DEF SampleTrade, Records, TradeRecords
<1>6. ASSUME NEW h \in Halves
      PROVE  [kind |-> EVENT_TOKEN, token_idx |-> h \o <<0, 0, 0, 0>>,
              address |-> Address] \in Records
  <2>1. h \o <<0, 0, 0, 0>> \in U64
    BY PaddedHalf
  <2>2. Address \in [1 .. 20 -> 0 .. 255]
    BY DEF Address
  <2> QED
    BY <2>1, <2>2 DEF Records, TokenRecords
<1> QED
  BY <1>2, <1>3, <1>4, <1>5, <1>6

LEMMA ReportedRecords ==
  ASSUME NEW r \in DOMAIN Requests
  PROVE  Reported(Requests[r].data) \in Seq(Records)
<1> DEFINE d == Requests[r].data
<1>1. r \in 1 .. 13
  BY DEF Requests
<1>2. /\ \A n \in Nat : W(n) \in U64 /\ u32(W(n)) \in Halves
      /\ \A n \in Nat : Word(n) \in U64
  BY SampleWords, WordIsU64, HalfOfWord
<1>3. CASE r \in {1, 6, 7, 12, 13}
  <2>1. d.name \in {"RegisterPlayer", "Deposit", "Transfer", "Withdraw"}
    BY <1>3 DEF Requests, Ask, RegisterData, MoveData, WithdrawData
  <2>2. Reported(d) = <<>>
    BY <2>1 DEF Reported
  <2> QED
    BY <2>2
<1>4. CASE r \in {2, 3}
  <2>1. /\ d.name \in {"AddToken", "UpdateToken"}
        /\ d.token_idx = u32(W(1)) /\ d.address = Address
    BY <1>4 DEF Requests, Ask, TokenData
  <2>2. Reported(d) = <<[kind |-> EVENT_TOKEN,
                         token_idx |-> d.token_idx \o <<0, 0, 0, 0>>,
                         address |-> d.address]>>
    BY <2>1 DEF Reported
  <2>3. [kind |-> EVENT_TOKEN, token_idx |-> d.token_idx \o <<0, 0, 0, 0>>,
         address |-> d.address] \in Records
    BY <1>2, <2>1, SamplesAreRecords
  <2> QED
    BY <2>2, <2>3
<1>5. CASE r = 4
  <2>1. /\ d.name = "AddMarket" /\ d.token_a = u32(W(1)) /\ d.token_b = u32(W(2))
        /\ d.last_deal_price = W(3)
    BY <1>5 DEF Requests, Ask, MarketData
  <2>2. Reported(d) = <<SampleMarket(Word(1), d.token_a, d.token_b,
                                     d.last_deal_price)>>
    BY <2>1 DEF Reported
  <2>3. SampleMarket(Word(1), d.token_a, d.token_b, d.last_deal_price) \in Records
    BY <1>2, <2>1, SamplesAreRecords
  <2> QED
    BY <2>2, <2>3
<1>6. CASE r = 5
  <2>1. d.name = "CloseMarket" /\ d.market_id = W(1)
    BY <1>6 DEF Requests, Ask, CloseMarketData
  <2>2. Reported(d) = <<SampleMarket(d.market_id, u32(W(1)), u32(W(2)), W(3))>>
    BY <2>1 DEF Reported
  <2>3. SampleMarket(d.market_id, u32(W(1)), u32(W(2)), W(3)) \in Records
    BY <1>2, <2>1, SamplesAreRecords
  <2> QED
    BY <2>2, <2>3
<1>7. CASE r \in {8, 9}
  <2>1. d.name \in {"AddLimitOrder", "AddMarketOrder"}
    BY <1>7 DEF Requests, Ask, LimitData, MarketOrderData
  <2>2. Reported(d) = <<SamplePosition(Word(0)), SamplePosition(Word(1)),
                        SampleOrder(Word(1))>>
    BY <2>1 DEF Reported
  <2>3. /\ SamplePosition(Word(0)) \in Records /\ SamplePosition(Word(1)) \in Records
        /\ SampleOrder(Word(1)) \in Records
    BY <1>2, SamplesAreRecords
  <2> QED
    BY <2>2, <2>3
<1>8. CASE r = 10
  <2>1. d.name = "CancelOrder" /\ d.order_id = W(1)
    BY <1>8 DEF Requests, Ask, CancelData
  <2>2. Reported(d) = <<SampleOrder(d.order_id), SamplePosition(Word(0))>>
    BY <2>1 DEF Reported
  <2>3. SampleOrder(d.order_id) \in Records /\ SamplePosition(Word(0)) \in Records
    BY <1>2, <2>1, SamplesAreRecords
  <2> QED
    BY <2>2, <2>3
<1>9. CASE r = 11
  <2>1. /\ d.name = "AddTrade" /\ d.a_order_id = W(1) /\ d.b_order_id = W(2)
        /\ d.a_actual_amount = W(3) /\ d.b_actual_amount = W(4)
    BY <1>9 DEF Requests, Ask, TradeData
  <2>2. Reported(d) =
          <<SamplePosition(Word(0)), SamplePosition(Word(1)),
            SampleMarket(Word(3), u32(W(1)), u32(W(2)), W(3)), SampleTrade(d),
            SampleOrder(d.a_order_id), SampleOrder(d.b_order_id)>>
    BY <2>1 DEF Reported
  <2>3. /\ SamplePosition(Word(0)) \in Records /\ SamplePosition(Word(1)) \in Records
        /\ SampleMarket(Word(3), u32(W(1)), u32(W(2)), W(3)) \in Records
        /\ SampleOrder(d.a_order_id) \in Records
        /\ SampleOrder(d.b_order_id) \in Records
    BY <1>2, <2>1, SamplesAreRecords
  <2>4. SampleTrade(d) \in Records
    BY <1>2, <2>1, SamplesAreRecords
  <2> QED
    BY <2>2, <2>3, <2>4
<1> QED
  BY <1>1, <1>3, <1>4, <1>5, <1>6, <1>7, <1>8, <1>9

-----------------------------------------------------------------------------
(* The collections while a callback runs, and after it.                    *)

\* The callback has handled the first k of the records R, which came upon S.
Following(S, R, end, k) ==
  /\ EventsPlaced(events, R, end) /\ pos = 3 + end[k]
  /\ docs = DocsOf(StoredAfter(S, R)[k])
  /\ stored = StoredAfter(S, R)[Len(R)]

Waiting == events = <<>> /\ pos = 3 /\ docs = DocsOf(stored)
Skipping == /\ events = Events(1, Word(0), <<>>) /\ pos = 3
            /\ docs = DocsOf(stored)
Handling == \E S \in SUBSET Records, R \in Seq(Records) :
              \E end : \E k \in 0 .. Len(R) : Following(S, R, end, k)

MirrorInv == stored \in SUBSET Records /\ (Waiting \/ Skipping \/ Handling)

LEMMA FailedEvents ==
  ASSUME NEW ev, ev = Events(1, Word(0), <<>>)
  PROVE  ev # <<>> /\ Len(ev) = 2 /\ ev[1] # Word(0)
<1> DEFINE parts == [k \in DOMAIN <<>> |-> add_event(<<>>[k])]
           top == <<Word(1), Word(0)>>
<1>1. Len(parts) = 0 /\ parts = <<>>
  OBVIOUS
<1>2. FlattenSeq(parts) = <<>>
  BY <1>1 DEF FlattenSeq
<1>3. ev = top \o FlattenSeq(parts)
  BY DEF Events
<1>4. Word(1) # Word(0)
  BY WordIsOne
<1> HIDE DEF parts
<1>5. Word(1) \in Bytes /\ Word(0) \in Bytes
  <2>1. Word(1) \in U64 /\ Word(0) \in U64
    BY WordIsU64
  <2> QED
    BY <2>1 DEF U64
<1>6. /\ top \in Seq(Bytes) /\ Len(top) = 2 /\ top[1] = Word(1) /\ top # <<>>
  BY <1>5
<1> HIDE DEF top
<1>7. ev = top
  BY <1>2, <1>3, <1>6
<1> QED
  BY <1>4, <1>6, <1>7

LEMMA EventsAreNotEmpty ==
  ASSUME NEW R \in Seq(Records), NEW ev, NEW end, EventsPlaced(ev, R, end)
  PROVE  /\ ev # <<>> /\ Len(ev) = 2 + end[Len(R)] /\ ev[1] = Word(0)
         /\ Len(R) \in Nat /\ Len(ev) \in Nat
         /\ \A k \in 0 .. Len(R) : end[k] \in Nat
<1>1. /\ ev \in Seq(Bytes) /\ Len(ev) = 2 + end[Len(R)] /\ ev[1] = Word(0)
      /\ end \in [0 .. Len(R) -> Nat]
  BY DEF EventsPlaced
<1>2. Len(R) \in Nat /\ Len(R) \in 0 .. Len(R)
  OBVIOUS
<1>3. end[Len(R)] \in Nat /\ \A k \in 0 .. Len(R) : end[k] \in Nat
  BY <1>1, <1>2
<1>4. Len(ev) # 0 /\ Len(ev) \in Nat
  BY <1>1, <1>3
<1>5. ev # <<>>
  BY <1>1, <1>4
<1> QED
  BY <1>1, <1>2, <1>3, <1>4, <1>5

LEMMA FollowingStarts ==
  ASSUME Waiting, stored \in SUBSET Records, NEW R \in Seq(Records),
         events' = Events(0, W(1), R), stored' = Store(R),
         UNCHANGED <<pos, docs>>
  PROVE  MirrorInv'
<1>1. Len(R) \in Nat /\ 0 \in 0 .. Len(R) /\ Len(R) \in 0 .. Len(R)
  OBVIOUS
<1>2. PICK end : EventsPlaced(events', R, end)
  BY EventsArePlaced
<1>3. StoredAfter(stored, R)[0] = stored
  BY <1>1, StoredAfterEquation
<1>4. end[0] = 0
  BY <1>2 DEF EventsPlaced
<1>5. /\ pos' = 3 + end[0] /\ docs' = DocsOf(StoredAfter(stored, R)[0])
      /\ stored' = StoredAfter(stored, R)[Len(R)]
  BY <1>3, <1>4 DEF Waiting, Store
<1>6. stored' \in SUBSET Records
  BY <1>1, <1>5, StoredAfterTyped
<1> DEFINE S == stored
<1>7. \E B \in SUBSET Records :
        /\ docs' = DocsOf(StoredAfter(B, R)[0])
        /\ stored' = StoredAfter(B, R)[Len(R)]
  BY <1>5
<1>8. PICK B \in SUBSET Records :
        /\ docs' = DocsOf(StoredAfter(B, R)[0])
        /\ stored' = StoredAfter(B, R)[Len(R)]
  BY <1>7
<1>9. Following(B, R, end, 0)'
  BY <1>2, <1>5, <1>8 DEF Following
<1>10. Handling'
  BY <1>1, <1>9 DEF Handling
<1> QED
  BY <1>6, <1>10 DEF MirrorInv

LEMMA ApplyKeepsMirror ==
  ASSUME MirrorInv, ApplyEvent
  PROVE  MirrorInv'
<1>1. /\ events # <<>> /\ events[1] = Word(0) /\ pos <= Len(events)
      /\ pos' = nextEvent(events, pos)
      /\ docs' = Upserted(Upserts(eventType(events, pos), eventData(events, pos)))
      /\ UNCHANGED <<events, stored>>
  BY DEF ApplyEvent, Handled
<1>2. Handling
  BY <1>1, FailedEvents DEF MirrorInv, Waiting, Skipping
<1>3. PICK S \in SUBSET Records, R \in Seq(Records) :
        \E end : \E k \in 0 .. Len(R) : Following(S, R, end, k)
  BY <1>2 DEF Handling
<1>3a. PICK end : \E k \in 0 .. Len(R) : Following(S, R, end, k)
  BY <1>3
<1>4. PICK k \in 0 .. Len(R) : Following(S, R, end, k)
  BY <1>3a
<1>5. /\ EventsPlaced(events, R, end) /\ pos = 3 + end[k]
      /\ docs = DocsOf(StoredAfter(S, R)[k])
      /\ stored = StoredAfter(S, R)[Len(R)]
  BY <1>4 DEF Following
<1>6. /\ Len(events) = 2 + end[Len(R)] /\ Len(R) \in Nat
      /\ end[k] \in Nat
  BY <1>5, EventsAreNotEmpty
<1>7. k # Len(R)
  BY <1>1, <1>5, <1>6
<1> DEFINE n == k + 1
<1>8. n \in 1 .. Len(R) /\ n \in 0 .. Len(R) /\ n - 1 = k
  BY <1>6, <1>7
<1> HIDE DEF n
<1>9. pos = 3 + end[n - 1]
  BY <1>5, <1>8
<1>10. /\ nextEvent(events, pos) = 3 + end[n]
       /\ Upserts(eventType(events, pos), eventData(events, pos)) = {UpsertOf(R[n])}
  <2>1. EventsPlaced(events, R, end) /\ n \in 1 .. Len(R)
    BY <1>5, <1>8
  <2>2. ReadsAt(events, pos, R[n], 3 + end[n])
    BY <1>9, <2>1, EventIsRead
  <2> QED
    BY <2>2 DEF ReadsAt
<1>11. StoredAfter(S, R)[k] \in SUBSET Records /\ R[n] \in Records
  <2>1. \A i \in 0 .. Len(R) : StoredAfter(S, R)[i] \in SUBSET Records
    BY StoredAfterTyped
  <2>2. StoredAfter(S, R)[k] \in SUBSET Records
    BY <2>1
  <2>3. R[n] \in Records
    BY <1>8
  <2> QED
    BY <2>2, <2>3
<1>12. Upserted({UpsertOf(R[n])}) = DocsOf(StoreOne(StoredAfter(S, R)[k], R[n]))
  BY <1>5, <1>11, UpsertFollowsStore
<1>13. StoredAfter(S, R)[n] = StoreOne(StoredAfter(S, R)[k], R[n])
  BY <1>6, <1>8, StoredAfterEquation
<1>14. pos' = 3 + end[n] /\ docs' = DocsOf(StoredAfter(S, R)[n])
  BY <1>1, <1>10, <1>12, <1>13
<1>15. Following(S, R, end, n)'
  BY <1>1, <1>5, <1>14 DEF Following
<1>16. Handling'
  BY <1>8, <1>15 DEF Handling
<1> QED
  BY <1>1, <1>16 DEF MirrorInv

LEMMA CallbackEndKeepsMirror ==
  ASSUME MirrorInv, CallbackEnds
  PROVE  MirrorInv'
<1>1. /\ events # <<>> /\ (events[1] # Word(0) \/ pos > Len(events))
      /\ events' = <<>> /\ pos' = 3 /\ UNCHANGED <<docs, stored>>
  BY DEF CallbackEnds, Handled
<1>2. docs = DocsOf(stored)
  <2>1. CASE Skipping
    BY <2>1 DEF Skipping
  <2>2. CASE Handling
    <3>1. PICK S \in SUBSET Records, R \in Seq(Records) :
            \E end : \E k \in 0 .. Len(R) : Following(S, R, end, k)
      BY <2>2 DEF Handling
    <3>1a. PICK end : \E k \in 0 .. Len(R) : Following(S, R, end, k)
      BY <3>1
    <3>2. PICK k \in 0 .. Len(R) : Following(S, R, end, k)
      BY <3>1a
    <3>3. /\ EventsPlaced(events, R, end) /\ pos = 3 + end[k]
          /\ docs = DocsOf(StoredAfter(S, R)[k])
          /\ stored = StoredAfter(S, R)[Len(R)]
      BY <3>2 DEF Following
    <3>4. /\ Len(events) = 2 + end[Len(R)] /\ Len(R) \in Nat /\ end[k] \in Nat
          /\ events[1] = Word(0) /\ Len(events) \in Nat
      BY <3>3, EventsAreNotEmpty
    <3>5. k = Len(R)
      <4>1. SUFFICES ASSUME k # Len(R) PROVE FALSE
        OBVIOUS
      <4> DEFINE n == k + 1
      <4>2. n \in 1 .. Len(R) /\ n - 1 = k
        BY <3>4, <4>1
      <4> HIDE DEF n
      <4>3. pos = 3 + end[n - 1]
        BY <3>3, <4>2
      <4>4. pos <= Len(events) /\ pos \in Nat
        <5>1. ReadsAt(events, pos, R[n], 3 + end[n])
          BY <3>3, <4>2, <4>3, EventIsRead
        <5> QED
          BY <5>1 DEF ReadsAt
      <4> QED
        BY <1>1, <3>4, <4>4
    <3> QED
      BY <3>3, <3>5
  <2> QED
    BY <1>1, <2>1, <2>2 DEF MirrorInv, Waiting
<1>3. Waiting'
  BY <1>1, <1>2 DEF Waiting
<1> QED
  BY <1>1, <1>3 DEF MirrorInv

LEMMA UnmovedMirror ==
  ASSUME MirrorInv, UNCHANGED <<stored, events, pos, docs>>
  PROVE  MirrorInv'
<1>1. Waiting => Waiting'
  BY DEF Waiting
<1>2. Skipping => Skipping'
  BY DEF Skipping
<1>3. Handling => Handling'
  BY DEF Handling, Following
<1> QED
  BY <1>1, <1>2, <1>3 DEF MirrorInv

LEMMA ExecuteKeepsMirror ==
  ASSUME MirrorInv, CallsInv, Execute
  PROVE  MirrorInv'
<1> DEFINE job == Head(queue)
<1>1. queue # <<>> /\ events = <<>> /\ UNCHANGED <<pos, docs>>
  BY DEF Execute, Handled
<1>2. Waiting /\ stored \in SUBSET Records
  <2>1. ~ Skipping
    BY <1>1, FailedEvents DEF Skipping
  <2>2. ~ Handling
    BY <1>1, EventsAreNotEmpty DEF Handling, Following
  <2> QED
    BY <2>1, <2>2 DEF MirrorInv
<1>3. CASE Refuse(job)
  <2>1. events' = Events(1, Word(0), <<>>) /\ stored' = stored
    BY <1>3 DEF Refuse
  <2>2. Skipping'
    BY <1>1, <1>2, <2>1 DEF Waiting, Skipping
  <2> QED
    BY <1>2, <2>1, <2>2 DEF MirrorInv
<1>4. CASE Trap(job)
  BY <1>1, <1>4, UnmovedMirror DEF Trap
<1>5. CASE Accept(job)
  <2>1. job \in Jobs /\ SentBy(call, job)
    <3>1. queue \in Seq(Jobs) /\ \A i \in DOMAIN queue : SentBy(call, queue[i])
      BY DEF CallsInv, CallsTyped, QueueAsSent
    <3> QED
      BY <1>1, <3>1
  <2> DEFINE r == call[job.call].asked
             R == Reported(DataOf(job.words))
  <2>2. /\ r \in DOMAIN Requests /\ DataOf(job.words) = Requests[r].data
    <3>1. /\ call[job.call] \in CallRecords
          /\ DataOf(job.words) = Requests[r].data
      <4> HIDE DEF job
      <4> QED
        BY <2>1, QueuedArrives
    <3> QED
      BY <3>1 DEF CallRecords
  <2>3. R \in Seq(Records)
    BY <2>2, ReportedRecords
  <2>4. stored' = Store(R) /\ events' = Events(0, W(1), R)
    BY <1>5 DEF Accept
  <2> HIDE DEF R
  <2> QED
    BY <1>1, <1>2, <2>3, <2>4, FollowingStarts
<1> QED
  BY <1>3, <1>4, <1>5 DEF Execute

\* The collections never say anything else than the records do.
LEMMA MirrorInvariant ==
  Spec => []MirrorInv
<1>1. Init => MirrorInv
  BY DEF Init, MirrorInv, Waiting, DocsOf
<1>2. ASSUME MirrorInv, CallsInv, [Next]_client_vars PROVE MirrorInv'
  <2>1. ASSUME Execute PROVE MirrorInv'
    BY <1>2, <2>1, ExecuteKeepsMirror
  <2>2. ASSUME ApplyEvent PROVE MirrorInv'
    BY <1>2, <2>2, ApplyKeepsMirror
  <2>3. ASSUME CallbackEnds PROVE MirrorInv'
    BY <1>2, <2>3, CallbackEndKeepsMirror
  <2>4. ASSUME \/ \E c \in Calls, k \in Keys, request \in DOMAIN Requests :
                    Make(c, k, request)
               \/ \E c \in Calls :
                    getNonce(c) \/ getNonceFails(c) \/ Send(c) \/ SendFails(c)
               \/ UNCHANGED client_vars
        PROVE  MirrorInv'
    <3>1. UNCHANGED <<stored, events, pos, docs>>
      BY <2>4 DEF Make, getNonce, getNonceFails, Send, SendFails, client_vars, mirror
    <3> QED
      BY <1>2, <3>1, UnmovedMirror
  <2> QED
    BY <1>2, <2>1, <2>2, <2>3, <2>4 DEF Next
<1> QED
  BY <1>1, <1>2, CallsInvariant, PTL DEF Spec

\* eventCallback stores what add_event has written: whatever records of
\* whatever kinds a transaction reports, the documents are the records again
\* when the callback has ended.
THEOREM DocumentsAreTheRecordsCorrect ==
  Spec => []DocumentsAreTheRecords
<1>1. ASSUME MirrorInv, Handled
      PROVE  {d.doc : d \in docs} = {Mirrored(r) : r \in stored}
  <2>1. ~ Skipping
    BY <1>1, FailedEvents DEF Skipping, Handled
  <2>2. ~ Handling
    BY <1>1, EventsAreNotEmpty DEF Handling, Following, Handled
  <2>3. docs = {UpsertOf(r) : r \in stored} /\ stored \in SUBSET Records
    BY <1>1, <2>1, <2>2 DEF MirrorInv, Waiting, DocsOf
  <2>4. \A r \in stored : UpsertOf(r).doc = Mirrored(r)
    BY <2>3, DocOfUpsert
  <2> QED
    BY <2>3, <2>4
<1>2. MirrorInv => DocumentsAreTheRecords
  BY <1>1 DEF DocumentsAreTheRecords
<1> QED
  BY <1>2, MirrorInvariant, PTL

\* The client's state has its types, and the loop of eventCallback stays
\* within the words it was given.
THEOREM ClientTypeCorrect ==
  Spec => []TypeOK
<1>1. ASSUME CallsInv PROVE \A c \in Calls : call[c].at \in Places
  <2>1. ASSUME NEW c \in Calls PROVE call[c].at \in Places
    <3>1. call[c] \in {NotYet} \cup CallRecords
      BY <1>1 DEF CallsInv, CallsTyped, CallTable
    <3>2. NotYet.at = "not made"
      BY DEF NotYet
    <3> QED
      BY <3>1, <3>2 DEF CallRecords, Places
  <2> QED
    BY <2>1
<1>2. ASSUME CallsInv
      PROVE  /\ nonce \in [Keys -> Nat] /\ \A i \in DOMAIN queue : queue[i].call \in Calls
             /\ outdated \subseteq Calls
  <2>1. /\ nonce \in [Keys -> Nat] /\ queue \in Seq(Jobs) /\ outdated \subseteq Calls
    BY <1>2 DEF CallsInv, CallsTyped
  <2>2. \A i \in DOMAIN queue : queue[i] \in Jobs
    BY <2>1
  <2> QED
    BY <2>1, <2>2 DEF Jobs
<1>3. ASSUME MirrorInv
      PROVE  /\ events = <<>> => pos = 3
             /\ pos <= Len(events) + 1 \/ pos = 3
  <2>1. CASE Waiting \/ Skipping
    BY <2>1 DEF Waiting, Skipping
  <2>2. CASE Handling
    <3>1. PICK S \in SUBSET Records, R \in Seq(Records) :
            \E end : \E k \in 0 .. Len(R) : Following(S, R, end, k)
      BY <2>2 DEF Handling
    <3>1a. PICK end : \E k \in 0 .. Len(R) : Following(S, R, end, k)
      BY <3>1
    <3>2. PICK k \in 0 .. Len(R) : Following(S, R, end, k)
      BY <3>1a
    <3>3. EventsPlaced(events, R, end) /\ pos = 3 + end[k]
      BY <3>2 DEF Following
    <3>4. /\ events # <<>> /\ Len(events) = 2 + end[Len(R)] /\ Len(R) \in Nat
          /\ end[k] \in Nat /\ end[Len(R)] \in Nat
      <4>1. Len(R) \in 0 .. Len(R)
        OBVIOUS
      <4> QED
        BY <3>3, <4>1, EventsAreNotEmpty
    <3>5. CASE k = 0
      BY <3>3, <3>4, <3>5 DEF EventsPlaced
    <3>6. CASE k # 0
      <4>1. end[k] <= end[Len(R)]
        BY <3>3, <3>6 DEF EventsPlaced
      <4> QED
        BY <3>3, <3>4, <4>1
    <3> QED
      BY <3>5, <3>6
  <2> QED
    BY <1>3, <2>1, <2>2 DEF MirrorInv
<1>4. CallsInv /\ MirrorInv => TypeOK
  BY <1>1, <1>2, <1>3 DEF TypeOK
<1> QED
  BY <1>4, CallsInvariant, MirrorInvariant, PTL
=============================================================================
