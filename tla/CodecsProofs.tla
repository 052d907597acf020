---------------------------- MODULE CodecsProofs ----------------------------
(***************************************************************************)
(* What was encoded in base64, put in a form, sent, and taken from the     *)
(* form again is decoded as it was: for every payload, of any length and   *)
(* any bytes, and for every sender that escapes the '+'.                   *)
(*                                                                         *)
(* The encoder and the decoder are loops over a value of 32 bits from      *)
(* which bits are lost.  Each is shown to keep a closed form: after k      *)
(* bytes the encoder has written the first 4k \div 3 digits of the         *)
(* payload, and of val only the last byte counts; after j digits the       *)
(* decoder has written the first 3j \div 4 bytes, and of val only the last *)
(* digit counts.                                                           *)
(***************************************************************************)
EXTENDS MCOrderFlow, DataLemmas, SequenceTheorems

Byte == 0..255
Alphabet == {Digit(d) : d \in 0..63}
-----------------------------------------------------------------------------
(***************************************************************************)
(* Digits and bits.                                                        *)
(***************************************************************************)
\* The digits of base64 are bytes and can be told apart, and none is a '=',
\* a '%' or a '&'.
LEMMA Digits ==
  /\ DOMAIN DigitOf = Alphabet
  /\ \A d \in 0..63 : Digit(d) \in Alphabet /\ DigitOf[Digit(d)] = d
  /\ Alphabet \subseteq Byte \ {Percent, Ampersand, Equals}
<1>1. \A d \in 0..63 : Digit(d) \in 0..255 /\ Digit(d) \notin {37, 38, 61}
  BY SMT DEF Digit, Plus
<1>2. \A d, e \in 0..63 : Digit(d) = Digit(e) => d = e
  BY SMT DEF Digit, Plus
<1>3. ASSUME NEW d \in 0..63 PROVE DigitOf[Digit(d)] = d
  <2> DEFINE P(e) == e \in 0..63 /\ Digit(e) = Digit(d)
  <2>1. DigitOf[Digit(d)] = CHOOSE e \in 0..63 : Digit(e) = Digit(d)
    BY DEF DigitOf
  <2>2. \A e : P(e) => e = d
    BY <1>2
  <2>3. P(d)
    OBVIOUS
  <2> HIDE DEF P
  <2>4. (CHOOSE e : P(e)) = d
    BY <2>2, <2>3
  <2>5. (CHOOSE e \in 0..63 : Digit(e) = Digit(d)) = CHOOSE e : P(e)
    BY DEF P
  <2> QED
    BY <2>1, <2>4, <2>5
<1> QED
  BY <1>1, <1>3 DEF DigitOf, Alphabet, Byte, Percent, Ampersand, Equals

\* What is read of val after a byte was shifted in depends on that byte and
\* the last bits of what was there before.
LEMMA ByteIn ==
  ASSUME NEW v \in Int, NEW b \in Byte
  PROVE  LET w == ShiftLeft(v, 8) + b
         IN  /\ w \in Int /\ w % 256 = b
             /\ Bits(w, 0, 6) = b % 64
             /\ Bits(w, 2, 6) = b \div 4
             /\ Bits(w, 4, 6) = 16 * (v % 4) + (b \div 16)
             /\ Bits(w, 6, 6) = 4 * (v % 16) + (b \div 64)
<1> DEFINE w == ShiftLeft(v, 8) + b
<1>1. w \in Int /\ w % 256 = b
  BY SMTT(60) DEF ShiftLeft, Byte
<1>2. Bits(w, 0, 6) = b % 64
  BY SMTT(60) DEF Bits, ShiftLeft, Byte
<1>3. Bits(w, 2, 6) = b \div 4
  BY SMTT(60) DEF Bits, ShiftLeft, Byte
<1>4. Bits(w, 4, 6) = 16 * (v % 4) + (b \div 16)
  BY SMTT(60) DEF Bits, ShiftLeft, Byte
<1>5. Bits(w, 6, 6) = 4 * (v % 16) + (b \div 64)
  BY SMTT(60) DEF Bits, ShiftLeft, Byte
<1> QED
  BY <1>1, <1>2, <1>3, <1>4, <1>5

LEMMA DigitIn ==
  ASSUME NEW v \in Int, NEW d \in 0..63
  PROVE  LET w == ShiftLeft(v, 6) + d
         IN  /\ w \in Int /\ w % 64 = d
             /\ Bits(w, 0, 8) = 64 * (v % 4) + d
             /\ Bits(w, 2, 8) = 16 * (v % 16) + (d \div 4)
             /\ Bits(w, 4, 8) = 4 * (v % 64) + (d \div 16)
<1> DEFINE w == ShiftLeft(v, 6) + d
<1>1. w \in Int /\ w % 64 = d
  BY SMTT(60) DEF ShiftLeft
<1>2. Bits(w, 0, 8) = 64 * (v % 4) + d
  BY SMTT(60) DEF Bits, ShiftLeft
<1>3. Bits(w, 2, 8) = 16 * (v % 16) + (d \div 4)
  BY SMTT(60) DEF Bits, ShiftLeft
<1>4. Bits(w, 4, 8) = 4 * (v % 64) + (d \div 16)
  BY SMTT(60) DEF Bits, ShiftLeft
<1> QED
  BY <1>1, <1>2, <1>3, <1>4
-----------------------------------------------------------------------------
(***************************************************************************)
(* The encoder.                                                            *)
(***************************************************************************)
Encoding == [val : Int, valb : {-6, -4, -2}, out : Seq(Byte)]
Unencoded == [val |-> 0, valb |-> -6, out |-> <<>>]

\* s followed by x, and by x and y.
Adds(s, t, x) ==
  /\ t \in Seq(Byte) /\ Len(t) = Len(s) + 1 /\ t[Len(s) + 1] = x
  /\ \A i \in 1..Len(s) : t[i] = s[i]
AddsTwo(s, t, x, y) ==
  /\ t \in Seq(Byte) /\ Len(t) = Len(s) + 2 /\ t[Len(s) + 1] = x /\ t[Len(s) + 2] = y
  /\ \A i \in 1..Len(s) : t[i] = s[i]

LEMMA Adding ==
  ASSUME NEW s \in Seq(Byte), NEW x \in Byte, NEW y \in Byte
  PROVE  /\ Adds(s, s \o <<x>> \o <<>>, x)
         /\ Adds(s, s \o <<x>>, x)
         /\ AddsTwo(s, s \o <<x>> \o <<y>>, x, y)
         /\ s \o <<>> = s
<1> DEFINE t == s \o <<x>>
<1>1. <<x>> \in Seq(Byte) /\ <<y>> \in Seq(Byte) /\ <<>> \in Seq(Byte)
      /\ Len(<<x>>) = 1 /\ Len(<<y>>) = 1 /\ Len(<<>>) = 0
      /\ <<x>>[1] = x /\ <<y>>[1] = y /\ Len(s) \in Nat
  OBVIOUS
<1>2. Adds(s, t, x)
  BY <1>1 DEF Adds
<1>3. t \o <<>> = t /\ s \o <<>> = s
  BY <1>2 DEF Adds
<1>4. AddsTwo(s, t \o <<y>>, x, y)
  <2>1. t \in Seq(Byte) /\ Len(t) = Len(s) + 1 /\ t[Len(s) + 1] = x
        /\ \A i \in 1..Len(s) : t[i] = s[i]
    BY <1>2 DEF Adds
  <2> HIDE DEF t
  <2>2. Adds(t, t \o <<y>>, y)
    BY <1>1, <2>1 DEF Adds
  <2> QED
    BY <1>1, <2>1, <2>2 DEF Adds, AddsTwo
<1> QED
  BY <1>2, <1>3, <1>4

\* What a byte adds to the digits.
LEMMA ByteEncoded ==
  ASSUME NEW st \in Encoding, NEW b \in Byte
  PROVE  LET nx == EncodeByte(st, b)
         IN  /\ nx \in Encoding /\ nx.val % 256 = b
             /\ st.valb = -6 => /\ nx.valb = -4
                                /\ Adds(st.out, nx.out, Digit(b \div 4))
             /\ st.valb = -4 => /\ nx.valb = -2
                                /\ Adds(st.out, nx.out, Digit(16 * (st.val % 4) + (b \div 16)))
             /\ st.valb = -2 => /\ nx.valb = -6
                                /\ AddsTwo(st.out, nx.out,
                                           Digit(4 * (st.val % 16) + (b \div 64)), Digit(b % 64))
<1> DEFINE w == ShiftLeft(st.val, 8) + b
           nx == EncodeByte(st, b)
<1>1. st.val \in Int /\ st.valb \in {-6, -4, -2} /\ st.out \in Seq(Byte)
  BY DEF Encoding
<1>2. /\ w \in Int /\ w % 256 = b
      /\ Bits(w, 0, 6) = b % 64
      /\ Bits(w, 2, 6) = b \div 4
      /\ Bits(w, 4, 6) = 16 * (st.val % 4) + (b \div 16)
      /\ Bits(w, 6, 6) = 4 * (st.val % 16) + (b \div 64)
  BY <1>1, ByteIn
<1>3. /\ b % 64 \in 0..63 /\ b \div 4 \in 0..63
      /\ 16 * (st.val % 4) + (b \div 16) \in 0..63
      /\ 4 * (st.val % 16) + (b \div 64) \in 0..63
  <2> DEFINE v == st.val
  <2>1. b \in 0..255 /\ v \in Int
    BY <1>1 DEF Byte
  <2> HIDE DEF v
  <2>2. v % 4 \in 0..3 /\ v % 16 \in 0..15
    BY <2>1
  <2>3. b \div 16 \in 0..15 /\ b \div 64 \in 0..3 /\ b \div 4 \in 0..63 /\ b % 64 \in 0..63
    BY <2>1
  <2>4. 16 * (v % 4) + (b \div 16) \in 0..63 /\ 4 * (v % 16) + (b \div 64) \in 0..63
    BY <2>2, <2>3
  <2> QED
    BY <2>3, <2>4 DEF v
<1>4. \A d \in 0..63 : Digit(d) \in Byte
  BY Digits
<1> HIDE DEF w
<1>5. CASE st.valb = -6
  <2>1. nx = [val |-> w, valb |-> -4, out |-> st.out \o <<Digit(Bits(w, 2, 6))>> \o <<>>]
    BY <1>5 DEF EncodeByte, w
  <2>2. Adds(st.out, st.out \o <<Digit(b \div 4)>> \o <<>>, Digit(b \div 4))
    BY <1>1, <1>3, <1>4, Adding
  <2> QED
    BY <1>2, <1>5, <2>1, <2>2 DEF Encoding, Adds
<1>6. CASE st.valb = -4
  <2> DEFINE d == 16 * (st.val % 4) + (b \div 16)
  <2>1. nx = [val |-> w, valb |-> -2, out |-> st.out \o <<Digit(Bits(w, 4, 6))>> \o <<>>]
    BY <1>6 DEF EncodeByte, w
  <2>2. Adds(st.out, st.out \o <<Digit(d)>> \o <<>>, Digit(d))
    BY <1>1, <1>3, <1>4, Adding
  <2> QED
    BY <1>2, <1>6, <2>1, <2>2 DEF Encoding, Adds
<1>7. CASE st.valb = -2
  <2> DEFINE d == 4 * (st.val % 16) + (b \div 64)
             e == b % 64
  <2>1. nx = [val |-> w, valb |-> -6,
              out |-> st.out \o <<Digit(Bits(w, 6, 6))>> \o <<Digit(Bits(w, 0, 6))>>]
    BY <1>7 DEF EncodeByte, w
  <2>2. AddsTwo(st.out, st.out \o <<Digit(d)>> \o <<Digit(e)>>, Digit(d), Digit(e))
    BY <1>1, <1>3, <1>4, Adding
  <2>3. AddsTwo(st.out, nx.out, Digit(d), Digit(e))
    <3>1. Bits(w, 6, 6) = d /\ Bits(w, 0, 6) = e
      BY <1>2
    <3>2. nx.out = st.out \o <<Digit(Bits(w, 6, 6))>> \o <<Digit(Bits(w, 0, 6))>>
      BY <2>1
    <3> HIDE DEF nx, d, e
    <3> QED
      BY <2>2, <3>1, <3>2
  <2>4. nx \in Encoding /\ nx.val % 256 = b /\ nx.valb = -6
    BY <1>2, <2>1, <2>3 DEF Encoding, AddsTwo
  <2> QED
    BY <1>7, <2>3, <2>4
<1> QED
  BY <1>1, <1>5, <1>6, <1>7

\* The loop of the encoder.
LEMMA EncodeLoop ==
  ASSUME NEW p \in Seq(Byte)
  PROVE  \E run \in [0..Len(p) -> Encoding] :
           /\ run[0] = Unencoded
           /\ \A k \in 1..Len(p) : run[k] = EncodeByte(run[k - 1], p[k])
           /\ FoldLeft(EncodeByte, Unencoded, p) = run[Len(p)]
<1> DEFINE n == Len(p)
           S == 1..n
           Chain(g) == g = [s \in SUBSET S |->
                              IF s = {} THEN Unencoded
                              ELSE EncodeByte(g[s \ {Max(s)}], p[Max(s)])]
           h == [x \in Encoding \X Byte |-> EncodeByte(x[1], x[2])]
<1>1. n \in Nat /\ DOMAIN p = S /\ \A i \in S : p[i] \in Byte
  OBVIOUS
<1>2. Unencoded \in Encoding
  BY DEF Unencoded, Encoding
<1>3. h \in [Encoding \X Byte -> Encoding]
  <2>1. \A st \in Encoding, b \in Byte : EncodeByte(st, b) \in Encoding
    BY ByteEncoded
  <2> QED
    BY <2>1
<1>4. \A st \in Encoding, b \in Byte : h[<<st, b>>] = EncodeByte(st, b)
  OBVIOUS
<1> HIDE DEF h
<1>5. PICK g0 \in [SUBSET S -> Encoding] : Loops(h, Unencoded, p, SUBSET S, g0)
  <2> HIDE DEF n
  <2> QED
    BY <1>1, <1>2, <1>3, LoopExists
<1>6. Chain(g0)
  <2>1. g0 = [s \in SUBSET S |-> IF s = {} THEN Unencoded
                                 ELSE h[<<g0[s \ {Max(s)}], p[Max(s)]>>]]
    BY <1>5 DEF Loops
  <2>2. ASSUME NEW s \in SUBSET S, s # {}
        PROVE  h[<<g0[s \ {Max(s)}], p[Max(s)]>>] = EncodeByte(g0[s \ {Max(s)}], p[Max(s)])
    <3>1. Max(s) \in S /\ s \ {Max(s)} \in SUBSET S
      BY <1>1, <2>2, BelowLargest
    <3>2. g0[s \ {Max(s)}] \in Encoding /\ p[Max(s)] \in Byte
      BY <1>1, <1>5, <3>1
    <3> QED
      BY <1>4, <3>2
  <2> QED
    BY <2>1, <2>2
<1> DEFINE g == CHOOSE g : Chain(g)
<1>7. FoldLeft(EncodeByte, Unencoded, p) = g[S]
  BY <1>1 DEF FoldLeft, MapThenFoldSet
<1>8. Chain(g)
  BY <1>6
<1> HIDE DEF g
<1> DEFINE run == [k \in 0..n |-> g[1..k]]
<1>9. g[{}] = Unencoded /\ \A k \in S : g[1..k] = EncodeByte(g[1..(k - 1)], p[k])
  <2>1. g[{}] = Unencoded
    BY <1>8
  <2>2. ASSUME NEW k \in S PROVE g[1..k] = EncodeByte(g[1..(k - 1)], p[k])
    <3>1. k \in Nat /\ k # 0 /\ 1..k \in SUBSET S
      BY <1>1
    <3>2. Max(1..k) = k /\ (1..k) \ {Max(1..k)} = 1..(k - 1) /\ 1..k # {}
      BY <3>1, LastPlace
    <3>3. g[1..k] = EncodeByte(g[(1..k) \ {Max(1..k)}], p[Max(1..k)])
      BY <1>8, <3>1, <3>2
    <3> QED
      BY <3>2, <3>3
  <2> QED
    BY <2>1, <2>2
<1>10. \A k \in 0..n : g[1..k] \in Encoding
  <2> DEFINE T == {k \in 0..n : g[1..k] \notin Encoding}
  <2> SUFFICES ASSUME T # {} PROVE FALSE
    OBVIOUS
  <2>1. PICK m \in T : \A l \in T : m <= l
    <3>1. T \subseteq Nat
      OBVIOUS
    <3> HIDE DEF T
    <3> QED
      BY <3>1, LeastNatural
  <2>2. m \in 0..n /\ g[1..m] \notin Encoding
    BY <2>1
  <2>3. m # 0
    <3>1. 1..0 = {}
      OBVIOUS
    <3> QED
      BY <1>2, <1>9, <2>2, <3>1
  <2>4. m - 1 \in 0..n /\ m - 1 \notin T /\ m \in S
    <3> HIDE DEF T
    <3> QED
      BY <1>1, <2>1, <2>2, <2>3
  <2>5. g[1..(m - 1)] \in Encoding
    BY <2>4
  <2> QED
    BY <1>1, <1>9, <2>2, <2>4, <2>5, ByteEncoded
<1>11. run[0] = Unencoded
  <2>1. 1..0 = {} /\ 0 \in 0..n
    BY <1>1
  <2> QED
    BY <1>9, <2>1
<1>12. \A k \in 1..n : run[k] = EncodeByte(run[k - 1], p[k])
  <2>1. \A k \in 1..n : k \in 0..n /\ k - 1 \in 0..n
    BY <1>1
  <2> QED
    BY <1>9, <2>1
<1>13. run \in [0..n -> Encoding] /\ run[n] = g[S]
  BY <1>1, <1>10
<1> QED
  BY <1>7, <1>11, <1>12, <1>13

\* The bytes of p, with zeros after them, and the values of the digits that
\* stand for them: four digits for three bytes.
At(p, i) == IF i \in 1..Len(p) THEN p[i] ELSE 0
Value(p, j) ==
  LET q == 3 * ((j - 1) \div 4)
  IN  CASE j % 4 = 1 -> At(p, q + 1) \div 4
        [] j % 4 = 2 -> 16 * (At(p, q + 1) % 4) + (At(p, q + 2) \div 16)
        [] j % 4 = 3 -> 4 * (At(p, q + 2) % 16) + (At(p, q + 3) \div 64)
        [] j % 4 = 0 -> At(p, q + 3) % 64

LEMMA ValuesOfGroup ==
  ASSUME NEW p \in Seq(Byte), NEW q \in Nat
  PROVE  /\ Value(p, 4 * q + 1) = At(p, 3 * q + 1) \div 4
         /\ Value(p, 4 * q + 2) = 16 * (At(p, 3 * q + 1) % 4) + (At(p, 3 * q + 2) \div 16)
         /\ Value(p, 4 * q + 3) = 4 * (At(p, 3 * q + 2) % 16) + (At(p, 3 * q + 3) \div 64)
         /\ Value(p, 4 * q + 4) = At(p, 3 * q + 3) % 64
<1>1. ASSUME NEW j, (j - 1) \div 4 = q
      PROVE  /\ j % 4 = 1 => Value(p, j) = At(p, 3 * q + 1) \div 4
             /\ j % 4 = 2 => Value(p, j) = 16 * (At(p, 3 * q + 1) % 4) + (At(p, 3 * q + 2) \div 16)
             /\ j % 4 = 3 => Value(p, j) = 4 * (At(p, 3 * q + 2) % 16) + (At(p, 3 * q + 3) \div 64)
             /\ j % 4 = 0 => Value(p, j) = At(p, 3 * q + 3) % 64
  <2> DEFINE r == j % 4
             g == (j - 1) \div 4
  <2>1. Value(p, j) = CASE r = 1 -> At(p, 3 * g + 1) \div 4
                        [] r = 2 -> 16 * (At(p, 3 * g + 1) % 4) + (At(p, 3 * g + 2) \div 16)
                        [] r = 3 -> 4 * (At(p, 3 * g + 2) % 16) + (At(p, 3 * g + 3) \div 64)
                        [] r = 0 -> At(p, 3 * g + 3) % 64
    BY DEF Value
  <2>2. g = q
    BY <1>1
  <2> HIDE DEF r, g
  <2>3. /\ r = 1 => Value(p, j) = At(p, 3 * q + 1) \div 4
        /\ r = 2 => Value(p, j) = 16 * (At(p, 3 * q + 1) % 4) + (At(p, 3 * q + 2) \div 16)
        /\ r = 3 => Value(p, j) = 4 * (At(p, 3 * q + 2) % 16) + (At(p, 3 * q + 3) \div 64)
        /\ r = 0 => Value(p, j) = At(p, 3 * q + 3) % 64
    BY <2>1, <2>2
  <2> QED
    BY <2>3 DEF r
<1> DEFINE a == 4 * q + 1
           b == 4 * q + 2
           c == 4 * q + 3
           d == 4 * q + 4
<1>2. a % 4 = 1 /\ (a - 1) \div 4 = q
  OBVIOUS
<1>3. b % 4 = 2 /\ (b - 1) \div 4 = q
  OBVIOUS
<1>4. c % 4 = 3 /\ (c - 1) \div 4 = q
  OBVIOUS
<1>5. d % 4 = 0 /\ (d - 1) \div 4 = q
  OBVIOUS
<1> HIDE DEF a, b, c, d
<1>6. /\ Value(p, a) = At(p, 3 * q + 1) \div 4
      /\ Value(p, b) = 16 * (At(p, 3 * q + 1) % 4) + (At(p, 3 * q + 2) \div 16)
      /\ Value(p, c) = 4 * (At(p, 3 * q + 2) % 16) + (At(p, 3 * q + 3) \div 64)
      /\ Value(p, d) = At(p, 3 * q + 3) % 64
  BY <1>1, <1>2, <1>3, <1>4, <1>5
<1> QED
  BY <1>6 DEF a, b, c, d

\* A byte's parts, and what is put together of them.
LEMMA Parts ==
  ASSUME NEW b \in Byte, NEW c \in Byte
  PROVE  /\ b \div 4 \in 0..63 /\ b % 64 \in 0..63
         /\ 16 * (b % 4) + (c \div 16) \in 0..63
         /\ 4 * (b % 16) + (c \div 64) \in 0..63
<1>1. b \in 0..255 /\ c \in 0..255
  BY DEF Byte
<1>2. b \div 4 \in 0..63 /\ b % 64 \in 0..63 /\ b % 4 \in 0..3 /\ b % 16 \in 0..15
  BY <1>1
<1>3. c \div 16 \in 0..15 /\ c \div 64 \in 0..3
  BY <1>1
<1> QED
  BY <1>2, <1>3

LEMMA BytesAreAt ==
  ASSUME NEW p \in Seq(Byte)
  PROVE  \A i \in Int : At(p, i) \in Byte
<1>1. 0 \in Byte
  BY DEF Byte
<1>2. \A i \in 1..Len(p) : p[i] \in Byte
  OBVIOUS
<1> QED
  BY <1>1, <1>2 DEF At

LEMMA ValuesAreDigits ==
  ASSUME NEW p \in Seq(Byte), NEW j \in Nat \ {0}
  PROVE  Value(p, j) \in 0..63
<1> DEFINE q == (j - 1) \div 4
<1>1. q \in Nat /\ (j = 4 * q + 1 \/ j = 4 * q + 2 \/ j = 4 * q + 3 \/ j = 4 * q + 4)
  OBVIOUS
<1> HIDE DEF q
<1>2. At(p, 3 * q + 1) \in Byte /\ At(p, 3 * q + 2) \in Byte /\ At(p, 3 * q + 3) \in Byte
  <2>1. 3 * q + 1 \in Int /\ 3 * q + 2 \in Int /\ 3 * q + 3 \in Int
    BY <1>1
  <2> QED
    BY <2>1, BytesAreAt
<1>3. Value(p, 4 * q + 1) \in 0..63 /\ Value(p, 4 * q + 2) \in 0..63
      /\ Value(p, 4 * q + 3) \in 0..63 /\ Value(p, 4 * q + 4) \in 0..63
  BY <1>1, <1>2, Parts, ValuesOfGroup
<1> QED
  BY <1>1, <1>3

\* After k bytes of p.
Written(p, st, k) ==
  /\ st.valb = 2 * (k % 3) - 6
  /\ k # 0 => st.val % 256 = p[k]
  /\ Len(st.out) = (4 * k) \div 3
  /\ \A j \in 1..Len(st.out) : st.out[j] = Digit(Value(p, j))

LEMMA WritesOn ==
  ASSUME NEW p, NEW s, NEW t, NEW m \in Nat, Len(s) = m,
         \A j \in 1..m : s[j] = Digit(Value(p, j))
  PROVE  /\ Adds(s, t, Digit(Value(p, m + 1))) =>
              Len(t) = m + 1 /\ \A j \in 1..(m + 1) : t[j] = Digit(Value(p, j))
         /\ AddsTwo(s, t, Digit(Value(p, m + 1)), Digit(Value(p, m + 2))) =>
              Len(t) = m + 2 /\ \A j \in 1..(m + 2) : t[j] = Digit(Value(p, j))
<1>1. \A j \in 1..(m + 1) : j \in 1..m \/ j = m + 1
  OBVIOUS
<1>2. \A j \in 1..(m + 2) : j \in 1..m \/ j = m + 1 \/ j = m + 2
  OBVIOUS
<1>3. ASSUME Adds(s, t, Digit(Value(p, m + 1)))
      PROVE  Len(t) = m + 1 /\ \A j \in 1..(m + 1) : t[j] = Digit(Value(p, j))
  BY <1>1, <1>3 DEF Adds
<1>4. ASSUME AddsTwo(s, t, Digit(Value(p, m + 1)), Digit(Value(p, m + 2)))
      PROVE  Len(t) = m + 2 /\ \A j \in 1..(m + 2) : t[j] = Digit(Value(p, j))
  BY <1>2, <1>4 DEF AddsTwo
<1> QED
  BY <1>3, <1>4

LEMMA WrittenStep ==
  ASSUME NEW p \in Seq(Byte), NEW k \in 1..Len(p), NEW st \in Encoding, Written(p, st, k - 1)
  PROVE  Written(p, EncodeByte(st, p[k]), k)
<1> DEFINE nx == EncodeByte(st, p[k])
           q == (k - 1) \div 3
<1>1. p[k] \in Byte /\ k \in Nat /\ k # 0 /\ Len(p) \in Nat /\ k <= Len(p)
  OBVIOUS
<1>2. q \in Nat /\ (k = 3 * q + 1 \/ k = 3 * q + 2 \/ k = 3 * q + 3)
  BY <1>1
<1>3. /\ nx \in Encoding /\ nx.val % 256 = p[k]
      /\ st.valb = -6 => nx.valb = -4 /\ Adds(st.out, nx.out, Digit(p[k] \div 4))
      /\ st.valb = -4 => /\ nx.valb = -2
                         /\ Adds(st.out, nx.out, Digit(16 * (st.val % 4) + (p[k] \div 16)))
      /\ st.valb = -2 => /\ nx.valb = -6
                         /\ AddsTwo(st.out, nx.out,
                                    Digit(4 * (st.val % 16) + (p[k] \div 64)), Digit(p[k] % 64))
  BY <1>1, ByteEncoded
<1>4. At(p, k) = p[k] /\ (k # 1 => At(p, k - 1) = p[k - 1])
  BY <1>1 DEF At
<1>5. k # 1 => st.val % 4 = At(p, k - 1) % 4 /\ st.val % 16 = At(p, k - 1) % 16
  <2> SUFFICES ASSUME k # 1 PROVE st.val % 4 = At(p, k - 1) % 4 /\ st.val % 16 = At(p, k - 1) % 16
    OBVIOUS
  <2> DEFINE v == st.val
  <2>1. v \in Int
    BY DEF Encoding
  <2>2. k - 1 # 0 /\ v % 256 = p[k - 1]
    BY <1>1 DEF Written
  <2> HIDE DEF v
  <2>3. (v % 256) % 4 = v % 4 /\ (v % 256) % 16 = v % 16
    BY <2>1
  <2> QED
    BY <1>4, <2>2, <2>3 DEF v
<1>6. \A j \in 1..Len(st.out) : st.out[j] = Digit(Value(p, j))
  BY DEF Written
<1> HIDE DEF nx, q
<1>7. CASE k = 3 * q + 1
  <2>1. (k - 1) % 3 = 0 /\ k % 3 = 1 /\ (4 * (k - 1)) \div 3 = 4 * q /\ (4 * k) \div 3 = 4 * q + 1
    BY <1>2, <1>7
  <2>2. st.valb = -6 /\ Len(st.out) = 4 * q
    BY <2>1 DEF Written
  <2>3. Value(p, 4 * q + 1) = p[k] \div 4
    BY <1>2, <1>4, <1>7, ValuesOfGroup
  <2>4. nx.valb = -4 /\ Adds(st.out, nx.out, Digit(Value(p, 4 * q + 1)))
    BY <1>3, <2>2, <2>3
  <2>5. Len(nx.out) = 4 * q + 1 /\ \A j \in 1..(4 * q + 1) : nx.out[j] = Digit(Value(p, j))
    BY <1>2, <1>6, <2>2, <2>4, WritesOn
  <2> QED
    BY <1>3, <2>1, <2>4, <2>5 DEF Written, nx
<1>8. CASE k = 3 * q + 2
  <2>1. /\ (k - 1) % 3 = 1 /\ k % 3 = 2 /\ (4 * (k - 1)) \div 3 = 4 * q + 1
        /\ (4 * k) \div 3 = 4 * q + 2 /\ k - 1 = 3 * q + 1 /\ k # 1
        /\ 4 * q + 1 \in Nat /\ (4 * q + 1) + 1 = 4 * q + 2
    BY <1>2, <1>8
  <2>2. st.valb = -4 /\ Len(st.out) = 4 * q + 1
    BY <2>1 DEF Written
  <2>3. Value(p, 4 * q + 2) = 16 * (st.val % 4) + (p[k] \div 16)
    BY <1>2, <1>4, <1>5, <1>8, <2>1, ValuesOfGroup
  <2>4. nx.valb = -2 /\ Adds(st.out, nx.out, Digit(Value(p, 4 * q + 2)))
    BY <1>3, <2>2, <2>3
  <2>5. Len(nx.out) = 4 * q + 2 /\ \A j \in 1..(4 * q + 2) : nx.out[j] = Digit(Value(p, j))
    <3> DEFINE m == 4 * q + 1
    <3>1. m \in Nat /\ m + 1 = 4 * q + 2
      BY <2>1
    <3>2. Len(st.out) = m
      BY <2>2
    <3> HIDE DEF m
    <3>3. Len(nx.out) = m + 1 /\ \A j \in 1..(m + 1) : nx.out[j] = Digit(Value(p, j))
      <4>1. Adds(st.out, nx.out, Digit(Value(p, m + 1)))
        BY <2>4, <3>1
      <4> QED
        BY <1>6, <3>1, <3>2, <4>1, WritesOn
    <3> QED
      BY <3>1, <3>3
  <2> QED
    BY <1>3, <2>1, <2>4, <2>5 DEF Written, nx
<1>9. CASE k = 3 * q + 3
  <2>1. /\ (k - 1) % 3 = 2 /\ k % 3 = 0 /\ (4 * (k - 1)) \div 3 = 4 * q + 2
        /\ (4 * k) \div 3 = 4 * q + 4 /\ k - 1 = 3 * q + 2 /\ k # 1
        /\ 4 * q + 2 \in Nat /\ (4 * q + 2) + 1 = 4 * q + 3 /\ (4 * q + 2) + 2 = 4 * q + 4
    BY <1>2, <1>9
  <2>2. st.valb = -2 /\ Len(st.out) = 4 * q + 2
    BY <2>1 DEF Written
  <2>3. Value(p, 4 * q + 3) = 4 * (st.val % 16) + (p[k] \div 64) /\ Value(p, 4 * q + 4) = p[k] % 64
    BY <1>2, <1>4, <1>5, <1>9, <2>1, ValuesOfGroup
  <2>4. nx.valb = -6 /\ AddsTwo(st.out, nx.out, Digit(Value(p, 4 * q + 3)), Digit(Value(p, 4 * q + 4)))
    BY <1>3, <2>2, <2>3
  <2>5. Len(nx.out) = 4 * q + 4 /\ \A j \in 1..(4 * q + 4) : nx.out[j] = Digit(Value(p, j))
    <3> DEFINE m == 4 * q + 2
    <3>1. m \in Nat /\ m + 1 = 4 * q + 3 /\ m + 2 = 4 * q + 4
      BY <2>1
    <3>2. Len(st.out) = m
      BY <2>2
    <3> HIDE DEF m
    <3>3. Len(nx.out) = m + 2 /\ \A j \in 1..(m + 2) : nx.out[j] = Digit(Value(p, j))
      <4>1. AddsTwo(st.out, nx.out, Digit(Value(p, m + 1)), Digit(Value(p, m + 2)))
        BY <2>4, <3>1
      <4> QED
        BY <1>6, <3>1, <3>2, <4>1, WritesOn
    <3> QED
      BY <3>1, <3>3
  <2> QED
    BY <1>3, <2>1, <2>4, <2>5 DEF Written, nx
<1> QED
  BY <1>2, <1>7, <1>8, <1>9

\* What the loop leaves.
LEMMA AllWritten ==
  ASSUME NEW p \in Seq(Byte)
  PROVE  \E st \in Encoding : /\ FoldLeft(EncodeByte, Unencoded, p) = st
                              /\ Written(p, st, Len(p))
<1> DEFINE n == Len(p)
<1>1. PICK run \in [0..n -> Encoding] :
        /\ run[0] = Unencoded
        /\ \A k \in 1..n : run[k] = EncodeByte(run[k - 1], p[k])
        /\ FoldLeft(EncodeByte, Unencoded, p) = run[n]
  BY EncodeLoop
<1>2. n \in Nat
  OBVIOUS
<1> DEFINE T == {k \in 0..n : ~Written(p, run[k], k)}
<1>3. T = {}
  <2> SUFFICES ASSUME T # {} PROVE FALSE
    OBVIOUS
  <2>1. PICK m \in T : \A l \in T : m <= l
    <3>1. T \subseteq Nat
      OBVIOUS
    <3> HIDE DEF T
    <3> QED
      BY <3>1, LeastNatural
  <2>2. m \in 0..n /\ ~Written(p, run[m], m)
    BY <2>1
  <2>3. Written(p, Unencoded, 0)
    <3>1. 2 * (0 % 3) - 6 = -6 /\ (4 * 0) \div 3 = 0
      OBVIOUS
    <3>2. Unencoded.valb = -6 /\ Unencoded.out = <<>> /\ Len(Unencoded.out) = 0
      BY DEF Unencoded
    <3> QED
      BY <3>1, <3>2 DEF Written
  <2>4. m # 0
    BY <1>1, <2>2, <2>3
  <2>5. m - 1 \in 0..n /\ m - 1 \notin T /\ m \in 1..n
    <3> HIDE DEF T
    <3> QED
      BY <1>2, <2>1, <2>2, <2>4
  <2>6. Written(p, run[m - 1], m - 1) /\ run[m - 1] \in Encoding
    BY <1>1, <2>5
  <2>7. Written(p, EncodeByte(run[m - 1], p[m]), m)
    BY <2>5, <2>6, WrittenStep
  <2> QED
    BY <1>1, <2>2, <2>5, <2>7
<1>4. n \in 0..n
  BY <1>2
<1> QED
  BY <1>1, <1>3, <1>4

\* How many digits stand for n bytes.
Count(n) == (4 * n + 2) \div 3

\* What encoding yields: a digit for every six bits, the last filled with
\* zeros, and '=' up to a multiple of four.
LEMMA Encoded ==
  ASSUME NEW p \in Seq(Byte)
  PROVE  \E digits \in Seq(Byte), pad \in Seq({Equals}) :
           /\ Encode(p) = digits \o pad /\ Len(Encode(p)) % 4 = 0
           /\ Len(digits) = Count(Len(p))
           /\ \A j \in 1..Len(digits) : digits[j] = Digit(Value(p, j))
<1>1. PICK st \in Encoding : /\ FoldLeft(EncodeByte, Unencoded, p) = st
                             /\ Written(p, st, Len(p))
  BY AllWritten
<1> DEFINE n == Len(p)
           q == n \div 3
           rest == IF st.valb = -6 THEN <<>>
                   ELSE <<Digit(Bits(ShiftLeft(st.val, 8), st.valb + 8, 6))>>
           digits == st.out \o rest
           pad == [i \in 1..((-Len(digits)) % 4) |-> Equals]
<1>2. Encode(p) = digits \o pad
  BY <1>1 DEF Encode, Unencoded
<1>3. n \in Nat /\ st.val \in Int /\ st.out \in Seq(Byte)
  BY DEF Encoding
<1>4. q \in Nat /\ (n = 3 * q \/ n = 3 * q + 1 \/ n = 3 * q + 2)
  BY <1>3
<1>5. \A j \in 1..Len(st.out) : st.out[j] = Digit(Value(p, j))
  BY <1>1 DEF Written
<1>6. n # 0 => /\ At(p, n) = p[n] /\ At(p, n + 1) = 0
               /\ st.val % 4 = p[n] % 4 /\ st.val % 16 = p[n] % 16
  <2> SUFFICES ASSUME n # 0 PROVE /\ At(p, n) = p[n] /\ At(p, n + 1) = 0
                                  /\ st.val % 4 = p[n] % 4 /\ st.val % 16 = p[n] % 16
    OBVIOUS
  <2> DEFINE v == st.val
  <2>1. v % 256 = p[n]
    BY <1>1 DEF Written
  <2>2. (v % 256) % 4 = v % 4 /\ (v % 256) % 16 = v % 16
    <3>1. v \in Int
      BY <1>3
    <3> HIDE DEF v
    <3> QED
      BY <3>1
  <2> HIDE DEF v
  <2>3. At(p, n) = p[n] /\ At(p, n + 1) = 0
    BY <1>3 DEF At
  <2> QED
    BY <2>1, <2>2, <2>3 DEF v
<1>7. /\ Bits(ShiftLeft(st.val, 8), 4, 6) = 16 * (st.val % 4)
      /\ Bits(ShiftLeft(st.val, 8), 6, 6) = 4 * (st.val % 16)
  <2> DEFINE v == st.val
             w == ShiftLeft(v, 8)
  <2>1. v \in Int
    BY <1>3
  <2> HIDE DEF v
  <2>2. w \in Int
    BY <2>1, SMT DEF ShiftLeft
  <2>3. 0 \in Byte /\ 0 \div 16 = 0 /\ 0 \div 64 = 0 /\ v % 4 \in 0..3 /\ v % 16 \in 0..15
    BY <2>1 DEF Byte
  <2>4. /\ Bits(w + 0, 4, 6) = 16 * (v % 4) + (0 \div 16)
        /\ Bits(w + 0, 6, 6) = 4 * (v % 16) + (0 \div 64)
    BY <2>1, <2>3, ByteIn
  <2>5. w + 0 = w
    BY <2>2
  <2> HIDE DEF w
  <2> QED
    BY <2>3, <2>4, <2>5 DEF v, w
<1> HIDE DEF q
<1>8. /\ digits \in Seq(Byte) /\ Len(digits) = Count(n)
      /\ \A j \in 1..Len(digits) : digits[j] = Digit(Value(p, j))
  <2>1. \A d \in 0..63 : Digit(d) \in Byte
    BY Digits
  <2>2. CASE n = 3 * q
    <3>1. n % 3 = 0 /\ (4 * n) \div 3 = 4 * q /\ (4 * n + 2) \div 3 = 4 * q
      BY <1>4, <2>2
    <3>2. st.valb = -6 /\ Len(st.out) = Count(n)
      BY <1>1, <3>1 DEF Written, Count
    <3>3. digits = st.out
      <4>1. digits = st.out \o <<>>
        BY <3>2
      <4>2. 0 \in Byte
        BY DEF Byte
      <4> QED
        BY <1>3, <4>1, <4>2, Adding
    <3> QED
      BY <1>3, <1>5, <3>2, <3>3
  <2>3. CASE n = 3 * q + 1
    <3> DEFINE m == 4 * q + 1
               d == Digit(Value(p, m + 1))
    <3>1. /\ n % 3 = 1 /\ (4 * n) \div 3 = m /\ (4 * n + 2) \div 3 = m + 1 /\ m \in Nat
          /\ n + 1 = 3 * q + 2 /\ m + 1 = 4 * q + 2 /\ n # 0
      BY <1>4, <2>3
    <3>2. st.valb = -4 /\ Len(st.out) = m
      BY <1>1, <3>1 DEF Written
    <3>3. Value(p, 4 * q + 2) = 16 * (p[n] % 4)
      <4>1. Value(p, 4 * q + 2) = 16 * (At(p, 3 * q + 1) % 4) + (At(p, 3 * q + 2) \div 16)
        BY <1>4, ValuesOfGroup
      <4>2. At(p, 3 * q + 1) = p[n] /\ At(p, 3 * q + 2) = 0
        BY <1>6, <2>3, <3>1
      <4>3. p[n] \in Byte
        BY <1>3, <3>1
      <4>4. \A b \in 0..255 : 16 * (b % 4) + (0 \div 16) = 16 * (b % 4)
        OBVIOUS
      <4> QED
        BY <4>1, <4>2, <4>3, <4>4 DEF Byte
    <3>4. digits = st.out \o <<d>>
      <4>1. rest = <<Digit(Bits(ShiftLeft(st.val, 8), 4, 6))>>
        BY <3>2
      <4> QED
        BY <1>6, <1>7, <3>1, <3>3, <4>1
    <3>5. d \in Byte
      <4>1. m + 1 \in Nat \ {0}
        BY <3>1
      <4> QED
        BY <2>1, <4>1, ValuesAreDigits
    <3> HIDE DEF m, d, digits
    <3>6. Adds(st.out, digits, d)
      BY <1>3, <3>4, <3>5, Adding
    <3>7. Len(digits) = m + 1 /\ \A j \in 1..(m + 1) : digits[j] = Digit(Value(p, j))
      BY <1>5, <3>1, <3>2, <3>6, WritesOn DEF d
    <3> QED
      BY <3>1, <3>6, <3>7 DEF Count, Adds
  <2>4. CASE n = 3 * q + 2
    <3> DEFINE m == 4 * q + 2
               d == Digit(Value(p, m + 1))
    <3>1. /\ n % 3 = 2 /\ (4 * n) \div 3 = m /\ (4 * n + 2) \div 3 = m + 1 /\ m \in Nat
          /\ n + 1 = 3 * q + 3 /\ m + 1 = 4 * q + 3 /\ n # 0
      BY <1>4, <2>4
    <3>2. st.valb = -2 /\ Len(st.out) = m
      BY <1>1, <3>1 DEF Written
    <3>3. Value(p, 4 * q + 3) = 4 * (p[n] % 16)
      <4>1. Value(p, 4 * q + 3) = 4 * (At(p, 3 * q + 2) % 16) + (At(p, 3 * q + 3) \div 64)
        BY <1>4, ValuesOfGroup
      <4>2. At(p, 3 * q + 2) = p[n] /\ At(p, 3 * q + 3) = 0
        BY <1>6, <2>4, <3>1
      <4>3. p[n] \in Byte
        BY <1>3, <3>1
      <4>4. \A b \in 0..255 : 4 * (b % 16) + (0 \div 64) = 4 * (b % 16)
        OBVIOUS
      <4> QED
        BY <4>1, <4>2, <4>3, <4>4 DEF Byte
    <3>4. digits = st.out \o <<d>>
      <4>1. rest = <<Digit(Bits(ShiftLeft(st.val, 8), 6, 6))>>
        BY <3>2
      <4> QED
        BY <1>6, <1>7, <3>1, <3>3, <4>1
    <3>5. d \in Byte
      <4>1. m + 1 \in Nat \ {0}
        BY <3>1
      <4> QED
        BY <2>1, <4>1, ValuesAreDigits
    <3> HIDE DEF m, d, digits
    <3>6. Adds(st.out, digits, d)
      BY <1>3, <3>4, <3>5, Adding
    <3>7. Len(digits) = m + 1 /\ \A j \in 1..(m + 1) : digits[j] = Digit(Value(p, j))
      BY <1>5, <3>1, <3>2, <3>6, WritesOn DEF d
    <3> QED
      BY <3>1, <3>6, <3>7 DEF Count, Adds
  <2> QED
    BY <1>4, <2>2, <2>3, <2>4
<1> HIDE DEF digits
<1>9. pad \in Seq({Equals}) /\ Len(digits \o pad) % 4 = 0
  <2> DEFINE l == Len(digits)
             k == (-l) % 4
  <2>1. l \in Nat
    BY <1>8
  <2> HIDE DEF l
  <2>2. k \in Nat /\ (l + k) % 4 = 0
    BY <2>1
  <2> HIDE DEF k
  <2>3. pad = [i \in 1..k |-> Equals]
    BY DEF k, l
  <2> HIDE DEF pad
  <2>4. pad \in Seq({Equals}) /\ Len(pad) = k
    BY <2>2, <2>3
  <2>5. Len(digits \o pad) = l + k
    <3>1. Equals \in Byte
      BY DEF Equals, Byte
    <3>2. pad \in Seq(Byte)
      BY <2>2, <2>3, <3>1
    <3> QED
      BY <1>8, <2>4, <3>2, Appended DEF l
  <2> QED
    BY <2>2, <2>4, <2>5
<1> QED
  BY <1>2, <1>8, <1>9
-----------------------------------------------------------------------------
(***************************************************************************)
(* The decoder.                                                            *)
(***************************************************************************)
Decoding == [val : Int, valb : {-8, -6, -4, -2}, out : Seq(Byte)]
Undecoded == [val |-> 0, valb |-> -8, out |-> <<>>]

\* What a digit adds to the bytes.
LEMMA DigitDecoded ==
  ASSUME NEW st \in Decoding, NEW d \in 0..63
  PROVE  LET nx == DecodeDigit(st, Digit(d))
         IN  /\ nx \in Decoding /\ nx.val % 64 = d
             /\ st.valb = -8 => nx.valb = -2 /\ nx.out = st.out
             /\ st.valb = -2 => nx.valb = -4 /\ Adds(st.out, nx.out, 4 * (st.val % 64) + (d \div 16))
             /\ st.valb = -4 => nx.valb = -6 /\ Adds(st.out, nx.out, 16 * (st.val % 16) + (d \div 4))
             /\ st.valb = -6 => nx.valb = -8 /\ Adds(st.out, nx.out, 64 * (st.val % 4) + d)
<1> DEFINE w == ShiftLeft(st.val, 6) + d
           nx == DecodeDigit(st, Digit(d))
           x == 4 * (st.val % 64) + (d \div 16)
           y == 16 * (st.val % 16) + (d \div 4)
           z == 64 * (st.val % 4) + d
           bits == st.valb + 6
<1>1. st.val \in Int /\ st.valb \in {-8, -6, -4, -2} /\ st.out \in Seq(Byte)
  BY DEF Decoding
<1>2. /\ w \in Int /\ w % 64 = d
      /\ Bits(w, 0, 8) = z
      /\ Bits(w, 2, 8) = y
      /\ Bits(w, 4, 8) = x
  BY <1>1, DigitIn
<1>3. x \in Byte /\ y \in Byte /\ z \in Byte
  <2> DEFINE v == st.val
  <2>1. v \in Int
    BY <1>1
  <2> HIDE DEF v
  <2>2. v % 64 \in 0..63 /\ v % 16 \in 0..15 /\ v % 4 \in 0..3
    BY <2>1
  <2>3. d \div 16 \in 0..3 /\ d \div 4 \in 0..15
    OBVIOUS
  <2>4. /\ 4 * (v % 64) + (d \div 16) \in 0..255
        /\ 16 * (v % 16) + (d \div 4) \in 0..255
        /\ 64 * (v % 4) + d \in 0..255
    BY <2>2, <2>3
  <2> QED
    BY <2>4 DEF v, Byte
<1>4. nx = [val |-> w, valb |-> IF bits >= 0 THEN bits - 8 ELSE bits,
            out |-> st.out \o IF bits >= 0 THEN <<Bits(w, bits, 8)>> ELSE <<>>]
  <2>1. Digit(d) \in DOMAIN DigitOf /\ DigitOf[Digit(d)] = d
    BY Digits
  <2> QED
    BY <2>1 DEF DecodeDigit
<1>5. Adds(st.out, st.out \o <<x>>, x) /\ Adds(st.out, st.out \o <<y>>, y)
      /\ Adds(st.out, st.out \o <<z>>, z) /\ st.out \o <<>> = st.out
  BY <1>1, <1>3, Adding
<1> HIDE DEF w, nx
<1>6. CASE st.valb = -8
  <2>1. nx = [val |-> w, valb |-> -2, out |-> st.out \o <<>>]
    BY <1>4, <1>6
  <2> QED
    BY <1>1, <1>2, <1>5, <1>6, <2>1 DEF Decoding, nx
<1>7. CASE st.valb = -2
  <2>1. nx = [val |-> w, valb |-> -4, out |-> st.out \o <<Bits(w, 4, 8)>>]
    BY <1>4, <1>7
  <2> HIDE DEF x
  <2>2. nx.out = st.out \o <<x>> /\ nx.val = w /\ nx.valb = -4
    BY <1>2, <2>1
  <2>3. Adds(st.out, nx.out, x)
    BY <1>5, <2>2
  <2>4. nx \in Decoding
    BY <1>2, <2>1, <2>3 DEF Decoding, Adds
  <2> QED
    BY <1>2, <1>7, <2>2, <2>3, <2>4 DEF nx, x
<1>8. CASE st.valb = -4
  <2>1. nx = [val |-> w, valb |-> -6, out |-> st.out \o <<Bits(w, 2, 8)>>]
    BY <1>4, <1>8
  <2> HIDE DEF y
  <2>2. nx.out = st.out \o <<y>> /\ nx.val = w /\ nx.valb = -6
    BY <1>2, <2>1
  <2>3. Adds(st.out, nx.out, y)
    BY <1>5, <2>2
  <2>4. nx \in Decoding
    BY <1>2, <2>1, <2>3 DEF Decoding, Adds
  <2> QED
    BY <1>2, <1>8, <2>2, <2>3, <2>4 DEF nx, y
<1>9. CASE st.valb = -6
  <2>1. nx = [val |-> w, valb |-> -8, out |-> st.out \o <<Bits(w, 0, 8)>>]
    BY <1>4, <1>9
  <2> HIDE DEF z
  <2>2. nx.out = st.out \o <<z>> /\ nx.val = w /\ nx.valb = -8
    BY <1>2, <2>1
  <2>3. Adds(st.out, nx.out, z)
    BY <1>5, <2>2
  <2>4. nx \in Decoding
    BY <1>2, <2>1, <2>3 DEF Decoding, Adds
  <2> QED
    BY <1>2, <1>9, <2>2, <2>3, <2>4 DEF nx, z
<1> QED
  BY <1>1, <1>6, <1>7, <1>8, <1>9

\* The loop of the decoder, over digits.
LEMMA DecodeLoop ==
  ASSUME NEW t \in Seq(Byte), \A j \in 1..Len(t) : t[j] \in Alphabet
  PROVE  \E run \in [0..Len(t) -> Decoding] :
           /\ run[0] = Undecoded
           /\ \A k \in 1..Len(t) : run[k] = DecodeDigit(run[k - 1], t[k])
           /\ FoldLeft(DecodeDigit, Undecoded, t) = run[Len(t)]
<1> DEFINE n == Len(t)
           S == 1..n
           Chain(g) == g = [s \in SUBSET S |->
                              IF s = {} THEN Undecoded
                              ELSE DecodeDigit(g[s \ {Max(s)}], t[Max(s)])]
           h == [x \in Decoding \X Alphabet |-> DecodeDigit(x[1], x[2])]
<1>1. n \in Nat /\ DOMAIN t = S /\ \A i \in S : t[i] \in Alphabet
  OBVIOUS
<1>2. Undecoded \in Decoding
  BY DEF Undecoded, Decoding
<1>3. \A st \in Decoding, c \in Alphabet : DecodeDigit(st, c) \in Decoding
  <2> SUFFICES ASSUME NEW st \in Decoding, NEW c \in Alphabet PROVE DecodeDigit(st, c) \in Decoding
    OBVIOUS
  <2>1. PICK d \in 0..63 : c = Digit(d)
    BY DEF Alphabet
  <2> QED
    BY <2>1, DigitDecoded
<1>4. h \in [Decoding \X Alphabet -> Decoding]
  BY <1>3
<1>5. \A st \in Decoding, c \in Alphabet : h[<<st, c>>] = DecodeDigit(st, c)
  OBVIOUS
<1> HIDE DEF h
<1>6. PICK g0 \in [SUBSET S -> Decoding] : Loops(h, Undecoded, t, SUBSET S, g0)
  <2> HIDE DEF n
  <2> QED
    BY <1>1, <1>2, <1>4, LoopExists
<1>7. Chain(g0)
  <2>1. g0 = [s \in SUBSET S |-> IF s = {} THEN Undecoded
                                 ELSE h[<<g0[s \ {Max(s)}], t[Max(s)]>>]]
    BY <1>6 DEF Loops
  <2>2. ASSUME NEW s \in SUBSET S, s # {}
        PROVE  h[<<g0[s \ {Max(s)}], t[Max(s)]>>] = DecodeDigit(g0[s \ {Max(s)}], t[Max(s)])
    <3>1. Max(s) \in S /\ s \ {Max(s)} \in SUBSET S
      BY <1>1, <2>2, BelowLargest
    <3>2. g0[s \ {Max(s)}] \in Decoding /\ t[Max(s)] \in Alphabet
      BY <1>1, <1>6, <3>1
    <3> QED
      BY <1>5, <3>2
  <2> QED
    BY <2>1, <2>2
<1> DEFINE g == CHOOSE g : Chain(g)
<1>8. FoldLeft(DecodeDigit, Undecoded, t) = g[S]
  BY <1>1 DEF FoldLeft, MapThenFoldSet
<1>9. Chain(g)
  BY <1>7
<1> HIDE DEF g
<1> DEFINE run == [k \in 0..n |-> g[1..k]]
<1>10. g[{}] = Undecoded /\ \A k \in S : g[1..k] = DecodeDigit(g[1..(k - 1)], t[k])
  <2>1. g[{}] = Undecoded
    BY <1>9
  <2>2. ASSUME NEW k \in S PROVE g[1..k] = DecodeDigit(g[1..(k - 1)], t[k])
    <3>1. k \in Nat /\ k # 0 /\ 1..k \in SUBSET S
      BY <1>1
    <3>2. Max(1..k) = k /\ (1..k) \ {Max(1..k)} = 1..(k - 1) /\ 1..k # {}
      BY <3>1, LastPlace
    <3>3. g[1..k] = DecodeDigit(g[(1..k) \ {Max(1..k)}], t[Max(1..k)])
      BY <1>9, <3>1, <3>2
    <3> QED
      BY <3>2, <3>3
  <2> QED
    BY <2>1, <2>2
<1>11. \A k \in 0..n : g[1..k] \in Decoding
  <2> DEFINE T == {k \in 0..n : g[1..k] \notin Decoding}
  <2> SUFFICES ASSUME T # {} PROVE FALSE
    OBVIOUS
  <2>1. PICK m \in T : \A l \in T : m <= l
    <3>1. T \subseteq Nat
      OBVIOUS
    <3> HIDE DEF T
    <3> QED
      BY <3>1, LeastNatural
  <2>2. m \in 0..n /\ g[1..m] \notin Decoding
    BY <2>1
  <2>3. m # 0
    <3>1. 1..0 = {}
      OBVIOUS
    <3> QED
      BY <1>2, <1>10, <2>2, <3>1
  <2>4. m - 1 \in 0..n /\ m - 1 \notin T /\ m \in S
    <3> HIDE DEF T
    <3> QED
      BY <1>1, <2>1, <2>2, <2>3
  <2>5. g[1..(m - 1)] \in Decoding
    BY <2>4
  <2> QED
    BY <1>1, <1>3, <1>10, <2>2, <2>4, <2>5
<1>12. run[0] = Undecoded
  <2>1. 1..0 = {} /\ 0 \in 0..n
    BY <1>1
  <2> QED
    BY <1>10, <2>1
<1>13. \A k \in 1..n : run[k] = DecodeDigit(run[k - 1], t[k])
  <2>1. \A k \in 1..n : k \in 0..n /\ k - 1 \in 0..n
    BY <1>1
  <2> QED
    BY <1>10, <2>1
<1>14. run \in [0..n -> Decoding] /\ run[n] = g[S]
  BY <1>1, <1>11
<1> QED
  BY <1>8, <1>12, <1>13, <1>14

\* Three bytes are put together again from the digits that stand for them.
LEMMA PutTogether ==
  ASSUME NEW a \in Byte, NEW b \in Byte, NEW c \in Byte
  PROVE  /\ 4 * (a \div 4) + ((16 * (a % 4) + (b \div 16)) \div 16) = a
         /\ 16 * ((16 * (a % 4) + (b \div 16)) % 16) + ((4 * (b % 16) + (c \div 64)) \div 4) = b
         /\ 64 * ((4 * (b % 16) + (c \div 64)) % 4) + (c % 64) = c
<1>1. a \in 0..255 /\ b \in 0..255 /\ c \in 0..255
  BY DEF Byte
<1>2. b \div 16 \in 0..15 /\ c \div 64 \in 0..3 /\ a % 4 \in 0..3 /\ b % 16 \in 0..15
  BY <1>1
<1>3. /\ (16 * (a % 4) + (b \div 16)) \div 16 = a % 4
      /\ (16 * (a % 4) + (b \div 16)) % 16 = b \div 16
      /\ (4 * (b % 16) + (c \div 64)) \div 4 = b % 16
      /\ (4 * (b % 16) + (c \div 64)) % 4 = c \div 64
  BY <1>2
<1>4. 4 * (a \div 4) + (a % 4) = a /\ 16 * (b \div 16) + (b % 16) = b
      /\ 64 * (c \div 64) + (c % 64) = c
  BY <1>1
<1> QED
  BY <1>3, <1>4

\* After j digits of p.
Decoded(p, st, j) ==
  /\ st.valb = IF j % 4 = 0 THEN -8 ELSE -2 * (j % 4)
  /\ j # 0 => st.val % 64 = Value(p, j)
  /\ Len(st.out) = (3 * j) \div 4
  /\ \A i \in 1..Len(st.out) : st.out[i] = At(p, i)

LEMMA ReadsOn ==
  ASSUME NEW p, NEW s, NEW t, NEW m \in Nat, Len(s) = m,
         \A i \in 1..m : s[i] = At(p, i), Adds(s, t, At(p, m + 1))
  PROVE  Len(t) = m + 1 /\ \A i \in 1..(m + 1) : t[i] = At(p, i)
<1>1. \A j \in 1..(m + 1) : j \in 1..m \/ j = m + 1
  OBVIOUS
<1> QED
  BY <1>1 DEF Adds

LEMMA DecodedStep ==
  ASSUME NEW p \in Seq(Byte), NEW j \in Nat \ {0}, NEW st \in Decoding, Decoded(p, st, j - 1)
  PROVE  Decoded(p, DecodeDigit(st, Digit(Value(p, j))), j)
<1> DEFINE d == Value(p, j)
           nx == DecodeDigit(st, Digit(d))
           q == (j - 1) \div 4
           v == st.val
           a == At(p, 3 * q + 1)
           b == At(p, 3 * q + 2)
           c == At(p, 3 * q + 3)
<1>1. d \in 0..63
  BY ValuesAreDigits
<1>2. q \in Nat /\ (j = 4 * q + 1 \/ j = 4 * q + 2 \/ j = 4 * q + 3 \/ j = 4 * q + 4)
  OBVIOUS
<1> HIDE DEF q
<1>3. a \in Byte /\ b \in Byte /\ c \in Byte
  <2>1. 3 * q + 1 \in Int /\ 3 * q + 2 \in Int /\ 3 * q + 3 \in Int
    BY <1>2
  <2> QED
    BY <2>1, BytesAreAt
<1>4. /\ Value(p, 4 * q + 1) = a \div 4
      /\ Value(p, 4 * q + 2) = 16 * (a % 4) + (b \div 16)
      /\ Value(p, 4 * q + 3) = 4 * (b % 16) + (c \div 64)
      /\ Value(p, 4 * q + 4) = c % 64
  BY <1>2, ValuesOfGroup
<1>5. v \in Int
  BY DEF Decoding
<1> HIDE DEF d
<1>6. /\ nx \in Decoding /\ nx.val % 64 = d
      /\ st.valb = -8 => nx.valb = -2 /\ nx.out = st.out
      /\ st.valb = -2 => nx.valb = -4 /\ Adds(st.out, nx.out, 4 * (v % 64) + (d \div 16))
      /\ st.valb = -4 => nx.valb = -6 /\ Adds(st.out, nx.out, 16 * (v % 16) + (d \div 4))
      /\ st.valb = -6 => nx.valb = -8 /\ Adds(st.out, nx.out, 64 * (v % 4) + d)
  BY <1>1, DigitDecoded
<1>7. \A i \in 1..Len(st.out) : st.out[i] = At(p, i)
  BY DEF Decoded
<1>8. j # 1 => v % 64 = Value(p, j - 1)
  BY DEF Decoded
<1>9. (v % 64) % 16 = v % 16 /\ (v % 64) % 4 = v % 4
  <2> HIDE DEF v
  <2> QED
    BY <1>5
<1> HIDE DEF nx, v, a, b, c
<1>10. CASE j = 4 * q + 1
  <2>1. /\ (j - 1) % 4 = 0 /\ j % 4 = 1 /\ (3 * (j - 1)) \div 4 = 3 * q /\ (3 * j) \div 4 = 3 * q
    BY <1>2, <1>10
  <2>2. st.valb = -8 /\ Len(st.out) = 3 * q
    BY <2>1 DEF Decoded
  <2> QED
    BY <1>6, <1>7, <2>1, <2>2 DEF Decoded, nx, d
<1>11. CASE j = 4 * q + 2
  <2> DEFINE m == 3 * q
  <2>1. /\ (j - 1) % 4 = 1 /\ j % 4 = 2 /\ (3 * (j - 1)) \div 4 = m /\ (3 * j) \div 4 = m + 1
        /\ m \in Nat /\ j - 1 = 4 * q + 1 /\ j # 1 /\ m + 1 = 3 * q + 1
    BY <1>2, <1>11
  <2>2. st.valb = -2 /\ Len(st.out) = m
    BY <2>1 DEF Decoded
  <2>3. v % 64 = a \div 4 /\ d = 16 * (a % 4) + (b \div 16)
    BY <1>4, <1>8, <1>11, <2>1 DEF d
  <2>4. 4 * (v % 64) + (d \div 16) = At(p, m + 1)
    BY <1>3, <2>1, <2>3, PutTogether DEF a
  <2>5. nx.valb = -4 /\ Adds(st.out, nx.out, At(p, m + 1))
    BY <1>6, <2>2, <2>4
  <2>6. Len(nx.out) = m + 1 /\ \A i \in 1..(m + 1) : nx.out[i] = At(p, i)
    BY <1>7, <2>1, <2>2, <2>5, ReadsOn
  <2> HIDE DEF m
  <2> QED
    BY <1>6, <2>1, <2>5, <2>6 DEF Decoded, nx, d
<1>12. CASE j = 4 * q + 3
  <2> DEFINE m == 3 * q + 1
  <2>1. /\ (j - 1) % 4 = 2 /\ j % 4 = 3 /\ (3 * (j - 1)) \div 4 = m /\ (3 * j) \div 4 = m + 1
        /\ m \in Nat /\ j - 1 = 4 * q + 2 /\ j # 1 /\ m + 1 = 3 * q + 2
    BY <1>2, <1>12
  <2>2. st.valb = -4 /\ Len(st.out) = m
    BY <2>1 DEF Decoded
  <2>3. v % 64 = 16 * (a % 4) + (b \div 16) /\ d = 4 * (b % 16) + (c \div 64)
    BY <1>4, <1>8, <1>12, <2>1 DEF d
  <2>4. 16 * (v % 16) + (d \div 4) = At(p, m + 1)
    <3>1. v % 16 = (16 * (a % 4) + (b \div 16)) % 16
      BY <1>9, <2>3
    <3> QED
      BY <1>3, <2>1, <2>3, <3>1, PutTogether DEF b
  <2>5. nx.valb = -6 /\ Adds(st.out, nx.out, At(p, m + 1))
    BY <1>6, <2>2, <2>4
  <2> HIDE DEF m
  <2>6. Len(nx.out) = m + 1 /\ \A i \in 1..(m + 1) : nx.out[i] = At(p, i)
    BY <1>7, <2>1, <2>2, <2>5, ReadsOn
  <2> QED
    BY <1>6, <2>1, <2>5, <2>6 DEF Decoded, nx, d
<1>13. CASE j = 4 * q + 4
  <2> DEFINE m == 3 * q + 2
  <2>1. /\ (j - 1) % 4 = 3 /\ j % 4 = 0 /\ (3 * (j - 1)) \div 4 = m /\ (3 * j) \div 4 = m + 1
        /\ m \in Nat /\ j - 1 = 4 * q + 3 /\ j # 1 /\ m + 1 = 3 * q + 3
    BY <1>2, <1>13
  <2>2. st.valb = -6 /\ Len(st.out) = m
    BY <2>1 DEF Decoded
  <2>3. v % 64 = 4 * (b % 16) + (c \div 64) /\ d = c % 64
    BY <1>4, <1>8, <1>13, <2>1 DEF d
  <2>4. 64 * (v % 4) + d = At(p, m + 1)
    <3>1. v % 4 = (4 * (b % 16) + (c \div 64)) % 4
      BY <1>9, <2>3
    <3> QED
      BY <1>3, <2>1, <2>3, <3>1, PutTogether DEF c
  <2>5. nx.valb = -8 /\ Adds(st.out, nx.out, At(p, m + 1))
    BY <1>6, <2>2, <2>4
  <2> HIDE DEF m
  <2>6. Len(nx.out) = m + 1 /\ \A i \in 1..(m + 1) : nx.out[i] = At(p, i)
    BY <1>7, <2>1, <2>2, <2>5, ReadsOn
  <2> QED
    BY <1>6, <2>1, <2>5, <2>6 DEF Decoded, nx, d
<1> QED
  BY <1>2, <1>10, <1>11, <1>12, <1>13 DEF nx, d

\* Decoding the digits of p yields p.
LEMMA DigitsDecoded ==
  ASSUME NEW p \in Seq(Byte), NEW t \in Seq(Byte), Len(t) = Count(Len(p)),
         \A j \in 1..Len(t) : t[j] = Digit(Value(p, j))
  PROVE  FoldLeft(DecodeDigit, Undecoded, t).out = p
<1> DEFINE n == Len(t)
<1>1. n \in Nat /\ \A j \in 1..n : j \in Nat \ {0}
  OBVIOUS
<1>2. \A j \in 1..n : t[j] \in Alphabet
  BY <1>1, Digits, ValuesAreDigits
<1>3. PICK run \in [0..n -> Decoding] :
        /\ run[0] = Undecoded
        /\ \A k \in 1..n : run[k] = DecodeDigit(run[k - 1], t[k])
        /\ FoldLeft(DecodeDigit, Undecoded, t) = run[n]
  BY <1>2, DecodeLoop
<1> DEFINE T == {k \in 0..n : ~Decoded(p, run[k], k)}
<1>4. T = {}
  <2> SUFFICES ASSUME T # {} PROVE FALSE
    OBVIOUS
  <2>1. PICK m \in T : \A l \in T : m <= l
    <3>1. T \subseteq Nat
      OBVIOUS
    <3> HIDE DEF T
    <3> QED
      BY <3>1, LeastNatural
  <2>2. m \in 0..n /\ ~Decoded(p, run[m], m)
    BY <2>1
  <2>3. Decoded(p, Undecoded, 0)
    <3>1. 0 % 4 = 0 /\ (3 * 0) \div 4 = 0
      OBVIOUS
    <3>2. Undecoded.valb = -8 /\ Undecoded.out = <<>> /\ Len(Undecoded.out) = 0
      BY DEF Undecoded
    <3> QED
      BY <3>1, <3>2 DEF Decoded
  <2>4. m # 0
    BY <1>3, <2>2, <2>3
  <2>5. m - 1 \in 0..n /\ m - 1 \notin T /\ m \in 1..n
    <3> HIDE DEF T
    <3> QED
      BY <1>1, <2>1, <2>2, <2>4
  <2>6. Decoded(p, run[m - 1], m - 1) /\ run[m - 1] \in Decoding
    BY <1>3, <2>5
  <2>7. Decoded(p, DecodeDigit(run[m - 1], Digit(Value(p, m))), m)
    BY <1>1, <2>5, <2>6, DecodedStep
  <2> QED
    BY <1>3, <2>2, <2>5, <2>7
<1>5. Decoded(p, run[n], n) /\ run[n] \in Decoding
  <2>1. n \in 0..n
    BY <1>1
  <2> QED
    BY <1>3, <1>4, <2>1
<1> DEFINE x == run[n].out
<1>6. x \in Seq(Byte) /\ Len(x) = Len(p)
  <2>1. Len(p) \in Nat /\ n = Count(Len(p))
    OBVIOUS
  <2>2. \A k \in Nat : (3 * ((4 * k + 2) \div 3)) \div 4 = k
    OBVIOUS
  <2> QED
    BY <1>5, <2>1, <2>2 DEF Decoded, Decoding, Count
<1>7. \A i \in 1..Len(p) : x[i] = p[i]
  BY <1>5, <1>6 DEF Decoded, At
<1> HIDE DEF x
<1>8. x = p
  BY <1>6, <1>7
<1> QED
  BY <1>3, <1>8 DEF x
-----------------------------------------------------------------------------
(***************************************************************************)
(* Base64 there and back: decoding stops at the first '='.                 *)
(***************************************************************************)
\* FirstIn is the place of the first such byte, or the end.
LEMMA FirstIs ==
  ASSUME NEW s \in Seq(Byte), NEW c, NEW m \in 1..(Len(s) + 1),
         m = Len(s) + 1 \/ s[m] = c, \A i \in 1..(m - 1) : s[i] # c
  PROVE  FirstIn(s, c) = m
<1> DEFINE P == {i \in DOMAIN s : s[i] = c} \cup {Len(s) + 1}
           Q(x) == x \in P /\ \A y \in P : x =< y
<1>1. Len(s) \in Nat /\ DOMAIN s = 1..Len(s) /\ P \subseteq Nat
  OBVIOUS
<1>2. m \in P
  BY <1>1
<1>3. \A y \in P : m =< y
  <2> SUFFICES ASSUME NEW y \in P, y < m PROVE FALSE
    BY <1>1
  <2> QED
    BY <1>1
<1>4. \A x : Q(x) => x = m
  BY <1>1, <1>2, <1>3
<1>5. Q(m)
  BY <1>2, <1>3
<1>6. FirstIn(s, c) = CHOOSE x : Q(x)
  BY DEF FirstIn, Min
<1> HIDE DEF Q
<1> QED
  BY <1>4, <1>5, <1>6

\* What was put together can be taken apart.
LEMMA TakenApart ==
  ASSUME NEW a \in Seq(Byte), NEW b \in Seq(Byte)
  PROVE  /\ SubSeq(a \o b, 1, Len(a)) = a
         /\ SubSeq(a \o b, Len(a) + 1, Len(a \o b)) = b
<1> DEFINE s == a \o b
           l == Len(a)
           n == Len(s)
<1>1. /\ s \in Seq(Byte) /\ n = l + Len(b) /\ l \in Nat /\ Len(b) \in Nat
      /\ \A i \in 1..l : s[i] = a[i]
      /\ \A i \in 1..Len(b) : s[l + i] = b[i]
  BY Appended
<1> HIDE DEF s, l
<1>2. /\ SubSeq(s, 1, l) \in Seq(Byte) /\ Len(SubSeq(s, 1, l)) = l
      /\ \A i \in 1..l : SubSeq(s, 1, l)[i] = s[i]
  BY <1>1
<1>3. /\ SubSeq(s, l + 1, n) \in Seq(Byte) /\ Len(SubSeq(s, l + 1, n)) = Len(b)
      /\ \A i \in 1..Len(b) : SubSeq(s, l + 1, n)[i] = s[l + i]
  BY <1>1
<1> DEFINE u == SubSeq(s, 1, l)
           v == SubSeq(s, l + 1, n)
<1>4. u \in Seq(Byte) /\ Len(u) = Len(a) /\ \A i \in 1..Len(a) : u[i] = a[i]
  BY <1>1, <1>2 DEF l
<1>5. v \in Seq(Byte) /\ Len(v) = Len(b) /\ \A i \in 1..Len(b) : v[i] = b[i]
  BY <1>1, <1>3
<1> HIDE DEF u, v
<1>6. u = a
  BY <1>4
<1>7. v = b
  BY <1>5
<1> QED
  BY <1>6, <1>7 DEF u, v, s, l

\* base64_decode undoes base64_encode, for every payload; what is between
\* consists of digits and '=', in groups of four.
THEOREM Base64ComesBack ==
  ASSUME NEW p \in Seq(Byte)
  PROVE  /\ Decode(Encode(p)) = p
         /\ Encode(p) \in Seq(Alphabet \cup {Equals})
         /\ Len(Encode(p)) % 4 = 0
<1>1. PICK digits \in Seq(Byte), pad \in Seq({Equals}) :
        /\ Encode(p) = digits \o pad /\ Len(Encode(p)) % 4 = 0
        /\ Len(digits) = Count(Len(p))
        /\ \A j \in 1..Len(digits) : digits[j] = Digit(Value(p, j))
  BY Encoded
<1> DEFINE A == Alphabet \cup {Equals}
           s == digits \o pad
           m == Len(digits) + 1
<1>2. \A j \in 1..Len(digits) : digits[j] \in Alphabet
  <2>1. \A j \in 1..Len(digits) : j \in Nat \ {0}
    OBVIOUS
  <2> QED
    BY <1>1, <2>1, Digits, ValuesAreDigits
<1>3. Equals \in Byte /\ A \subseteq Byte
  BY Digits DEF Byte, Equals
<1>4. digits \in Seq(A) /\ pad \in Seq(A)
  <2> HIDE DEF A
  <2>1. Alphabet \subseteq A /\ Equals \in A
    BY DEF A
  <2> QED
    BY <1>2, <2>1
<1>5. pad \in Seq(Byte) /\ \A i \in 1..Len(pad) : pad[i] = Equals
  BY <1>3
<1>6. s \in Seq(A)
  <2> HIDE DEF A
  <2> QED
    BY <1>4, Appended
<1>7. FirstIn(s, Equals) = m
  <2>1. /\ s \in Seq(Byte) /\ Len(s) = Len(digits) + Len(pad)
        /\ Len(digits) \in Nat /\ Len(pad) \in Nat
        /\ \A i \in 1..Len(digits) : s[i] = digits[i]
        /\ \A i \in 1..Len(pad) : s[Len(digits) + i] = pad[i]
    BY <1>5, Appended
  <2> HIDE DEF s
  <2>2. m \in 1..(Len(s) + 1) /\ m - 1 = Len(digits)
    BY <2>1
  <2>3. m = Len(s) + 1 \/ s[m] = Equals
    BY <1>5, <2>1
  <2>4. \A i \in 1..(m - 1) : s[i] # Equals
    BY <1>2, <2>1, <2>2, Digits
  <2> HIDE DEF m
  <2> QED
    BY <2>1, <2>2, <2>3, <2>4, FirstIs
<1>8. SubSeq(s, 1, FirstIn(s, Equals) - 1) = digits
  <2>1. FirstIn(s, Equals) - 1 = Len(digits)
    BY <1>7
  <2>2. SubSeq(s, 1, Len(digits)) = digits
    BY <1>5, TakenApart
  <2> HIDE DEF s
  <2> QED
    BY <2>1, <2>2
<1>9. Decode(s) = FoldLeft(DecodeDigit, Undecoded, digits).out
  <2> HIDE DEF s
  <2> QED
    BY <1>8 DEF Decode, Undecoded
<1> QED
  BY <1>1, <1>6, <1>9, DigitsDecoded
-----------------------------------------------------------------------------
(***************************************************************************)
(* What the sender of a form escapes, url_decode brings back.              *)
(***************************************************************************)
\* What url_decode makes of value from place i on, g being what it makes of
\* the places after it.
UrlAt(value, g, i) ==
  IF i > Len(value) THEN <<>>
  ELSE IF value[i] = Percent /\ i + 2 <= Len(value)
       THEN <<16 * HexOf(value[i + 1]) + HexOf(value[i + 2])>> \o g[i + 3]
  ELSE <<IF value[i] = Plus THEN Space ELSE value[i]>> \o g[i + 1]
UrlRuns(value, D, g) == g = [i \in D |-> UrlAt(value, g, i)]

\* The function that url_decode is computed with exists: it can be continued
\* to the place before.
LEMMA UrlExists ==
  ASSUME NEW T, NEW value \in Seq(T)
  PROVE  \E g : UrlRuns(value, 1..(Len(value) + 3), g)
<1> DEFINE n == Len(value)
           D(m) == (n + 4 - m)..(n + 3)
           B == {m \in 0..(n + 3) : ~ \E g : UrlRuns(value, D(m), g)}
<1>1. n \in Nat
  OBVIOUS
<1>2. B = {}
  <2> SUFFICES ASSUME B # {} PROVE FALSE
    OBVIOUS
  <2>1. PICK m \in B : \A l \in B : m <= l
    <3>1. B \subseteq Nat
      BY <1>1
    <3> HIDE DEF B
    <3> QED
      BY <3>1, LeastNatural
  <2>2. m \in 0..(n + 3) /\ ~ \E g : UrlRuns(value, D(m), g)
    BY <2>1
  <2>3. PICK k : m # 0 => UrlRuns(value, D(m - 1), k)
    <3>1. m # 0 => m - 1 \in 0..(n + 3) /\ m - 1 \notin B
      <4> HIDE DEF B
      <4> QED
        BY <1>1, <2>1, <2>2
    <3> QED
      BY <3>1
  <2> HIDE DEF B
  <2> DEFINE g == [i \in D(m) |-> UrlAt(value, k, i)]
  <2>4. \A i \in D(m - 1) : m # 0 => i \in D(m) /\ g[i] = k[i]
    <3>1. \A i \in D(m - 1) : m # 0 => i \in D(m)
      BY <1>1, <2>2
    <3>2. \A i \in D(m - 1) : m # 0 => k[i] = UrlAt(value, k, i)
      BY <2>3 DEF UrlRuns
    <3> QED
      BY <3>1, <3>2
  <2>5. ASSUME NEW i \in D(m) PROVE UrlAt(value, g, i) = UrlAt(value, k, i)
    <3>1. CASE i > n
      BY <3>1 DEF UrlAt
    <3>2. CASE ~(i > n)
      <4>1. m # 0 /\ i + 1 \in D(m - 1) /\ i + 3 \in D(m - 1)
        BY <1>1, <2>2, <3>2
      <4>2. g[i + 1] = k[i + 1] /\ g[i + 3] = k[i + 3]
        BY <2>4, <4>1
      <4> HIDE DEF g
      <4> QED
        BY <4>2 DEF UrlAt
    <3> QED
      BY <3>1, <3>2
  <2>6. UrlRuns(value, D(m), g)
    <3>1. g = [i \in D(m) |-> UrlAt(value, g, i)]
      BY <2>5
    <3> HIDE DEF g
    <3> QED
      BY <3>1 DEF UrlRuns
  <2> QED
    BY <2>2, <2>6
<1>3. n + 3 \in 0..(n + 3) /\ D(n + 3) = 1..(n + 3)
  BY <1>1
<1> QED
  BY <1>2, <1>3

LEMMA UrlDefinition ==
  ASSUME NEW T, NEW value \in Seq(T)
  PROVE  \E g : UrlRuns(value, 1..(Len(value) + 3), g) /\ UrlDecode(value) = g[1]
<1> DEFINE g == CHOOSE g : UrlRuns(value, 1..(Len(value) + 3), g)
<1>1. UrlRuns(value, 1..(Len(value) + 3), g)
  BY UrlExists
<1>2. UrlDecode(value) = g[1]
  BY DEF UrlDecode, UrlRuns, UrlAt
<1> QED
  BY <1>1, <1>2

\* Bytes that end no field of a form.
Safe == Byte \ {Ampersand}

\* The two digits of an escape, in capitals or in small letters.
Tens == {65, 97}
LEMMA Hexes ==
  \A d \in 0..15, ten \in Tens : HexDigit(d, ten) \in Safe /\ HexOf(HexDigit(d, ten)) = d
  BY DEF Tens, HexDigit, HexOf, Safe, Byte, Ampersand

LEMMA TwoHexes ==
  ASSUME NEW b \in Byte, NEW ten \in Tens
  PROVE  /\ HexDigit(b \div 16, ten) \in Safe /\ HexDigit(b % 16, ten) \in Safe
         /\ 16 * HexOf(HexDigit(b \div 16, ten)) + HexOf(HexDigit(b % 16, ten)) = b
<1>1. b \div 16 \in 0..15 /\ b % 16 \in 0..15 /\ 16 * (b \div 16) + (b % 16) = b
  BY DEF Byte
<1> QED
  BY <1>1, Hexes

\* What stands for one byte.
Piece(b, sender) ==
  IF b \in sender.escaped
  THEN <<Percent, HexDigit(b \div 16, sender.ten), HexDigit(b % 16, sender.ten)>>
  ELSE <<b>>

\* The '+', which a form reads as a space, is escaped.
Careful(sender) == Plus \in sender.escaped /\ sender.ten \in Tens

\* Unescaping gives back what was escaped, if it has no '%' and the '+' was
\* escaped.
LEMMA Unescaped ==
  ASSUME NEW x \in Seq(Safe \ {Percent}), NEW sender, Careful(sender)
  PROVE  Escape(x, sender) \in Seq(Safe) /\ UrlDecode(Escape(x, sender)) = x
<1> DEFINE n == Len(x)
           pieces == [i \in DOMAIN x |-> Piece(x[i], sender)]
           all == FlattenSeq(pieces)
<1>1. n \in Nat /\ DOMAIN x = 1..n /\ \A i \in 1..n : x[i] \in Safe \ {Percent}
  OBVIOUS
<1>2. Escape(x, sender) = all
  BY DEF Escape, Piece
<1>3. Percent \in Safe /\ Safe \subseteq Byte
  BY DEF Percent, Safe, Byte, Ampersand
<1>4. \A i \in 1..n : Piece(x[i], sender) \in Seq(Safe)
  <2> SUFFICES ASSUME NEW i \in 1..n PROVE Piece(x[i], sender) \in Seq(Safe)
    OBVIOUS
  <2>1. x[i] \in Byte /\ x[i] \in Safe
    BY <1>1, <1>3
  <2>2. HexDigit(x[i] \div 16, sender.ten) \in Safe /\ HexDigit(x[i] % 16, sender.ten) \in Safe
    BY <2>1, TwoHexes DEF Careful
  <2> QED
    BY <1>3, <2>1, <2>2 DEF Piece
<1>5. pieces \in Seq(Seq(Safe)) /\ Len(pieces) = n /\ \A i \in 1..n : pieces[i] = Piece(x[i], sender)
  BY <1>1, <1>4
<1> HIDE DEF pieces
<1>6. all \in Seq(Safe) /\ \E start : Laid(pieces, all, start)
  BY <1>5, FlattenLays
<1>7. PICK start : Laid(pieces, all, start)
  BY <1>6
<1> HIDE DEF all
<1> DEFINE L == Len(all)
<1>8. PICK g : UrlRuns(all, 1..(L + 3), g) /\ UrlDecode(all) = g[1]
  BY <1>6, UrlDefinition
<1>9. /\ start \in [1..(n + 1) -> Nat]
      /\ start[1] = 0 /\ start[n + 1] = L
      /\ \A k \in 1..n :
           /\ start[k + 1] = start[k] + Len(pieces[k]) /\ start[k + 1] <= L
           /\ \A i \in 1..Len(pieces[k]) : all[start[k] + i] = pieces[k][i]
  BY <1>5, <1>7 DEF Laid
<1>10. L \in Nat
  BY <1>6
<1>11. \A i \in 1..(L + 3) : g[i] = UrlAt(all, g, i)
  BY <1>8 DEF UrlRuns
<1> DEFINE At1(k) == start[k] + 1
           Good(k) == g[At1(k)] = SubSeq(x, k, n)
<1>12. Good(n + 1)
  <2>1. At1(n + 1) = L + 1 /\ L + 1 \in 1..(L + 3)
    BY <1>9, <1>10
  <2>2. g[L + 1] = <<>>
    <3>1. g[L + 1] = UrlAt(all, g, L + 1)
      BY <1>11, <2>1
    <3>2. L + 1 > Len(all)
      BY <1>10
    <3> QED
      BY <3>1, <3>2 DEF UrlAt
  <2>3. SubSeq(x, n + 1, n) = <<>>
    BY <1>1, SubSeqEmpty
  <2> QED
    BY <2>1, <2>2, <2>3
<1>13. ASSUME NEW k \in 1..n, Good(k + 1) PROVE Good(k)
  <2> DEFINE s == start[k]
             b == x[k]
             r == g[At1(k + 1)]
  <2>1. s \in Nat /\ k \in Nat
    BY <1>1, <1>9
  <2>2. b \in Byte /\ b # Percent
    BY <1>1, <1>3
  <2>3. SubSeq(x, k, n) = <<b>> \o SubSeq(x, k + 1, n)
    <3>1. n \in k..Len(x) /\ k \in 1..Len(x)
      BY <1>1
    <3> QED
      BY <3>1, SubSeqRecursiveFirst
  <2>4. g[s + 1] = <<b>> \o r
    <3>1. CASE b \in sender.escaped
      <4> DEFINE c == HexDigit(b \div 16, sender.ten)
                 d == HexDigit(b % 16, sender.ten)
      <4>1. pieces[k] = <<Percent, c, d>>
        BY <1>5, <3>1 DEF Piece
      <4> HIDE DEF c, d
      <4>2. /\ Len(pieces[k]) = 3 /\ pieces[k][1] = Percent
            /\ pieces[k][2] = c /\ pieces[k][3] = d
        BY <4>1
      <4>3. /\ start[k + 1] = s + 3 /\ s + 3 <= L
            /\ all[s + 1] = Percent /\ all[s + 2] = c /\ all[s + 3] = d
        <5>1. start[k + 1] = s + Len(pieces[k]) /\ start[k + 1] <= L
          BY <1>9
        <5>2. \A i \in 1..Len(pieces[k]) : all[s + i] = pieces[k][i]
          BY <1>9
        <5>3. 1 \in 1..3 /\ 2 \in 1..3 /\ 3 \in 1..3
          OBVIOUS
        <5> HIDE DEF s
        <5> QED
          BY <4>2, <5>1, <5>2, <5>3
      <4>4. At1(k + 1) = s + 4
        BY <2>1, <4>3
      <4> HIDE DEF s, b
      <4>5. g[s + 1] = UrlAt(all, g, s + 1) /\ ~(s + 1 > L) /\ (s + 1) + 2 <= L
            /\ (s + 1) + 1 = s + 2 /\ (s + 1) + 2 = s + 3 /\ (s + 1) + 3 = s + 4
        BY <1>10, <1>11, <2>1, <4>3
      <4>6. g[s + 1] = <<16 * HexOf(c) + HexOf(d)>> \o g[s + 4]
        BY <4>3, <4>5 DEF UrlAt
      <4>7. 16 * HexOf(c) + HexOf(d) = b
        BY <2>2, TwoHexes DEF c, d, Careful
      <4> QED
        BY <4>4, <4>6, <4>7
    <3>2. CASE b \notin sender.escaped
      <4>1. pieces[k] = <<b>> /\ b # Plus
        BY <1>5, <3>2 DEF Piece, Careful
      <4>2. Len(pieces[k]) = 1 /\ pieces[k][1] = b
        BY <4>1
      <4>3. start[k + 1] = s + 1 /\ s + 1 <= L /\ all[s + 1] = b
        <5>1. start[k + 1] = s + Len(pieces[k]) /\ start[k + 1] <= L
          BY <1>9
        <5>2. \A i \in 1..Len(pieces[k]) : all[s + i] = pieces[k][i]
          BY <1>9
        <5>3. 1 \in 1..1
          OBVIOUS
        <5> HIDE DEF s, b
        <5> QED
          BY <4>2, <5>1, <5>2, <5>3
      <4>4. At1(k + 1) = s + 2
        BY <2>1, <4>3
      <4> HIDE DEF s, b
      <4>5. g[s + 1] = UrlAt(all, g, s + 1) /\ ~(s + 1 > L) /\ (s + 1) + 1 = s + 2
        BY <1>10, <1>11, <2>1, <4>3
      <4>6. g[s + 1] = <<b>> \o g[s + 2]
        BY <2>2, <4>1, <4>3, <4>5 DEF UrlAt
      <4> QED
        BY <4>4, <4>6
    <3> QED
      BY <3>1, <3>2
  <2> QED
    BY <1>13, <2>3, <2>4
<1>14. Good(1)
  <2> DEFINE B == {m \in 0..n : ~Good(n + 1 - m)}
  <2>1. B = {}
    <3> SUFFICES ASSUME B # {} PROVE FALSE
      OBVIOUS
    <3>1. PICK m \in B : \A l \in B : m <= l
      <4>1. B \subseteq Nat
        OBVIOUS
      <4> HIDE DEF B
      <4> QED
        BY <4>1, LeastNatural
    <3>2. m \in 0..n /\ ~Good(n + 1 - m)
      BY <3>1
    <3>3. m # 0
      <4>1. n + 1 - 0 = n + 1
        BY <1>1
      <4> HIDE DEF Good
      <4> QED
        BY <1>12, <3>2, <4>1
    <3>4. m - 1 \in 0..n /\ m - 1 \notin B
      <4> HIDE DEF B
      <4> QED
        BY <1>1, <3>1, <3>2, <3>3
    <3>5. Good(n + 1 - (m - 1))
      BY <3>4
    <3>6. n + 1 - m \in 1..n /\ n + 1 - (m - 1) = (n + 1 - m) + 1
      BY <1>1, <3>2, <3>3
    <3> HIDE DEF Good
    <3> QED
      BY <1>13, <3>2, <3>5, <3>6
  <2>2. n \in 0..n /\ n + 1 - n = 1 /\ n \notin B
    <3> HIDE DEF B
    <3> QED
      BY <1>1, <2>1
  <2> HIDE DEF Good
  <2> QED
    BY <2>2
<1>15. g[1] = x
  <2>1. At1(1) = 1
    BY <1>9
  <2>2. SubSeq(x, 1, n) = x
    BY SubSeqFull
  <2> QED
    BY <1>14, <2>1, <2>2
<1> QED
  BY <1>2, <1>6, <1>8, <1>15
-----------------------------------------------------------------------------
(***************************************************************************)
(* The fields of a form.                                                   *)
(***************************************************************************)
Without(s, c) == \A i \in 1..Len(s) : s[i] # c

\* In s, a stands before the first c and b after it.
Cuts(s, a, c, b) ==
  /\ s \in Seq(Byte) /\ Len(s) = Len(a) + 1 + Len(b)
  /\ Len(a) \in Nat /\ Len(b) \in Nat
  /\ FirstIn(s, c) = Len(a) + 1
  /\ SubSeq(s, 1, FirstIn(s, c) - 1) = a
  /\ SubSeq(s, FirstIn(s, c) + 1, Len(s)) = b
  /\ \A i \in 1..Len(a) : s[i] = a[i]
  /\ s[Len(a) + 1] = c
  /\ \A i \in 1..Len(b) : s[Len(a) + 1 + i] = b[i]

LEMMA CutAt ==
  ASSUME NEW a \in Seq(Byte), NEW c \in Byte, NEW b \in Seq(Byte), Without(a, c)
  PROVE  Cuts(a \o <<c>> \o b, a, c, b)
<1> DEFINE u == a \o <<c>>
           v == <<c>> \o b
           s == u \o b
           l == Len(a)
<1>1. <<c>> \in Seq(Byte) /\ Len(<<c>>) = 1 /\ <<c>>[1] = c /\ l \in Nat /\ Len(b) \in Nat
  OBVIOUS
<1>2. u \in Seq(Byte) /\ Len(u) = l + 1 /\ (\A i \in 1..l : u[i] = a[i]) /\ u[l + 1] = c
  BY <1>1
<1>3. v \in Seq(Byte)
  BY <1>1
<1>4. s = a \o v
  BY <1>1, ConcatAssociative
<1>5. SubSeq(a \o v, 1, l) = a
  BY <1>3, TakenApart
<1> HIDE DEF u
<1>6. SubSeq(s, Len(u) + 1, Len(s)) = b
  BY <1>2, TakenApart
<1> HIDE DEF v, l
<1>7. /\ s \in Seq(Byte) /\ Len(s) = Len(u) + Len(b)
      /\ \A i \in 1..Len(u) : s[i] = u[i]
      /\ \A i \in 1..Len(b) : s[Len(u) + i] = b[i]
  <2>1. u \in Seq(Byte)
    BY <1>2
  <2> QED
    BY <2>1, Appended
<1> HIDE DEF s
<1>8. /\ Len(s) = l + 1 + Len(b) /\ s[l + 1] = c
      /\ \A i \in 1..l : s[i] = a[i]
      /\ \A i \in 1..Len(b) : s[l + 1 + i] = b[i]
  BY <1>1, <1>2, <1>7
<1>9. FirstIn(s, c) = l + 1
  <2> DEFINE m == l + 1
  <2>1. m \in 1..(Len(s) + 1) /\ s[m] = c
    BY <1>1, <1>8
  <2>2. \A i \in 1..(m - 1) : s[i] # c
    BY <1>1, <1>8 DEF Without, l
  <2> HIDE DEF m
  <2>3. s \in Seq(Byte) /\ (m = Len(s) + 1 \/ s[m] = c) /\ m \in 1..(Len(s) + 1)
    BY <1>7, <2>1
  <2>4. FirstIn(s, c) = m
    BY <2>2, <2>3, FirstIs
  <2> QED
    BY <2>4 DEF m
<1>10. SubSeq(s, 1, FirstIn(s, c) - 1) = a
  <2>1. FirstIn(s, c) - 1 = l
    BY <1>1, <1>9
  <2> QED
    BY <1>4, <1>5, <2>1
<1>11. SubSeq(s, FirstIn(s, c) + 1, Len(s)) = b
  <2>1. FirstIn(s, c) + 1 = Len(u) + 1
    BY <1>1, <1>2, <1>9
  <2> QED
    BY <1>6, <2>1
<1> QED
  BY <1>1, <1>7, <1>8, <1>9, <1>10, <1>11 DEF s, u, l, Cuts

\* A sequence without such a byte is taken whole.
LEMMA CutNowhere ==
  ASSUME NEW a \in Seq(Byte), NEW c, Without(a, c)
  PROVE  SubSeq(a, 1, FirstIn(a, c) - 1) = a
<1> DEFINE m == Len(a) + 1
<1>1. m \in 1..(Len(a) + 1) /\ m - 1 = Len(a) /\ m = Len(a) + 1
  OBVIOUS
<1> HIDE DEF m
<1>2. FirstIn(a, c) = m
  BY <1>1, FirstIs DEF Without
<1>3. SubSeq(a, 1, Len(a)) = a
  BY SubSeqFull
<1> QED
  BY <1>1, <1>2, <1>3

\* The fields of parse_form_urlencoded.
FieldAt(body, i) ==
  LET rest == SubSeq(body, i, Len(body))
  IN  SubSeq(rest, 1, FirstIn(rest, Ampersand) - 1)
KeyOf(field) == SubSeq(field, 1, FirstIn(field, Equals) - 1)
ValueOf(field) == SubSeq(field, FirstIn(field, Equals) + 1, Len(field))
Starts(body) ==
  {i \in DOMAIN body : /\ i = 1 \/ body[i - 1] = Ampersand
                       /\ Equals \in ToSet(FieldAt(body, i))}

LEMMA ParseFormIs ==
  ASSUME NEW body
  PROVE  ParseForm(body) =
           [key \in {KeyOf(FieldAt(body, i)) : i \in Starts(body)} |->
              UrlDecode(ValueOf(FieldAt(body,
                Max({i \in Starts(body) : KeyOf(FieldAt(body, i)) = key}))))]
  BY DEF ParseForm, KeyOf, ValueOf, FieldAt, Starts

\* A field with this key and this value.
Field(key, value) == key \o <<Equals>> \o value

LEMMA FieldRead ==
  ASSUME NEW key \in Seq(Safe), NEW value \in Seq(Safe), Without(key, Equals)
  PROVE  LET field == Field(key, value)
         IN  /\ field \in Seq(Byte) /\ Without(field, Ampersand)
             /\ KeyOf(field) = key /\ ValueOf(field) = value
             /\ Equals \in ToSet(field)
<1> DEFINE field == key \o <<Equals>> \o value
<1>1. Equals \in Safe /\ Equals \in Byte /\ Safe \subseteq Byte
  BY DEF Equals, Safe, Byte, Ampersand
<1>2. key \in Seq(Byte) /\ value \in Seq(Byte)
  BY <1>1
<1>3. field \in Seq(Safe)
  <2>1. <<Equals>> \in Seq(Safe)
    BY <1>1
  <2>2. key \o <<Equals>> \in Seq(Safe)
    BY <2>1, Appended
  <2> QED
    BY <2>2, Appended
<1>4. Cuts(field, key, Equals, value)
  BY <1>1, <1>2, CutAt
<1> HIDE DEF field
<1>5. Without(field, Ampersand)
  BY <1>3 DEF Safe, Without
<1>6. Equals \in ToSet(field)
  <2>1. Len(key) + 1 \in DOMAIN field
    BY <1>4 DEF Cuts
  <2> QED
    BY <1>4, <2>1 DEF ToSet, Cuts
<1> QED
  BY <1>4, <1>5, <1>6 DEF Field, KeyOf, ValueOf, Cuts, field

LEMMA Keys ==
  /\ TheData \in Seq(Safe) /\ TheSignature \in Seq(Safe) /\ TheData # TheSignature
  /\ Without(TheData, Equals) /\ Without(TheSignature, Equals)
<1>1. {100, 97, 116, 115, 105, 103} \subseteq Safe \ {Equals}
  BY DEF Safe, Byte, Ampersand, Equals
<1>2. TheData \in Seq(Safe \ {Equals})
  BY <1>1 DEF TheData
<1>3. TheSignature \in Seq(Safe \ {Equals})
  BY <1>1 DEF TheSignature
<1>4. Len(TheData) = 4 /\ Len(TheSignature) = 3
  BY DEF TheData, TheSignature
<1>5. TheData # TheSignature
  BY <1>4
<1> HIDE DEF Safe, Equals
<1> QED
  BY <1>2, <1>3, <1>5 DEF Without

\* A form with the two fields is parsed into them.
LEMMA FormParsed ==
  ASSUME NEW e \in Seq(Safe), NEW f \in Seq(Safe),
         NEW body, body = Field(TheData, e) \o <<Ampersand>> \o Field(TheSignature, f)
  PROVE  /\ DOMAIN ParseForm(body) = {TheData, TheSignature}
         /\ ParseForm(body)[TheData] = UrlDecode(e)
         /\ ParseForm(body)[TheSignature] = UrlDecode(f)
<1> DEFINE a == Field(TheData, e)
           b == Field(TheSignature, f)
           l == Len(a)
           k == l + 2
<1>1. /\ a \in Seq(Byte) /\ Without(a, Ampersand)
      /\ KeyOf(a) = TheData /\ ValueOf(a) = e /\ Equals \in ToSet(a)
  BY Keys, FieldRead
<1>2. /\ b \in Seq(Byte) /\ Without(b, Ampersand)
      /\ KeyOf(b) = TheSignature /\ ValueOf(b) = f /\ Equals \in ToSet(b)
  BY Keys, FieldRead
<1>3. Ampersand \in Byte
  BY DEF Ampersand, Byte
<1> HIDE DEF a, b
<1>4. body = a \o <<Ampersand>> \o b
  BY DEF a, b
<1>5. /\ body \in Seq(Byte) /\ Len(body) = l + 1 + Len(b)
      /\ l \in Nat /\ Len(b) \in Nat
      /\ FirstIn(body, Ampersand) = l + 1
      /\ SubSeq(body, 1, FirstIn(body, Ampersand) - 1) = a
      /\ SubSeq(body, FirstIn(body, Ampersand) + 1, Len(body)) = b
      /\ \A i \in 1..l : body[i] = a[i]
      /\ body[l + 1] = Ampersand
      /\ \A i \in 1..Len(b) : body[l + 1 + i] = b[i]
  <2>1. Cuts(body, a, Ampersand, b)
    BY <1>1, <1>2, <1>3, <1>4, CutAt
  <2> QED
    BY <2>1 DEF Cuts
<1>6. FieldAt(body, 1) = a
  <2>1. SubSeq(body, 1, Len(body)) = body
    BY <1>5, SubSeqFull
  <2> QED
    BY <1>5, <2>1 DEF FieldAt
<1>7. FieldAt(body, k) = b
  <2>1. k = FirstIn(body, Ampersand) + 1
    BY <1>5
  <2>2. SubSeq(body, k, Len(body)) = b
    BY <1>5, <2>1
  <2>3. SubSeq(b, 1, FirstIn(b, Ampersand) - 1) = b
    BY <1>2, CutNowhere
  <2> QED
    BY <2>2, <2>3 DEF FieldAt
<1>8. k \in DOMAIN body /\ 1 \in DOMAIN body /\ k # 1 /\ k - 1 = l + 1
  <2>1. Len(b) # 0
    <3>1. DOMAIN b # {}
      BY <1>2 DEF ToSet
    <3> QED
      BY <1>2, <3>1
  <2> QED
    BY <1>5, <2>1
<1>9. \A i \in DOMAIN body : i # 1 /\ i # k => body[i - 1] # Ampersand
  <2> SUFFICES ASSUME NEW i \in DOMAIN body, i # 1, i # k PROVE body[i - 1] # Ampersand
    OBVIOUS
  <2>1. i - 1 \in 1..l \/ i - 1 - (l + 1) \in 1..Len(b)
    BY <1>5
  <2>2. i - 1 = l + 1 + (i - 1 - (l + 1))
    BY <1>5
  <2>3. CASE i - 1 \in 1..l
    <3>1. body[i - 1] = a[i - 1] /\ a[i - 1] # Ampersand
      BY <1>1, <1>5, <2>3 DEF Without
    <3> QED
      BY <3>1
  <2>4. CASE i - 1 - (l + 1) \in 1..Len(b)
    <3> DEFINE j == i - 1 - (l + 1)
    <3>1. j \in 1..Len(b) /\ i - 1 = l + 1 + j
      BY <2>2, <2>4
    <3> HIDE DEF j
    <3>2. body[l + 1 + j] = b[j] /\ b[j] # Ampersand
      BY <1>2, <1>5, <3>1 DEF Without
    <3> QED
      BY <3>1, <3>2
  <2> QED
    BY <2>1, <2>3, <2>4
<1> HIDE DEF k
<1>10. Starts(body) = {1, k}
  <2>1. body[k - 1] = Ampersand
    BY <1>5, <1>8
  <2>2. Equals \in ToSet(FieldAt(body, 1)) /\ Equals \in ToSet(FieldAt(body, k))
    BY <1>1, <1>2, <1>6, <1>7
  <2> QED
    BY <1>8, <1>9, <2>1, <2>2 DEF Starts
<1>11. KeyOf(FieldAt(body, 1)) = TheData /\ KeyOf(FieldAt(body, k)) = TheSignature
  BY <1>1, <1>2, <1>6, <1>7
<1>12. TheData # TheSignature
  BY Keys
<1>13. {KeyOf(FieldAt(body, i)) : i \in Starts(body)} = {TheData, TheSignature}
  BY <1>10, <1>11
<1>14. /\ {i \in Starts(body) : KeyOf(FieldAt(body, i)) = TheData} = {1}
       /\ {i \in Starts(body) : KeyOf(FieldAt(body, i)) = TheSignature} = {k}
  BY <1>8, <1>10, <1>11, <1>12
<1>15. Max({1}) = 1 /\ Max({k}) = k
  <2>1. k \in Nat
    BY <1>5 DEF k
  <2>2. \A n \in Nat : Max({n}) = n
    <3> SUFFICES ASSUME NEW n \in Nat PROVE Max({n}) = n
      OBVIOUS
    <3>1. n >= n
      OBVIOUS
    <3> QED
      BY <3>1 DEF Max
  <2> QED
    BY <2>1, <2>2
<1>16. /\ DOMAIN ParseForm(body) = {TheData, TheSignature}
       /\ \A key \in {TheData, TheSignature} :
            ParseForm(body)[key] =
              UrlDecode(ValueOf(FieldAt(body,
                Max({i \in Starts(body) : KeyOf(FieldAt(body, i)) = key}))))
  BY <1>13, ParseFormIs
<1>17. ParseForm(body)[TheData] = UrlDecode(ValueOf(FieldAt(body, 1)))
  BY <1>14, <1>15, <1>16
<1>18. ParseForm(body)[TheSignature] = UrlDecode(ValueOf(FieldAt(body, k)))
  BY <1>14, <1>15, <1>16
<1> QED
  BY <1>1, <1>2, <1>6, <1>7, <1>16, <1>17, <1>18

\* The form that LiqPay sends consists of the two fields.
LEMMA FormHasFields ==
  ASSUME NEW d, NEW g, NEW sender,
         Escape(d, sender) \in Seq(Safe), Escape(g, sender) \in Seq(Safe)
  PROVE  FormOf(d, g, sender) = Field(TheData, Escape(d, sender)) \o <<Ampersand>>
                                   \o Field(TheSignature, Escape(g, sender))
<1> DEFINE e == Escape(d, sender)
           f == Escape(g, sender)
           a == TheData \o <<Equals>> \o e \o <<Ampersand>>
<1>1. <<Equals>> \in Seq(Byte) /\ <<Ampersand>> \in Seq(Byte)
  BY DEF Equals, Ampersand, Byte
<1>2. Safe \subseteq Byte
  BY DEF Safe
<1>3. e \in Seq(Byte) /\ f \in Seq(Byte) /\ TheData \in Seq(Byte) /\ TheSignature \in Seq(Byte)
  BY <1>2, Keys, SeqMonotonic
<1>4. FormOf(d, g, sender) = ((a \o TheSignature) \o <<Equals>>) \o f
  BY DEF FormOf
<1> HIDE DEF e, f
<1>5. a \in Seq(Byte)
  <2>1. TheData \o <<Equals>> \in Seq(Byte)
    BY <1>1, <1>3, Appended
  <2>2. TheData \o <<Equals>> \o e \in Seq(Byte)
    BY <1>3, <2>1, Appended
  <2> QED
    BY <1>1, <2>2, Appended
<1> HIDE DEF a
<1>6. (a \o TheSignature) \o <<Equals>> = a \o (TheSignature \o <<Equals>>)
  BY <1>1, <1>3, <1>5, ConcatAssociative
<1>7. TheSignature \o <<Equals>> \in Seq(Byte)
  BY <1>1, <1>3, Appended
<1>8. (a \o (TheSignature \o <<Equals>>)) \o f = a \o ((TheSignature \o <<Equals>>) \o f)
  <2> DEFINE t == TheSignature \o <<Equals>>
  <2>1. t \in Seq(Byte)
    BY <1>7
  <2> HIDE DEF t
  <2>2. a \in Seq(Byte) /\ f \in Seq(Byte)
    BY <1>3, <1>5
  <2>3. (a \o t) \o f = a \o (t \o f)
    BY <2>1, <2>2, ConcatAssociative
  <2> QED
    BY <2>3 DEF t
<1> QED
  BY <1>4, <1>6, <1>8 DEF Field, a, e, f

-----------------------------------------------------------------------------
\* A payload of any bytes and of any length, in a form with a signature, comes
\* out as it was and so does the signature, if the sender escapes the '+' and
\* whatever else he likes.
THEOREM AnyPayloadSurvives ==
  ASSUME NEW payloads, payloads \subseteq Seq(Byte),
         NEW senders, \A sender \in senders : Careful(sender)
  PROVE  SurvivesTheForm(payloads, senders)
<1> SUFFICES ASSUME NEW payload \in payloads, NEW sender \in senders
             PROVE  LET data == Encode(payload)
                        fields == ParseForm(FormOf(data, data, sender))
                    IN  /\ DOMAIN fields = {TheData, TheSignature}
                        /\ fields[TheData] = data /\ fields[TheSignature] = data
                        /\ Decode(fields[TheData]) = payload
                        /\ Len(data) % 4 = 0
  BY DEF SurvivesTheForm
<1> DEFINE data == Encode(payload)
           body == FormOf(data, data, sender)
           fields == ParseForm(body)
<1>1. payload \in Seq(Byte)
  OBVIOUS
<1>2. /\ Decode(data) = payload /\ data \in Seq(Alphabet \cup {Equals})
      /\ Len(data) % 4 = 0
  BY <1>1, Base64ComesBack
<1> HIDE DEF data
<1>3. data \in Seq(Safe \ {Percent})
  <2>1. Alphabet \cup {Equals} \subseteq Safe \ {Percent}
    <3>1. Equals \in Safe \ {Percent}
      BY DEF Equals, Safe, Byte, Ampersand, Percent
    <3> QED
      BY <3>1, Digits DEF Safe
  <2> QED
    BY <1>2, <2>1, SeqMonotonic
<1>4. Escape(data, sender) \in Seq(Safe) /\ UrlDecode(Escape(data, sender)) = data
  BY <1>3, Unescaped
<1>5. body = Field(TheData, Escape(data, sender)) \o <<Ampersand>>
               \o Field(TheSignature, Escape(data, sender))
  BY <1>4, FormHasFields
<1> HIDE DEF body
<1>6. /\ DOMAIN fields = {TheData, TheSignature}
      /\ fields[TheData] = UrlDecode(Escape(data, sender))
      /\ fields[TheSignature] = UrlDecode(Escape(data, sender))
  BY <1>4, <1>5, FormParsed
<1> QED
  BY <1>2, <1>4, <1>6 DEF data, body

\* In particular the payloads and senders of the run: LiqPay's report reaches
\* payment_callback as LiqPay signed it.
THEOREM ReportComesThrough == Spec => []ReportSurvivesItsForm
<1>1. Payloads \subseteq Seq(Byte)
  <2>1. {0, 251, 255} \subseteq Byte
    BY DEF Byte
  <2>2. \A m \in 0..6 : [1..m -> {0, 251, 255}] \subseteq Seq({0, 251, 255})
    OBVIOUS
  <2>3. Payloads \subseteq Seq({0, 251, 255})
    BY <2>2 DEF Payloads, BoundedSeq, SeqOf
  <2> QED
    BY <2>1, <2>3, SeqMonotonic
<1>2. \A sender \in Senders : Careful(sender)
  BY DEF Senders, Careful, Tens
<1>3. SurvivesTheForm(Payloads, Senders)
  BY <1>1, <1>2, AnyPayloadSurvives
<1>4. ReportSurvivesItsForm
  BY <1>3 DEF ReportSurvivesItsForm
<1> QED
  BY <1>4, PTL
=============================================================================
