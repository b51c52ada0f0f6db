-------------------------- MODULE LoraFramesProofs ---------------------------
(****************************************************************************)
(* Proofs about the frames of the radio link, for every size of the buffer, *)
(* of the payloads and of the numbers, and for everything the ground sends. *)
(*                                                                          *)
(* What the buffer holds and what is still to come make one frame: from     *)
(* this, that a frame is understood follows at its last byte, however many  *)
(* windows it took.                                                         *)
(****************************************************************************)
EXTENDS LoraFrames, NaturalsInduction, WellFoundedInduction, SequenceTheorems, TLAPS

------------------------------------------------------------------------------
(* Numbers *)

Byte == 0..255
Word == {n \in Nat : n < 65536}

LEMMA ByteIs == \A b : b \in Byte <=> b \in Nat /\ b =< 255
  BY DEF Byte

\* Every set of numbers that is not empty has a least element.
LEMMA LeastOf ==
    ASSUME NEW S, S \subseteq Nat, S # {}
    PROVE  \E n \in S : \A m \in S : n =< m
<1> DEFINE R == {r \in Nat \X Nat : r[1] < r[2]}
<1>1. IsWellFoundedOn(R, Nat)
  <2>1. OpToRel(<, Nat) = R BY DEF OpToRel
  <2> HIDE DEF R
  <2> QED BY <2>1, NatLessThanWellFounded
<1>2. PICK n \in S : \A m \in S : ~ (<<m, n>> \in R)
  <2> HIDE DEF R
  <2> QED BY <1>1, WFMin
<1>3. \A m \in S : ~ (m < n) BY <1>2
<1>4. n \in Nat /\ \A m \in S : m \in Nat OBVIOUS
<1>5. \A m \in S : n =< m
  <2> HIDE DEF R
  <2> QED BY <1>3, <1>4
<1> QED BY <1>5

\* An induction: a property of 0 that passes from n to n + 1, here as the
\* set of the numbers up to k that have it.
LEMMA AllUpTo ==
    ASSUME NEW k \in Nat, NEW S, 0 \in S,
           \A n \in 0..k : n \in S /\ n + 1 =< k => n + 1 \in S
    PROVE  0..k \subseteq S
<1> SUFFICES ASSUME ~ (0..k \subseteq S) PROVE FALSE OBVIOUS
<1>1. (0..k) \ S # {} /\ (0..k) \ S \subseteq Nat OBVIOUS
<1>2. PICK m \in (0..k) \ S : \A n \in (0..k) \ S : m =< n BY <1>1, LeastOf
<1>3. m # 0 /\ m \in 0..k BY <1>2
<1>4. m - 1 \in 0..k /\ (m - 1) + 1 = m BY <1>3
<1>5. m - 1 \in S
  <2> SUFFICES ASSUME m - 1 \notin S PROVE FALSE OBVIOUS
  <2>1. m =< m - 1 BY <1>2, <1>4
  <2> QED BY <1>3, <2>1
<1>6. m \in S BY <1>3, <1>4, <1>5
<1> QED BY <1>2, <1>6

\* The checksum after the first n bytes.
Accumulate(byte, crc) == (crc * 31 + byte + 1) % 65536
IsCrc(f, bytes, n) ==
    f = [i \in 0..n |-> IF i = 0 THEN 65535 ELSE Accumulate(bytes[i], f[i - 1])]

LEMMA AccumulateType ==
    ASSUME NEW b \in Nat, NEW c \in Nat PROVE Accumulate(b, c) \in Word
<1> DEFINE x == c * 31 + b + 1
<1>1. x \in Nat OBVIOUS
<1>2. x % 65536 \in Word
  <2> HIDE DEF x
  <2> QED BY <1>1 DEF Word
<1>3. Accumulate(b, c) = x % 65536 BY DEF Accumulate
<1> HIDE DEF x
<1> QED BY <1>2, <1>3

LEMMA CrcExists ==
    ASSUME NEW bytes, NEW k \in Nat PROVE \E f : IsCrc(f, bytes, k)
<1> DEFINE S == {n \in 0..k : \E f : IsCrc(f, bytes, n)}
<1>1. 0 \in S
  <2> DEFINE f == [i \in 0..0 |-> 65535]
  <2>1. IsCrc(f, bytes, 0) BY DEF IsCrc
  <2> QED BY <2>1
<1>2. ASSUME NEW n \in 0..k, n \in S, n + 1 =< k PROVE n + 1 \in S
  <2>1. PICK f : IsCrc(f, bytes, n) BY <1>2
  <2>2. PICK g : g = [i \in 0..(n + 1) |->
                        IF i = n + 1 THEN Accumulate(bytes[n + 1], f[n]) ELSE f[i]]
    OBVIOUS
  <2>3. ASSUME NEW i \in 0..(n + 1)
        PROVE  g[i] = IF i = 0 THEN 65535 ELSE Accumulate(bytes[i], g[i - 1])
    <3>1. CASE i = 0
      <4>1. 0 \in 0..n /\ 0 # n + 1 OBVIOUS
      <4>2. g[0] = f[0] BY <2>2, <4>1
      <4>3. f[0] = 65535 BY <2>1, <4>1 DEF IsCrc
      <4> QED BY <3>1, <4>2, <4>3
    <3>2. CASE i = n + 1
      <4>1. i - 1 = n /\ n \in 0..(n + 1) /\ n # n + 1 /\ i # 0 BY <3>2
      <4>2. g[n] = f[n] BY <2>2, <4>1
      <4>3. g[i] = Accumulate(bytes[i], f[n]) BY <2>2, <3>2
      <4> QED BY <4>1, <4>2, <4>3
    <3>3. CASE i # 0 /\ i # n + 1
      <4>1. i \in 0..n /\ i - 1 \in 0..(n + 1) /\ i - 1 # n + 1 BY <3>3
      <4>2. g[i] = f[i] /\ g[i - 1] = f[i - 1] BY <2>2, <3>3, <4>1
      <4>3. f[i] = Accumulate(bytes[i], f[i - 1]) BY <2>1, <3>3, <4>1 DEF IsCrc
      <4> QED BY <3>3, <4>2, <4>3
    <3> QED BY <3>1, <3>2, <3>3
  <2>4. IsCrc(g, bytes, n + 1) BY <2>2, <2>3 DEF IsCrc
  <2>5. n + 1 \in 0..k BY <1>2
  <2> QED BY <2>4, <2>5
<1>3. k \in 0..k OBVIOUS
<1>4. k \in S
  <2> HIDE DEF S
  <2> QED BY <1>1, <1>2, <1>3, AllUpTo
<1> QED BY <1>4

LEMMA CrcRange ==
    ASSUME NEW k \in Nat, NEW bytes, \A i \in 1..k : bytes[i] \in Nat,
           NEW f, IsCrc(f, bytes, k)
    PROVE  f[k] \in Word
<1>1. PICK S : S = {n \in 0..k : f[n] \in Word} OBVIOUS
<1>2. 0 \in S
  <2>1. 0 \in 0..k OBVIOUS
  <2>2. f[0] = 65535 BY <2>1 DEF IsCrc
  <2>3. f[0] \in Word BY <2>2 DEF Word
  <2> QED BY <1>1, <2>1, <2>3
<1>3. ASSUME NEW n \in 0..k, n \in S, n + 1 =< k PROVE n + 1 \in S
  <2>1. n + 1 \in 1..k /\ n + 1 \in 0..k /\ n + 1 # 0 /\ (n + 1) - 1 = n BY <1>3
  <2>2. f[n + 1] = Accumulate(bytes[n + 1], f[n]) BY <2>1 DEF IsCrc
  <2>3. bytes[n + 1] \in Nat BY <2>1
  <2>4. f[n] \in Nat BY <1>1, <1>3 DEF Word
  <2>5. f[n + 1] \in Word BY <2>2, <2>3, <2>4, AccumulateType
  <2> QED BY <1>1, <2>1, <2>5
<1>4. k \in 0..k OBVIOUS
<1>5. k \in S BY <1>2, <1>3, <1>4, AllUpTo
<1> QED BY <1>1, <1>5

LEMMA CrcType == ASSUME NEW bytes \in Seq(Nat) PROVE Crc16(bytes) \in Word
<1>1. PICK k : k = Len(bytes) OBVIOUS
<1>2. k \in Nat /\ \A i \in 1..k : bytes[i] \in Nat BY <1>1
<1>3. \E f : IsCrc(f, bytes, k) BY <1>2, CrcExists
<1>4. PICK g : g = CHOOSE f : IsCrc(f, bytes, k) OBVIOUS
<1>5. IsCrc(g, bytes, k) BY <1>3, <1>4
<1>6. Crc16(bytes) = g[k] BY <1>1, <1>4 DEF Crc16, IsCrc, Accumulate
<1> QED BY <1>2, <1>5, <1>6, CrcRange

------------------------------------------------------------------------------
(* What the ground sends *)

LEMMA Joined == ASSUME NEW S, NEW s \in Seq(S), NEW t \in Seq(S) PROVE s \o t \in Seq(S)
  OBVIOUS

LEMMA CommandIs ==
    ASSUME NEW c \in Command
    PROVE  /\ c.v2 \in BOOLEAN /\ c.payload \in Seq(Byte) /\ c.payload \in Seq(Nat)
           /\ Len(c.payload) \in Nat
           /\ \A n \in {c.version, c.class, c.seq, c.flags} : n \in Nat /\ n =< 9
<1>1. c.payload \in Seq(Byte) /\ c.v2 \in BOOLEAN BY DEF Command, Byte
<1>2. \A n \in {c.version, c.class, c.seq, c.flags} : n \in Nat /\ n =< 9
  BY DEF Command
<1>3. c.payload \in Seq(Nat)
  <2>1. \A i \in 1..Len(c.payload) : c.payload[i] \in Nat BY <1>1, ByteIs
  <2> QED BY <1>1, <2>1
<1> QED BY <1>1, <1>2, <1>3

\* The two bytes of a number.
LEMMA TwoBytes ==
    ASSUME NEW v \in Nat
    PROVE  /\ PutU16LE(v) \in Seq(Nat) /\ Len(PutU16LE(v)) = 2
           /\ PutU16LE(v)[1] = v % 256 /\ PutU16LE(v)[2] = v \div 256
           /\ (v % 256) + 256 * (v \div 256) = v
<1>1. v % 256 \in Nat /\ v \div 256 \in Nat /\ (v % 256) + 256 * (v \div 256) = v
  OBVIOUS
<1> QED BY <1>1 DEF PutU16LE

\* What is read back is what was written.
LEMMA ReadBack ==
    ASSUME NEW v \in Nat, NEW p, p = PutU16LE(v)
    PROVE  p[1] + 256 * p[2] = v
<1>1. p[1] = v % 256 /\ p[2] = v \div 256 BY TwoBytes, Zenon
<1>2. (v % 256) + 256 * (v \div 256) = v OBVIOUS
<1> QED BY <1>1, <1>2, Zenon

LEMMA DigitIs == \A n \in Nat : n =< 15 => Digit(n) \in Nat /\ Digit(n) >= 48 /\ Digit(n) =< 63
  BY DEF Digit

LEMMA HalvesOf ==
    ASSUME NEW b \in Byte
    PROVE  /\ b \div 16 \in Nat /\ b \div 16 =< 15 /\ b % 16 \in Nat /\ b % 16 =< 15
           /\ 16 * (b \div 16) + (b % 16) = b
<1>1. b \in Nat /\ b =< 255 BY ByteIs
<1>2. b \div 16 \in Nat /\ b \div 16 =< 15 BY <1>1
<1>3. b % 16 \in Nat /\ b % 16 =< 15 BY <1>1
<1>4. 16 * (b \div 16) + (b % 16) = b BY <1>1
<1> QED BY <1>2, <1>3, <1>4

\* The digits of a payload, two for each byte.
LEMMA HexIs ==
    ASSUME NEW s \in Seq(Byte)
    PROVE  /\ Hex(s) \in Seq(Nat) /\ Len(Hex(s)) = 2 * Len(s)
           /\ \A i \in 1..(2 * Len(s)) : Hex(s)[i] >= 48 /\ Hex(s)[i] =< 63
           /\ \A i \in 1..Len(s) :
                /\ Hex(s)[2 * i - 1] = 48 + (s[i] \div 16)
                /\ Hex(s)[2 * i] = 48 + (s[i] % 16)
<1>1. PICK n \in Nat : n = Len(s) OBVIOUS
<1>2. PICK h : h = [i \in 1..(2 * Len(s)) |->
                     Digit(IF i % 2 = 1 THEN s[(i + 1) \div 2] \div 16
                                        ELSE s[(i + 1) \div 2] % 16)]
  OBVIOUS
<1>3. Hex(s) = h BY <1>2, Zenon DEF Hex
<1>7. ASSUME NEW i \in 1..(2 * n), NEW k, k = (i + 1) \div 2
      PROVE  h[i] = IF i % 2 = 1 THEN 48 + (s[k] \div 16) ELSE 48 + (s[k] % 16)
  <2>1. h[i] = Digit(IF i % 2 = 1 THEN s[k] \div 16 ELSE s[k] % 16) BY <1>1, <1>2, <1>7
  <2> QED BY <2>1 DEF Digit
<1>4. ASSUME NEW i \in 1..(2 * n) PROVE h[i] \in Nat /\ h[i] >= 48 /\ h[i] =< 63
  <2>1. PICK k \in Nat : k = (i + 1) \div 2 BY <1>4
  <2>2. k \in 1..n BY <2>1, <1>1, <1>4
  <2>3. s[k] \in Byte BY <1>1, <2>2
  <2>4. h[i] = IF i % 2 = 1 THEN 48 + (s[k] \div 16) ELSE 48 + (s[k] % 16) BY <1>7, <2>1
  <2>5. PICK x, y : x = s[k] \div 16 /\ y = s[k] % 16 OBVIOUS
  <2>6. x \in Nat /\ x =< 15 /\ y \in Nat /\ y =< 15 BY <2>3, <2>5, HalvesOf
  <2> QED BY <2>4, <2>5, <2>6
<1>5. ASSUME NEW i \in 1..n
      PROVE  h[2 * i - 1] = 48 + (s[i] \div 16) /\ h[2 * i] = 48 + (s[i] % 16)
  <2>1. /\ 2 * i - 1 \in 1..(2 * n) /\ 2 * i \in 1..(2 * n)
        /\ (2 * i - 1) % 2 = 1 /\ (2 * i) % 2 = 0
        /\ ((2 * i - 1) + 1) \div 2 = i /\ (2 * i + 1) \div 2 = i
    BY <1>1
  <2> QED BY <1>7, <2>1
<1>6. h \in Seq(Nat) /\ Len(h) = 2 * n
  <2>3. \A i \in 1..(2 * Len(s)) : h[i] \in Nat BY <1>1, <1>4
  <2>4. h \in [1..(2 * Len(s)) -> Nat]
    <3> HIDE <1>1
    <3> QED BY <1>2, <2>3, Zenon
  <2>1. h \in [1..(2 * n) -> Nat] BY <1>1, <2>4
  <2>2. 2 * n \in Nat OBVIOUS
  <2> QED BY <2>1, <2>2
<1> QED BY <1>1, <1>3, <1>4, <1>5, <1>6

\* The four digits of a checksum.
LEMMA HexCrcIs ==
    ASSUME NEW v \in Word
    PROVE  /\ HexCrc(v) \in Seq(Nat) /\ Len(HexCrc(v)) = 4
           /\ \A i \in 1..4 : HexCrc(v)[i] >= 48 /\ HexCrc(v)[i] =< 63
<1>0. v \in Nat /\ v < 65536 BY DEF Word
<1>1. v \div 4096 \in Nat /\ v \div 4096 =< 15 BY <1>0
<1>2. (v \div 256) % 16 \in Nat /\ (v \div 256) % 16 =< 15
  <2>1. PICK n \in Nat : n = v \div 256 BY <1>0
  <2> QED BY <2>1
<1>3. (v \div 16) % 16 \in Nat /\ (v \div 16) % 16 =< 15
  <2>1. PICK n \in Nat : n = v \div 16 BY <1>0
  <2> QED BY <2>1
<1>4. v % 16 \in Nat /\ v % 16 =< 15 BY <1>0
<1>5. \A n \in {v \div 4096, (v \div 256) % 16, (v \div 16) % 16, v % 16} :
        Digit(n) \in Nat /\ Digit(n) >= 48 /\ Digit(n) =< 63
  BY <1>1, <1>2, <1>3, <1>4, DigitIs
<1>6. PICK a \in Nat, b \in Nat, d \in Nat, e \in Nat :
        /\ HexCrc(v) = <<a, b, d, e>>
        /\ \A n \in {a, b, d, e} : n >= 48 /\ n =< 63
  BY <1>5 DEF HexCrc
<1> QED BY <1>6
------------------------------------------------------------------------------
(* Frames *)

\* F is s, of length m, and then t, of length n.
Glued(F, s, m, t, n) ==
    /\ F \in Seq(Nat) /\ Len(F) = m + n
    /\ \A i \in Nat : 1 =< i /\ i =< m => F[i] = s[i]
    /\ \A i \in Nat : 1 =< i /\ i =< n => F[m + i] = t[i]
    /\ SubSeq(F, 1, m) = s /\ SubSeq(F, m + 1, m + n) = t

\* The part of s that t follows, from s[k + 1] on, is t.
LEMMA PartFrom ==
    ASSUME NEW s, NEW t \in Seq(Nat), NEW n \in Nat, Len(t) = n, NEW k \in Nat,
           NEW a \in Int, NEW b \in Int, a = k + 1, b = k + n,
           \A i \in Nat : 1 =< i /\ i =< n => s[k + i] = t[i]
    PROVE  SubSeq(s, a, b) = t
<1>1. ASSUME NEW i \in a..b PROVE s[i] \in Nat
  <2>1. PICK j \in Nat : j = i - k /\ 1 =< j /\ j =< n /\ i = k + j
    BY i - k \in Nat
  <2>2. t[j] \in Nat
    <3>1. j \in 1..Len(t) BY <2>1
    <3> QED BY <3>1, ElementOfSeq
  <2> QED BY <2>1, <2>2
<1>2. PICK u : u = SubSeq(s, a, b) OBVIOUS
<1>3. u \in Seq(Nat) BY <1>1, <1>2, SubSeqProperties
<1>4. Len(u) = IF a =< b THEN b - a + 1 ELSE 0 BY <1>1, <1>2, SubSeqProperties
<1>5. \A i \in 1..(b - a + 1) : u[i] = s[a + i - 1] BY <1>1, <1>2, SubSeqProperties
<1>6. Len(u) = n BY <1>4
<1>7. ASSUME NEW i \in 1..n PROVE u[i] = t[i]
  <2>1. i \in 1..(b - a + 1) /\ a + i - 1 = k + i /\ i \in Nat /\ 1 =< i /\ i =< n OBVIOUS
  <2>2. u[i] = s[k + i] BY <1>5, <2>1
  <2> QED BY <2>1, <2>2
<1> QED BY <1>2, <1>3, <1>6, <1>7, SeqEqual

LEMMA Glue ==
    ASSUME NEW s \in Seq(Nat), NEW t \in Seq(Nat), NEW F, F = s \o t,
           NEW m \in Nat, Len(s) = m, NEW n \in Nat, Len(t) = n
    PROVE  Glued(F, s, m, t, n)
<1>1. m \in Nat /\ n \in Nat /\ F \in Seq(Nat) /\ Len(F) = m + n BY ConcatProperties
<1>2. \A i \in 1..(m + n) : F[i] = IF i =< m THEN s[i] ELSE t[i - m]
  BY ConcatProperties
<1>3. \A i \in 1..m : F[i] = s[i] BY <1>1, <1>2
<1>4. ASSUME NEW i \in 1..n PROVE F[m + i] = t[i]
  <2>1. m + i \in 1..(m + n) /\ ~ (m + i =< m) /\ (m + i) - m = i BY <1>1
  <2> QED BY <1>2, <2>1
<1>5. \A i \in 1..(m + n) : F[i] \in Nat BY <1>1
<1>6. \A i \in Nat : 1 =< i /\ i =< m => F[i] = s[i] BY <1>3
<1>7. \A i \in Nat : 1 =< i /\ i =< n => F[m + i] = t[i] BY <1>4
<1>8. SubSeq(F, 1, m) = s
  <2>1. \A i \in Nat : 1 =< i /\ i =< m => F[0 + i] = s[i] BY <1>6
  <2>2. 0 \in Nat /\ 1 \in Int /\ m \in Int /\ 1 = 0 + 1 /\ m = 0 + m OBVIOUS
  <2> QED BY <2>1, <2>2, PartFrom
<1>9. SubSeq(F, m + 1, m + n) = t
  <2>1. PICK a \in Int, b \in Int : a = m + 1 /\ b = m + n BY <1>1
  <2>2. SubSeq(F, a, b) = t BY <1>7, <2>1, PartFrom
  <2> QED BY <2>1, <2>2, Zenon
<1> QED BY <1>1, <1>6, <1>7, <1>8, <1>9, Zenon DEF Glued

\* An acknowledgement in binary.
LEMMA Ack2Is ==
    ASSUME NEW v \in Nat, NEW F, F = Ack2(v)
    PROVE  /\ F \in Seq(Nat) /\ Len(F) = 5 /\ F[1] = ACK2_MAGIC
           /\ GetU16LE(F, 2) = v % U16
<1>f. 1 \in Nat /\ 2 \in Nat /\ 3 \in Nat OBVIOUS
<1>1. PICK w \in Nat : w = v % U16 BY NumbersAssumption
<1>2. PICK p : p = PutU16LE(w) /\ p \in Seq(Nat) /\ Len(p) = 2 BY <1>1, TwoBytes
<1>3. PICK b : b = <<ACK2_MAGIC>> \o p OBVIOUS
<1>m. <<ACK2_MAGIC>> \in Seq(Nat) /\ Len(<<ACK2_MAGIC>>) = 1 /\ <<ACK2_MAGIC>>[1] = ACK2_MAGIC
  BY DEF ACK2_MAGIC
<1>4. /\ b \in Seq(Nat) /\ Len(b) = 3 /\ b[1] = ACK2_MAGIC /\ b[2] = p[1] /\ b[3] = p[2]
  <2>1. PICK a : a = <<ACK2_MAGIC>> OBVIOUS
  <2>2. /\ b \in Seq(Nat) /\ Len(b) = 1 + 2 /\ \A i \in Nat : 1 =< i /\ i =< 1 => b[i] = a[i]
        /\ \A i \in Nat : 1 =< i /\ i =< 2 => b[1 + i] = p[i]
    <3>1. Glued(b, a, 1, p, 2)
      <4>1. a \in Seq(Nat) /\ Len(a) = 1 /\ b = a \o p BY <1>3, <1>m, <2>1
      <4> QED BY <1>2, <4>1, <1>f, Glue, Zenon
    <3> QED BY <3>1 DEF Glued
  <2> QED BY <1>m, <2>1, <2>2
<1>5. PICK c : c = Crc16(b) /\ c \in Nat BY <1>4, CrcType DEF Word
<1>6. PICK q : q = PutU16LE(c) /\ q \in Seq(Nat) /\ Len(q) = 2 BY <1>5, TwoBytes
<1>7. F = b \o q BY <1>1, <1>2, <1>3, <1>5, <1>6 DEF Ack2
<1>8. /\ F \in Seq(Nat) /\ Len(F) = 3 + 2 /\ \A i \in Nat : 1 =< i /\ i =< 3 => F[i] = b[i]
  <2>1. Glued(F, b, 3, q, 2) BY <1>4, <1>6, <1>7, <1>f, Glue, Zenon
  <2> QED BY <2>1 DEF Glued
<1>9. F[1] = ACK2_MAGIC /\ F[2] = p[1] /\ F[3] = p[2] BY <1>4, <1>8
<1>10. GetU16LE(F, 2) = w
  <2>2. p[1] + 256 * p[2] = w BY <1>1, <1>2, ReadBack, Zenon
  <2>3. F[2] = p[1] /\ F[2 + 1] = p[2] BY <1>9
  <2> QED BY <2>2, <2>3, Zenon DEF GetU16LE
<1> QED BY <1>1, <1>8, <1>9, <1>10

\* An acknowledgement in text.
LEMMA AckIs ==
    ASSUME NEW v \in Nat, NEW F, F = Ack(v)
    PROVE  /\ F \in Seq(Nat) /\ Len(F) = 3 /\ F[1] = LetterA /\ F[2] = 48 + v
           /\ F[3] = NewLine
  BY DEF Ack, LetterA, NewLine, Digit

\* A command in binary, with n bytes of payload.
IsUp2(F, c, n) ==
    /\ n \in Nat /\ F \in Seq(Nat) /\ Len(F) = 7 + n + 2
    /\ F[1] = UP2_MAGIC /\ F[2] = n /\ F[3] = c.version /\ F[4] = c.class
    /\ GetU16LE(F, 5) = c.seq /\ F[7] = c.flags
    /\ SubSeq(F, 8, 7 + n) = c.payload
    /\ Crc16(SubSeq(F, 1, 7 + n)) = GetU16LE(F, 7 + n + 1)

LEMMA Up2Is ==
    ASSUME NEW c \in Command, NEW F, F = Up2(c), NEW n, n = Len(c.payload)
    PROVE  IsUp2(F, c, n)
<1>f. 1 \in Nat /\ 2 \in Nat /\ 4 \in Nat /\ 6 \in Nat /\ 7 \in Nat OBVIOUS
<1>1. /\ c.payload \in Seq(Nat) /\ n \in Nat
      /\ c.version \in Nat /\ c.class \in Nat /\ c.seq \in Nat /\ c.flags \in Nat
  BY CommandIs
<1>2. PICK p : p = PutU16LE(c.seq) /\ p \in Seq(Nat) /\ Len(p) = 2
  <2>1. c.seq \in Nat BY <1>1
  <2>2. PutU16LE(c.seq) \in Seq(Nat) /\ Len(PutU16LE(c.seq)) = 2 BY <2>1, TwoBytes, Zenon
  <2> QED BY <2>2, Zenon
<1>3. PICK a : a = <<UP2_MAGIC, Len(c.payload), c.version, c.class>> OBVIOUS
<1>4. /\ a \in Seq(Nat) /\ Len(a) = 4 /\ a[1] = UP2_MAGIC /\ a[2] = n /\ a[3] = c.version
      /\ a[4] = c.class
  BY <1>1, <1>3 DEF UP2_MAGIC
<1>5. PICK b : b = a \o p OBVIOUS
<1>6. /\ b \in Seq(Nat) /\ Len(b) = 4 + 2 /\ \A i \in Nat : 1 =< i /\ i =< 4 => b[i] = a[i]
      /\ \A i \in Nat : 1 =< i /\ i =< 2 => b[4 + i] = p[i]
  <2>1. Glued(b, a, 4, p, 2) BY <1>2, <1>4, <1>5, <1>f, Glue, Zenon
  <2> QED BY <2>1 DEF Glued
<1>7. PICK d : d = <<c.flags>> OBVIOUS
<1>8. d \in Seq(Nat) /\ Len(d) = 1 /\ d[1] = c.flags BY <1>1, <1>7
<1>9. PICK e : e = b \o d OBVIOUS
<1>10. /\ e \in Seq(Nat) /\ Len(e) = 6 + 1 /\ \A i \in Nat : 1 =< i /\ i =< 6 => e[i] = b[i]
       /\ \A i \in Nat : 1 =< i /\ i =< 1 => e[6 + i] = d[i]
  <2>1. Len(b) = 6 BY <1>6
  <2>2. Glued(e, b, 6, d, 1) BY <1>6, <1>8, <1>9, <2>1, <1>f, Glue, Zenon
  <2> QED BY <2>2 DEF Glued
<1>11. /\ e[1] = UP2_MAGIC /\ e[2] = n /\ e[3] = c.version /\ e[4] = c.class
       /\ e[5] = p[1] /\ e[6] = p[2] /\ e[7] = c.flags
  <2>1. /\ e[1] = b[1] /\ e[2] = b[2] /\ e[3] = b[3] /\ e[4] = b[4]
        /\ e[5] = b[5] /\ e[6] = b[6]
    BY <1>10
  <2>2. b[1] = a[1] /\ b[2] = a[2] /\ b[3] = a[3] /\ b[4] = a[4] BY <1>6
  <2>3. b[5] = p[1] /\ b[6] = p[2]
    <3>1. b[4 + 1] = p[1] /\ b[4 + 2] = p[2] BY <1>6
    <3> QED BY <3>1
  <2>4. e[7] = d[1]
    <3>1. e[6 + 1] = d[1] BY <1>10
    <3> QED BY <3>1
  <2> QED BY <1>4, <1>8, <2>1, <2>2, <2>3, <2>4, Zenon
<1>12. PICK h : h = e \o c.payload OBVIOUS
<1>13. /\ h \in Seq(Nat) /\ Len(h) = 7 + n /\ \A i \in Nat : 1 =< i /\ i =< 7 => h[i] = e[i]
       /\ \A i \in Nat : 1 =< i /\ i =< n => h[7 + i] = c.payload[i]
  <2>1. Len(e) = 7 BY <1>10
  <2>2. Glued(h, e, 7, c.payload, n) BY <1>1, <1>10, <1>12, <2>1, <1>f, Glue, Zenon
  <2> QED BY <2>2 DEF Glued
<1>14. PICK k : k = Crc16(h) /\ k \in Nat BY <1>13, CrcType DEF Word
<1>15. PICK q : q = PutU16LE(k) /\ q \in Seq(Nat) /\ Len(q) = 2 BY <1>14, TwoBytes
<1>16. F = h \o q
  <2>1. F = (((a \o p) \o d) \o c.payload)
              \o PutU16LE(Crc16((((a \o p) \o d) \o c.payload)))
    BY <1>2, <1>3, <1>7, Zenon DEF Up2
  <2>2. h = (((a \o p) \o d) \o c.payload) BY <1>5, <1>9, <1>12
  <2> QED BY <1>14, <1>15, <2>1, <2>2, Zenon
<1>17. PICK m \in Nat : m = 7 + n BY <1>1
<1>18. /\ F \in Seq(Nat) /\ Len(F) = m + 2 /\ \A i \in Nat : 1 =< i /\ i =< m => F[i] = h[i]
       /\ \A i \in Nat : 1 =< i /\ i =< 2 => F[m + i] = q[i]
       /\ SubSeq(F, 1, m) = h
  <2>1. Len(h) = m BY <1>13, <1>17
  <2>2. Glued(F, h, m, q, 2) BY <1>13, <1>15, <1>16, <1>17, <2>1, <1>f, Glue, Zenon
  <2> QED BY <2>2 DEF Glued
<1>19. /\ F[1] = UP2_MAGIC /\ F[2] = n /\ F[3] = c.version /\ F[4] = c.class
       /\ F[5] = p[1] /\ F[6] = p[2] /\ F[7] = c.flags
  <2>1. ASSUME NEW i \in Nat, 1 =< i, i =< 7 PROVE F[i] = e[i]
    <3>1. i =< m BY <1>1, <1>17, <2>1
    <3>2. F[i] = h[i] BY <1>18, <2>1, <3>1
    <3>3. h[i] = e[i] BY <1>13, <2>1
    <3> QED BY <3>2, <3>3
  <2>2. /\ F[1] = e[1] /\ F[2] = e[2] /\ F[3] = e[3] /\ F[4] = e[4]
        /\ F[5] = e[5] /\ F[6] = e[6] /\ F[7] = e[7]
    BY <2>1
  <2> QED BY <1>11, <2>2, Zenon
<1>20. GetU16LE(F, 5) = c.seq
  <2>1. p[1] + 256 * p[2] = c.seq BY <1>1, <1>2, ReadBack, Zenon
  <2>2. F[5] = p[1] /\ F[5 + 1] = p[2] BY <1>19
  <2> QED BY <2>1, <2>2, Zenon DEF GetU16LE
<1>21. GetU16LE(F, m + 1) = k
  <2>1. F[m + 1] = q[1] /\ F[m + 2] = q[2] BY <1>18
  <2>2. (m + 1) + 1 = m + 2 BY <1>17
  <2>3. q[1] + 256 * q[2] = k BY <1>14, <1>15, ReadBack, Zenon
  <2> QED BY <2>1, <2>2, <2>3, Zenon DEF GetU16LE
<1>22. SubSeq(F, 8, 7 + n) = c.payload
  <2>1. PICK r \in Int : r = 7 + n BY <1>1
  <2>2. \A i \in Nat : 1 =< i /\ i =< n => F[7 + i] = c.payload[i]
    <3> SUFFICES ASSUME NEW i \in Nat, 1 =< i, i =< n PROVE F[7 + i] = c.payload[i]
      OBVIOUS
    <3>1. PICK j \in Nat : j = 7 + i OBVIOUS
    <3>2. 1 =< j /\ j =< m BY <1>17, <3>1
    <3>3. F[j] = h[j] BY <1>18, <3>2
    <3> QED BY <1>13, <3>1, <3>3
  <2>3. 7 \in Nat /\ 8 \in Int /\ 8 = 7 + 1 OBVIOUS
  <2>4. SubSeq(F, 8, r) = c.payload BY <1>1, <2>1, <2>2, <2>3, PartFrom
  <2> QED BY <2>1, <2>4, Zenon
<1> QED BY <1>1, <1>14, <1>17, <1>18, <1>19, <1>20, <1>21, <1>22 DEF IsUp2

LEMMA Within ==
    ASSUME NEW m \in Nat, NEW n \in Nat, NEW l \in Nat, 1 =< m, n =< l, NEW i \in m..n
    PROVE  i \in Nat /\ 1 =< i /\ i =< l
  OBVIOUS

\* Where two sequences agree, so do their parts.
LEMMA SamePart ==
    ASSUME NEW s \in Seq(Nat), NEW t \in Seq(Nat), NEW l \in Nat,
           l =< Len(s), l =< Len(t),
           \A i \in Nat : 1 =< i /\ i =< l => s[i] = t[i],
           NEW m \in Nat, NEW n \in Nat, 1 =< m, n =< l
    PROVE  SubSeq(s, m, n) = SubSeq(t, m, n)
<1>1. PICK u, v : u = SubSeq(s, m, n) /\ v = SubSeq(t, m, n) OBVIOUS
<1>2. \A i \in m..n : s[i] \in Nat /\ t[i] \in Nat /\ s[i] = t[i]
  <2> SUFFICES ASSUME NEW i \in m..n PROVE s[i] \in Nat /\ t[i] \in Nat /\ s[i] = t[i]
    OBVIOUS
  <2>1. i \in Nat /\ 1 =< i /\ i =< l BY Within, Zenon
  <2>2. Len(s) \in Nat /\ Len(t) \in Nat BY LenProperties
  <2>3. i \in 1..Len(s) /\ i \in 1..Len(t) BY <2>1, <2>2
  <2> QED BY <2>1, <2>3, ElementOfSeq
<1>3. m \in Int /\ n \in Int OBVIOUS
<1>4. /\ u \in Seq(Nat) /\ Len(u) = IF m =< n THEN n - m + 1 ELSE 0
      /\ \A i \in 1..(n - m + 1) : u[i] = s[m + i - 1]
  BY <1>1, <1>2, <1>3, SubSeqProperties
<1>5. /\ v \in Seq(Nat) /\ Len(v) = IF m =< n THEN n - m + 1 ELSE 0
      /\ \A i \in 1..(n - m + 1) : v[i] = t[m + i - 1]
  BY <1>1, <1>2, <1>3, SubSeqProperties
<1>6. ASSUME NEW i \in 1..Len(u) PROVE u[i] = v[i]
  <2>1. m =< n /\ i \in 1..(n - m + 1) /\ m + i - 1 \in m..n BY <1>4, <1>6
  <2> QED BY <1>2, <1>4, <1>5, <2>1
<1>7. Len(u) = Len(v) BY <1>4, <1>5
<1> QED BY <1>1, <1>4, <1>5, <1>6, <1>7, SeqEqual

\* A command in text, with n bytes of payload.
IsUp(F, c, n) ==
    /\ n \in Nat /\ F \in Seq(Nat) /\ Len(F) = 2 * n + 10
    /\ F[1] = LetterU /\ F[2 * n + 10] = NewLine
    /\ \A i \in Nat : 2 =< i /\ i =< 2 * n + 9 => F[i] >= 48 /\ F[i] =< 63
    /\ F[2] = 48 + c.version /\ F[3] = 48 + c.class /\ F[4] = 48 + c.seq
    /\ F[5] = 48 + c.flags
    /\ SubSeq(F, 6, 2 * n + 5) = Hex(c.payload)
    /\ HexCrc(Crc16(SubSeq(F, 1, 2 * n + 5))) = SubSeq(F, 2 * n + 6, 2 * n + 9)

LEMMA UpIs ==
    ASSUME NEW c \in Command, NEW F, F = Up(c), NEW n, n = Len(c.payload)
    PROVE  IsUp(F, c, n)
<1>f. 1 \in Nat /\ 4 \in Nat /\ 5 \in Nat OBVIOUS
<1>1. /\ c.payload \in Seq(Byte) /\ n \in Nat
      /\ c.version \in Nat /\ c.version =< 9 /\ c.class \in Nat /\ c.class =< 9
      /\ c.seq \in Nat /\ c.seq =< 9 /\ c.flags \in Nat /\ c.flags =< 9
  BY CommandIs
<1>2. PICK a : a = <<LetterU, Digit(c.version), Digit(c.class), Digit(c.seq), Digit(c.flags)>>
  OBVIOUS
<1>3. /\ a \in Seq(Nat) /\ Len(a) = 5 /\ a[1] = LetterU /\ a[2] = 48 + c.version
      /\ a[3] = 48 + c.class /\ a[4] = 48 + c.seq /\ a[5] = 48 + c.flags
  <2>1. a = <<85, 48 + c.version, 48 + c.class, 48 + c.seq, 48 + c.flags>>
    BY <1>2, Zenon DEF LetterU, Digit
  <2>2. /\ 85 \in Nat /\ 48 + c.version \in Nat /\ 48 + c.class \in Nat
        /\ 48 + c.seq \in Nat /\ 48 + c.flags \in Nat
    BY <1>1
  <2> QED BY <2>1, <2>2 DEF LetterU
<1>4. PICK m \in Nat : m = 2 * n BY <1>1
<1>5. PICK x : x = Hex(c.payload) OBVIOUS
<1>6. /\ x \in Seq(Nat) /\ Len(x) = m
      /\ \A i \in Nat : 1 =< i /\ i =< m => x[i] >= 48 /\ x[i] =< 63
  <2>1. /\ x \in Seq(Nat) /\ Len(x) = 2 * Len(c.payload)
        /\ \A i \in 1..(2 * Len(c.payload)) : x[i] >= 48 /\ x[i] =< 63
    BY <1>1, <1>5, HexIs
  <2> QED BY <1>4, <2>1
<1>7. PICK h : h = a \o x OBVIOUS
<1>8. Glued(h, a, 5, x, m) BY <1>3, <1>4, <1>6, <1>7, <1>f, Glue, Zenon
<1>9. PICK k : k = Crc16(h) /\ k \in Word
  <2>1. h \in Seq(Nat) BY <1>8 DEF Glued
  <2> QED BY <2>1, CrcType
<1>10. PICK q : q = HexCrc(k) OBVIOUS
<1>11. /\ q \in Seq(Nat) /\ Len(q) = 4
       /\ \A i \in 1..4 : q[i] >= 48 /\ q[i] =< 63
  BY <1>9, <1>10, HexCrcIs
<1>12. PICK l \in Nat : l = m + 5 BY <1>4
<1>13. PICK hq : hq = h \o q OBVIOUS
<1>14. Glued(hq, h, l, q, 4)
  <2>1. h \in Seq(Nat) /\ Len(h) = l BY <1>4, <1>8, <1>12 DEF Glued
  <2> QED BY <1>11, <1>12, <1>13, <1>f, <2>1, Glue, Zenon
<1>15. PICK e : e = <<NewLine>> OBVIOUS
<1>16. e \in Seq(Nat) /\ Len(e) = 1 /\ e[1] = NewLine BY <1>15 DEF NewLine
<1>17. PICK j \in Nat : j = l + 4 BY <1>12
<1>18. F = hq \o e
  <2>1. F = ((a \o x) \o HexCrc(Crc16(a \o x))) \o e
    BY <1>2, <1>5, <1>15, Zenon DEF Up
  <2> QED BY <1>7, <1>9, <1>10, <1>13, <2>1, Zenon
<1>19. Glued(F, hq, j, e, 1)
  <2>1. hq \in Seq(Nat) /\ Len(hq) = j BY <1>12, <1>14, <1>17 DEF Glued
  <2> QED BY <1>16, <1>17, <1>18, <1>f, <2>1, Glue, Zenon
<1>20. F \in Seq(Nat) /\ Len(F) = 2 * n + 10 /\ F[2 * n + 10] = NewLine
  <2>1. F \in Seq(Nat) /\ Len(F) = j + 1 /\ F[j + 1] = NewLine BY <1>16, <1>19 DEF Glued
  <2>2. j + 1 = 2 * n + 10 BY <1>1, <1>4, <1>12, <1>17
  <2> QED BY <2>1, <2>2
<1>21. \A i \in Nat : 1 =< i /\ i =< j => F[i] = hq[i] BY <1>19 DEF Glued
<1>22. \A i \in Nat : 1 =< i /\ i =< l => F[i] = h[i]
  <2>1. \A i \in Nat : 1 =< i /\ i =< l => hq[i] = h[i] BY <1>14 DEF Glued
  <2> QED BY <1>12, <1>17, <1>21, <2>1
<1>23. \A i \in Nat : 1 =< i /\ i =< 5 => F[i] = a[i]
  <2>1. \A i \in Nat : 1 =< i /\ i =< 5 => h[i] = a[i] BY <1>8 DEF Glued
  <2> QED BY <1>4, <1>12, <1>22, <2>1
<1>24. \A i \in Nat : 1 =< i /\ i =< m => F[5 + i] = x[i]
  <2>1. \A i \in Nat : 1 =< i /\ i =< m => h[5 + i] = x[i] BY <1>8 DEF Glued
  <2> QED BY <1>4, <1>12, <1>22, <2>1
<1>25. ASSUME NEW i \in Nat, 2 =< i, i =< 2 * n + 9 PROVE F[i] >= 48 /\ F[i] =< 63
  <2>1. 2 * n + 9 = j /\ j = l + 4 /\ l = m + 5 BY <1>1, <1>4, <1>12, <1>17
  <2>2. CASE i =< 5
    <3>1. F[i] = a[i] BY <1>23, <1>25, <2>2
    <3>2. i = 2 \/ i = 3 \/ i = 4 \/ i = 5 BY <1>25, <2>2
    <3>3. PICK y \in Nat : y =< 9 /\ a[i] = 48 + y BY <1>1, <1>3, <3>2
    <3> QED BY <3>1, <3>3
  <2>3. CASE 5 < i /\ i =< l
    <3>1. PICK y \in Nat : y = i - 5 BY <2>3
    <3>2. 1 =< y /\ y =< m /\ 5 + y = i BY <2>1, <2>3, <3>1
    <3> QED BY <1>6, <1>24, <3>2
  <2>4. CASE l < i
    <3>1. PICK y \in Nat : y = i - l BY <1>12, <2>4
    <3>2. 1 =< y /\ y =< 4 /\ l + y = i BY <1>12, <1>25, <2>1, <2>4, <3>1
    <3>3. hq[l + y] = q[y] BY <1>14, <3>2 DEF Glued
    <3>4. F[i] = hq[i] BY <1>21, <1>25, <2>1
    <3>5. y \in 1..4 BY <3>2
    <3> QED BY <1>11, <3>2, <3>3, <3>4, <3>5
  <2> QED BY <1>12, <2>2, <2>3, <2>4
<1>26. /\ F[1] = LetterU /\ F[2] = 48 + c.version /\ F[3] = 48 + c.class
       /\ F[4] = 48 + c.seq /\ F[5] = 48 + c.flags
  BY <1>3, <1>23
<1>27. SubSeq(F, 1, l) = h /\ SubSeq(F, l + 1, l + 4) = q
  <2>1. SubSeq(hq, 1, l) = h /\ SubSeq(hq, l + 1, l + 4) = q BY <1>14 DEF Glued
  <2>2. hq \in Seq(Nat) /\ Len(hq) = j /\ F \in Seq(Nat) /\ Len(F) = j + 1
    BY <1>12, <1>14, <1>17, <1>19 DEF Glued
  <2>3. SubSeq(F, 1, l) = SubSeq(hq, 1, l)
    <3>1. 1 \in Nat /\ l \in Nat /\ l =< j BY <1>12, <1>17
    <3> QED BY <1>17, <1>21, <2>2, <3>1, SamePart
  <2>4. SubSeq(F, l + 1, l + 4) = SubSeq(hq, l + 1, l + 4)
    <3>1. PICK u \in Nat, w \in Nat : u = l + 1 /\ w = l + 4 /\ 1 =< u /\ w =< j
      BY <1>12, <1>17
    <3> QED BY <1>17, <1>21, <2>2, <3>1, SamePart
  <2> QED BY <2>1, <2>3, <2>4
<1>28. SubSeq(F, 6, 2 * n + 5) = x
  <2>1. SubSeq(h, 6, l) = x
    <3>1. SubSeq(h, 5 + 1, 5 + m) = x BY <1>8 DEF Glued
    <3>2. 5 + 1 = 6 /\ 5 + m = l BY <1>4, <1>12
    <3> QED BY <3>1, <3>2
  <2>2. h \in Seq(Nat) /\ Len(h) = l /\ F \in Seq(Nat) /\ Len(F) = j + 1
    BY <1>4, <1>8, <1>12, <1>19 DEF Glued
  <2>3. SubSeq(F, 6, l) = SubSeq(h, 6, l)
    <3>1. PICK u \in Nat : u = 6 /\ 1 =< u OBVIOUS
    <3>2. l =< j + 1 /\ l =< l BY <1>12, <1>17
    <3>3. SubSeq(F, u, l) = SubSeq(h, u, l) BY <1>12, <1>22, <2>2, <3>1, <3>2, SamePart
    <3> QED BY <3>1, <3>3
  <2>4. l = 2 * n + 5 BY <1>1, <1>4, <1>12
  <2> QED BY <2>1, <2>3, <2>4
<1>29. /\ l = 2 * n + 5 /\ l + 1 = 2 * n + 6 /\ l + 4 = 2 * n + 9
  BY <1>1, <1>4, <1>12
<1>30. HexCrc(Crc16(SubSeq(F, 1, l))) = SubSeq(F, l + 1, l + 4)
  BY <1>9, <1>10, <1>27
<1> QED BY <1>1, <1>5, <1>20, <1>25, <1>26, <1>28, <1>29, <1>30 DEF IsUp
------------------------------------------------------------------------------
(* The reader *)

Readers == [buf : Seq(Nat), mode : Modes, target : Nat]

\* Each mode waits for a length that the buffer can hold.
ReaderOK(r) ==
    /\ r \in Readers
    /\ Len(r.buf) =< LINE_BUF_LEN - 1
    /\ r.mode = "NONE" <=> r.buf = << >>
    /\ r.mode = "ACK2" => r.target = 5 /\ Len(r.buf) < 5
    /\ r.mode = "UP2_HDR" => Len(r.buf) = 1
    /\ r.mode = "UP2_BODY" => Len(r.buf) < r.target /\ r.target < LINE_BUF_LEN

LEMMA Sizes ==
    /\ LINE_BUF_LEN \in Nat /\ MAX_PAYLOAD \in Nat /\ 5 =< LINE_BUF_LEN - 1
    /\ 7 + MAX_PAYLOAD + 2 =< LINE_BUF_LEN - 1
  BY BufferAssumption

LEMMA StartOK == ReaderOK(RxStart)
<1>1. RxStart \in Readers BY DEF RxStart, Readers, Modes
<1>2. RxStart.buf = << >> /\ RxStart.mode = "NONE" BY DEF RxStart
<1>3. Len(RxStart.buf) =< LINE_BUF_LEN - 1 BY <1>2, Sizes
<1> QED BY <1>1, <1>2, <1>3 DEF ReaderOK

\* A byte is stored.
LEMMA StoredIs ==
    ASSUME ReaderOK(rx), NEW b \in Nat, NEW r, r = Stored(b)
    PROVE  /\ r \in Readers /\ r.buf = Append(rx.buf, b) /\ r.buf \in Seq(Nat)
           /\ Len(r.buf) = Len(rx.buf) + 1
           /\ rx.buf # << >> => r.mode = rx.mode /\ r.target = rx.target
           /\ rx.buf = << >> =>
                /\ r.buf = <<b>>
                /\ b = ACK2_MAGIC => r.mode = "ACK2" /\ r.target = 5
                /\ b = UP2_MAGIC => r.mode = "UP2_HDR"
                /\ b \notin {ACK2_MAGIC, UP2_MAGIC} => r.mode = "TEXT"
<1>1. rx \in Readers BY DEF ReaderOK
<1>2. rx.buf \in Seq(Nat) /\ rx.mode \in Modes /\ rx.target \in Nat BY <1>1 DEF Readers
<1>3. /\ Append(rx.buf, b) \in Seq(Nat) /\ Len(Append(rx.buf, b)) = Len(rx.buf) + 1
      /\ Append(<< >>, b) = <<b>>
  BY <1>2
<1>4. CASE rx.buf # << >>
  <2>1. PICK u : u = Append(rx.buf, b) OBVIOUS
  <2>2. r = [rx EXCEPT !.buf = Append(@, b)] BY <1>4 DEF Stored
  <2>3. r = [rx EXCEPT !.buf = u] BY <2>1, <2>2
  <2>4. r \in Readers /\ r.buf = u /\ r.mode = rx.mode /\ r.target = rx.target
    BY <1>1, <1>3, <2>1, <2>3 DEF Readers
  <2> QED BY <1>3, <1>4, <2>1, <2>4
<1>5. CASE rx.buf = << >>
  <2>1. r = FirstByte(b) BY <1>5 DEF Stored
  <2>2. ACK2_MAGIC # UP2_MAGIC BY DEF ACK2_MAGIC, UP2_MAGIC
  <2>3. <<b>> \in Seq(Nat) OBVIOUS
  <2>4. CASE b = ACK2_MAGIC
    <3>1. r = [buf |-> <<b>>, mode |-> "ACK2", target |-> 5]
      BY <2>1, <2>2, <2>4 DEF FirstByte
    <3>2. r.buf = <<b>> /\ r.mode = "ACK2" /\ r.target = 5 /\ r \in Readers
      BY <2>3, <3>1 DEF Readers, Modes
    <3>3. Len(r.buf) = Len(rx.buf) + 1 /\ r.buf = Append(rx.buf, b)
      BY <1>3, <1>5, <3>2
    <3> QED BY <1>3, <1>5, <2>2, <2>3, <2>4, <3>2, <3>3, Zenon
  <2>5. CASE b = UP2_MAGIC
    <3>1. r = [buf |-> <<b>>, mode |-> "UP2_HDR", target |-> 0]
      BY <2>1, <2>2, <2>5 DEF FirstByte
    <3>2. r.buf = <<b>> /\ r.mode = "UP2_HDR" /\ r.target = 0 /\ r \in Readers
      BY <2>3, <3>1 DEF Readers, Modes
    <3>3. Len(r.buf) = Len(rx.buf) + 1 /\ r.buf = Append(rx.buf, b)
      BY <1>3, <1>5, <3>2
    <3> QED BY <1>3, <1>5, <2>2, <2>3, <2>5, <3>2, <3>3, Zenon
  <2>6. CASE b # ACK2_MAGIC /\ b # UP2_MAGIC
    <3>1. r = [buf |-> <<b>>, mode |-> "TEXT", target |-> 0]
      BY <2>1, <2>6 DEF FirstByte
    <3> QED BY <1>3, <1>5, <2>3, <2>6, <3>1 DEF Readers, Modes
  <2> QED BY <2>4, <2>5, <2>6
<1> QED BY <1>4, <1>5

\* The length of a UP2 frame is known.
LEMMA HeaderIs ==
    ASSUME NEW r \in Readers, Len(r.buf) = 2, NEW n \in Nat, n = r.buf[2], n =< MAX_PAYLOAD
    PROVE  /\ Header(r) \in Readers /\ Header(r).buf = r.buf
           /\ Header(r).mode = "UP2_BODY" /\ Header(r).target = 7 + n + 2
<1>1. ~ TooLong(n) BY Sizes DEF TooLong
<1>2. PICK t \in Nat : t = 7 + n + 2 OBVIOUS
<1>3. Header(r) = [r EXCEPT !.mode = "UP2_BODY", !.target = t]
  BY <1>1, <1>2 DEF Header
<1> QED BY <1>2, <1>3 DEF Readers, Modes

\* A byte that ends nothing leaves the reader waiting for another one.
LEMMA WaitsOK ==
    ASSUME ReaderOK(rx), NEW b \in Nat, NEW r, r = Stored(b),
           ~ (Len(rx.buf) >= LINE_BUF_LEN - 1), ~LineEnded(r), ~FrameEnded(r)
    PROVE  ReaderOK(IF r.mode = "UP2_HDR" THEN Header(r) ELSE r)
<1>1. /\ r \in Readers /\ r.buf = Append(rx.buf, b) /\ r.buf \in Seq(Nat)
      /\ Len(r.buf) = Len(rx.buf) + 1
      /\ rx.buf # << >> => r.mode = rx.mode /\ r.target = rx.target
      /\ rx.buf = << >> =>
           /\ r.buf = <<b>>
           /\ b = ACK2_MAGIC => r.mode = "ACK2" /\ r.target = 5
           /\ b = UP2_MAGIC => r.mode = "UP2_HDR"
           /\ b \notin {ACK2_MAGIC, UP2_MAGIC} => r.mode = "TEXT"
  BY StoredIs
<1>2. PICK n \in Nat : n = Len(rx.buf) BY DEF ReaderOK, Readers
<1>3. Len(r.buf) = n + 1 /\ n + 1 =< LINE_BUF_LEN - 1 BY <1>1, <1>2, Sizes
<1>4. r.buf # << >> BY <1>1, <1>3
<1>5. r.mode # "NONE" /\ r.mode \in Modes
  <2>1. CASE rx.buf # << >> BY <1>1, <2>1 DEF ReaderOK, Readers
  <2>2. CASE rx.buf = << >> BY <1>1, <2>2 DEF Readers
  <2> QED BY <2>1, <2>2
<1>6. CASE r.mode = "TEXT" BY <1>1, <1>3, <1>4, <1>6 DEF ReaderOK
<1>7. CASE r.mode = "ACK2"
  <2>1. r.target = 5
    <3>1. CASE rx.buf # << >> BY <1>1, <1>7, <3>1 DEF ReaderOK
    <3>2. CASE rx.buf = << >>
      <4>1. b = ACK2_MAGIC BY <1>1, <1>7, <3>2
      <4> QED BY <1>1, <3>2, <4>1
    <3> QED BY <3>1, <3>2
  <2>2. Len(r.buf) < 5 BY <1>3, <1>7, <2>1 DEF FrameEnded
  <2> QED BY <1>1, <1>3, <1>4, <1>7, <2>1, <2>2 DEF ReaderOK
<1>8. CASE r.mode = "UP2_BODY"
  <2>1. rx.buf # << >> /\ rx.mode = "UP2_BODY" BY <1>1, <1>8
  <2>2. r.target = rx.target /\ r.target < LINE_BUF_LEN /\ r.target \in Nat
    BY <1>1, <2>1 DEF ReaderOK, Readers
  <2>3. Len(r.buf) < r.target BY <1>3, <1>8, <2>2 DEF FrameEnded
  <2> QED BY <1>1, <1>3, <1>4, <1>8, <2>2, <2>3 DEF ReaderOK
<1>9. CASE r.mode = "UP2_HDR"
  <2>1. CASE rx.buf = << >>
    <3>1. Len(r.buf) = 1 BY <1>1, <2>1
    <3>2. Header(r) = r BY <3>1 DEF Header
    <3> QED BY <1>1, <1>3, <1>4, <1>9, <3>1, <3>2 DEF ReaderOK
  <2>2. CASE rx.buf # << >>
    <3>1. Len(r.buf) = 2
      <4>1. rx.mode = "UP2_HDR" BY <1>1, <1>9, <2>2
      <4>2. Len(rx.buf) = 1 BY <4>1 DEF ReaderOK
      <4> QED BY <1>1, <4>2
    <3>2. PICK k \in Nat : k = r.buf[2]
      <4>1. 2 \in 1..Len(r.buf) BY <3>1
      <4> QED BY <1>1, <4>1, ElementOfSeq
    <3>3. CASE TooLong(k)
      <4>1. Header(r) = RxStart BY <3>1, <3>2, <3>3 DEF Header
      <4> QED BY <1>9, <4>1, StartOK
    <3>4. CASE ~TooLong(k)
      <4>1. k =< MAX_PAYLOAD BY <3>4, Sizes DEF TooLong
      <4>2. PICK h : h = Header(r) OBVIOUS
      <4>3. h \in Readers /\ h.buf = r.buf /\ h.mode = "UP2_BODY" /\ h.target = 7 + k + 2
        BY <1>1, <3>1, <3>2, <4>1, <4>2, HeaderIs
      <4>4. Len(h.buf) = 2 /\ 2 < h.target /\ h.target < LINE_BUF_LEN
        BY <3>1, <4>1, <4>3, Sizes
      <4>5. Len(h.buf) =< LINE_BUF_LEN - 1 /\ h.buf # << >> BY <1>3, <1>4, <4>3
      <4>6. ReaderOK(h) BY <4>3, <4>4, <4>5 DEF ReaderOK
      <4> QED BY <1>9, <4>2, <4>6
    <3> QED BY <3>3, <3>4
  <2> QED BY <2>1, <2>2
<1> QED BY <1>5, <1>6, <1>7, <1>8, <1>9 DEF Modes
------------------------------------------------------------------------------
(* The type invariant *)

TypeInv ==
    /\ wire \in Seq(Nat) /\ ReaderOK(rx) /\ sent \in Seq(Command)
    /\ DownlinkSeq \in 0..(U32 - 1) /\ LastSentSeq \in 0..(U32 - 1)
    /\ toAck => down.seq \in Nat
    /\ PendingUplinkFeedback \in {"OK", "CRC_FAIL"}
    /\ events \in 0..MaxEvents

LEMMA BytesType ==
    ASSUME NEW c \in Command PROVE Bytes(c) \in Seq(Nat) /\ Len(Bytes(c)) \in Nat \ {0}
<1>1. PICK n : n = Len(c.payload) OBVIOUS
<1>2. CASE c.v2
  <2>1. Bytes(c) = Up2(c) BY <1>2 DEF Bytes
  <2>2. n \in Nat /\ Up2(c) \in Seq(Nat) /\ Len(Up2(c)) = 7 + n + 2 BY <1>1, Up2Is DEF IsUp2
  <2> QED BY <2>1, <2>2
<1>3. CASE ~c.v2
  <2>1. Bytes(c) = Up(c) BY <1>3 DEF Bytes
  <2>2. n \in Nat /\ Up(c) \in Seq(Nat) /\ Len(Up(c)) = 2 * n + 10 BY <1>1, UpIs DEF IsUp
  <2> QED BY <2>1, <2>2
<1> QED BY <1>2, <1>3

LEMMA EventType ==
    ASSUME events \in 0..MaxEvents, Event PROVE events' \in 0..MaxEvents
  BY InputsAssumption DEF Event

\* A frame of the ground: the next one of its script.
LEMMA ScriptIs ==
    ASSUME NEW script \in Traffic, sent \in Seq(Command), Len(sent) < Len(script)
    PROVE  /\ Len(sent) \in Nat /\ script \in Seq(Command)
           /\ Len(sent) + 1 \in 1..Len(script)
           /\ script[Len(sent) + 1] \in Command
<1>1. script \in Seq(Command) /\ Len(script) \in Nat /\ Len(sent) \in Nat
  BY TrafficAssumption
<1>2. Len(sent) + 1 \in 1..Len(script) BY <1>1
<1> QED BY <1>1, <1>2, ElementOfSeq

LEMMA ReadByteType == ASSUME TypeInv, ReadByte PROVE TypeInv'
<1>1. wire # << >> /\ wire \in Seq(Nat) BY DEF ReadByte, TypeInv
<1>2. wire' \in Seq(Nat) /\ Head(wire) \in Nat
  BY <1>1, HeadTailProperties DEF ReadByte
<1>3. /\ UNCHANGED <<sent, DownlinkSeq, LastSentSeq, toAck, down, events>>
  BY DEF ReadByte, sender
<1>4. ASSUME NEW r, ProcessRxLine(r) \/ ProcessRxBinaryFrame(r) \/ Nothing
      PROVE  PendingUplinkFeedback' \in {"OK", "CRC_FAIL"}
  BY <1>4 DEF TypeInv, ProcessRxLine, ProcessRxBinaryFrame, Nothing, ProcessAck, Forward,
     Refuse, uplink
<1>5. ReaderOK(rx') /\ PendingUplinkFeedback' \in {"OK", "CRC_FAIL"}
  <2>0. ReaderOK(rx) BY DEF TypeInv
  <2>1. CASE Len(rx.buf) >= LINE_BUF_LEN - 1
    <3>1. rx' = RxStart /\ Nothing BY <2>1 DEF ReadByte, Overflow
    <3> QED BY <1>4, <3>1, StartOK
  <2>2. CASE ~ (Len(rx.buf) >= LINE_BUF_LEN - 1)
    <3>1. PICK r : r = Stored(Head(wire)) OBVIOUS
    <3>2. CASE LineEnded(r)
      <4>1. ~FrameEnded(r) BY <3>2 DEF LineEnded, FrameEnded
      <4>2. rx' = RxStart /\ ProcessRxLine(r.buf) BY <2>2, <3>1, <3>2, <4>1 DEF ReadByte
      <4> QED BY <1>4, <4>2, StartOK
    <3>3. CASE ~LineEnded(r) /\ FrameEnded(r)
      <4>1. rx' = RxStart /\ ProcessRxBinaryFrame(r.buf)
        BY <2>2, <3>1, <3>3 DEF ReadByte
      <4> QED BY <1>4, <4>1, StartOK
    <3>4. CASE ~LineEnded(r) /\ ~FrameEnded(r)
      <4>1. rx' = (IF r.mode = "UP2_HDR" THEN Header(r) ELSE r) /\ Nothing
        BY <2>2, <3>1, <3>4 DEF ReadByte
      <4>2. ReaderOK(IF r.mode = "UP2_HDR" THEN Header(r) ELSE r)
        BY <1>2, <2>0, <2>2, <3>1, <3>4, WaitsOK
      <4> QED BY <1>4, <4>1, <4>2
    <3> QED BY <3>2, <3>3, <3>4
  <2> QED BY <2>1, <2>2
<1> QED BY <1>2, <1>3, <1>5 DEF TypeInv

LEMMA InitType == Init => TypeInv
<1> SUFFICES ASSUME Init PROVE TypeInv OBVIOUS
<1>1. wire \in Seq(Nat) /\ sent \in Seq(Command) /\ ReaderOK(rx) BY StartOK DEF Init
<1>2. DownlinkSeq \in 0..(U32 - 1) /\ LastSentSeq \in 0..(U32 - 1)
  BY NumbersAssumption DEF Init
<1>3. events \in 0..MaxEvents BY InputsAssumption DEF Init
<1> QED BY <1>1, <1>2, <1>3 DEF Init, TypeInv

LEMMA RunTxType == ASSUME TypeInv, NEW written \in BOOLEAN, RunTx(written) PROVE TypeInv'
<1>1. /\ rx' = rx /\ UNCHANGED <<sent, PendingUplinkFeedback>>
  BY DEF RunTx, Kept, uplink
<1>2. CASE written
  <2>1. /\ down' = Frame /\ LastSentSeq' = DownlinkSeq
        /\ DownlinkSeq' = (DownlinkSeq + 1) % U32 /\ UNCHANGED <<wire, events>>
    BY <1>2 DEF RunTx
  <2>2. DownlinkSeq' \in 0..(U32 - 1)
    <3>1. PICK n \in Nat : n = DownlinkSeq + 1 BY DEF TypeInv
    <3> QED BY <2>1, <3>1, NumbersAssumption
  <2>3. down'.seq \in Nat
    <3>1. PICK n \in Nat, k \in Nat : n = DownlinkSeq /\ k = n % U16
      BY NumbersAssumption DEF TypeInv
    <3>2. BuildDl2Frame.seq = k /\ BuildFcDownlinkLine.seq = n /\ BuildShDownlinkLine.seq = n
      BY <3>1 DEF BuildDl2Frame, BuildFcDownlinkLine, BuildShDownlinkLine
    <3> QED BY <2>1, <3>1, <3>2, Zenon DEF Frame
  <2> QED BY <1>1, <2>1, <2>2, <2>3 DEF TypeInv
<1>3. CASE ~written
  <2>1. /\ Event /\ wire' = << >> /\ UNCHANGED <<DownlinkSeq, LastSentSeq, down, toAck>>
    BY <1>3 DEF RunTx
  <2>2. events' \in 0..MaxEvents BY <2>1, EventType DEF TypeInv
  <2>3. wire' \in Seq(Nat) BY <2>1
  <2> QED BY <1>1, <2>1, <2>2, <2>3 DEF TypeInv
<1> QED BY <1>2, <1>3

LEMMA GroundType ==
    ASSUME TypeInv, GroundAck \/ \E script \in Traffic : GroundSend(script) PROVE TypeInv'
<1>1. CASE GroundAck
  <2>1. PICK v : v = down.seq OBVIOUS
  <2>2. v \in Nat BY <1>1, <2>1 DEF GroundAck, TypeInv
  <2>3. Ack2(v) \in Seq(Nat) /\ Ack(v) \in Seq(Nat) BY <2>2, Ack2Is, AckIs
  <2>4. wire' \in Seq(Nat) BY <1>1, <2>1, <2>3 DEF GroundAck
  <2>5. /\ toAck' = FALSE
        /\ UNCHANGED <<rx, sent, DownlinkSeq, LastSentSeq, PendingUplinkFeedback, events>>
    BY <1>1 DEF GroundAck, receiver, sender, uplink
  <2> QED BY <2>4, <2>5 DEF TypeInv
<1>2. ASSUME NEW script \in Traffic, GroundSend(script) PROVE TypeInv'
  <2>1. PICK c : c = script[Len(sent) + 1] OBVIOUS
  <2>2. c \in Command BY <1>2, <2>1, ScriptIs DEF GroundSend, TypeInv
  <2>3. wire' = Bytes(c) /\ sent' = Append(sent, c) BY <1>2, <2>1 DEF GroundSend
  <2>4. wire' \in Seq(Nat) /\ sent' \in Seq(Command) BY <2>2, <2>3, BytesType DEF TypeInv
  <2>5. UNCHANGED <<rx, DownlinkSeq, LastSentSeq, PendingUplinkFeedback, events, toAck, down>>
    BY <1>2 DEF GroundSend, receiver, sender, uplink
  <2> QED BY <2>4, <2>5 DEF TypeInv
<1> QED BY <1>1, <1>2

LEMMA NextType == TypeInv /\ [Next]_vars => TypeInv'
<1> SUFFICES ASSUME TypeInv, [Next]_vars PROVE TypeInv' OBVIOUS
<1>e. ASSUME Event, wire' \in Seq(Nat),
             UNCHANGED <<rx, sent, DownlinkSeq, LastSentSeq, PendingUplinkFeedback, toAck, down>>
      PROVE  TypeInv'
  <2>1. events' \in 0..MaxEvents BY <1>e, EventType DEF TypeInv
  <2> QED BY <1>e, <2>1 DEF TypeInv
<1>u. ASSUME UNCHANGED <<wire, rx, sent, DownlinkSeq, LastSentSeq, PendingUplinkFeedback, toAck,
                         down, events>>
      PROVE  TypeInv'
  BY <1>u DEF TypeInv
<1>1. CASE RunTx(TRUE) BY <1>1, RunTxType
<1>2. CASE RunTx(FALSE) BY <1>2, RunTxType
<1>3. CASE EndWindow \/ Reopen
  BY <1>3, <1>u, Zenon DEF EndWindow, Reopen, sender, uplink
<1>4. CASE ReadByte BY <1>4, ReadByteType
<1>5. CASE ReadError
  <2>1. wire' \in Seq(Nat) BY <1>5 DEF ReadError
  <2> QED BY <1>5, <1>e, <2>1 DEF ReadError, sender, uplink
<1>6. ASSUME NEW c, UpdateCache(c) PROVE TypeInv'
  BY <1>6, <1>e DEF UpdateCache, receiver, uplink, TypeInv
<1>7. ASSUME NEW v2 \in BOOLEAN, SetDownlinkProtocol(v2) PROVE TypeInv'
  BY <1>7, <1>e DEF SetDownlinkProtocol, receiver, uplink, TypeInv
<1>8. CASE GroundAck \/ \E script \in Traffic : GroundSend(script) BY <1>8, GroundType
<1>9. ASSUME NEW bytes \in Seq(Nat), AirFault(bytes) PROVE TypeInv'
  BY <1>9, <1>e DEF AirFault, receiver, sender, uplink
<1>10. CASE LoseByte
  <2>1. Tail(wire) \in Seq(Nat) BY <1>10, HeadTailProperties DEF LoseByte, TypeInv
  <2> QED BY <1>9, <1>10, <2>1 DEF LoseByte
<1>11. ASSUME NEW b \in NoiseBytes, DamageByte(b) \/ AddByte(b) PROVE TypeInv'
  <2>1. b \in Nat BY InputsAssumption
  <2>2. <<b>> \in Seq(Nat) /\ wire \in Seq(Nat) BY <2>1 DEF TypeInv
  <2>3. <<b>> \o wire \in Seq(Nat) BY <2>2, Joined
  <2>4. wire # << >> => <<b>> \o Tail(wire) \in Seq(Nat)
    <3>1. wire # << >> => Tail(wire) \in Seq(Nat) BY <2>2, HeadTailProperties
    <3> QED BY <2>2, <3>1, Joined
  <2> QED BY <1>9, <1>11, <2>3, <2>4 DEF DamageByte, AddByte
<1>12. CASE UNCHANGED vars
  BY <1>12, <1>u, Zenon DEF vars, receiver, sender, uplink
<1> QED BY <1>1, <1>2, <1>3, <1>4, <1>5, <1>6, <1>7, <1>8, <1>10, <1>11, <1>12
      DEF Next, Cycle, FcPosition, SystemHealth, FcSysTime

\* RxLineBuf is never written past its end, whatever is received, and the
\* length that is waited for always fits in it (RunRxWindow, BL-86).
THEOREM TypeCorrect == Spec => []TypeOK
<1>1. TypeInv => TypeOK
  <2> SUFFICES ASSUME TypeInv PROVE TypeOK OBVIOUS
  <2>1. /\ ReaderOK(rx) /\ DownlinkSeq \in 0..U32 - 1 /\ LastSentSeq \in 0..U32 - 1
        /\ PendingUplinkFeedback \in {"OK", "CRC_FAIL"} /\ events \in 0..MaxEvents
    BY DEF TypeInv
  <2>2. rx.mode = "ACK2" => Len(rx.buf) < rx.target /\ rx.target < LINE_BUF_LEN
    BY <2>1, Sizes DEF ReaderOK
  <2>3. /\ Len(rx.buf) =< LINE_BUF_LEN - 1 /\ rx.mode \in Modes
        /\ rx.mode = "NONE" <=> rx.buf = << >>
        /\ rx.mode = "UP2_BODY" => Len(rx.buf) < rx.target /\ rx.target < LINE_BUF_LEN
    BY <2>1 DEF ReaderOK, Readers
  <2> QED BY <2>1, <2>2, <2>3 DEF TypeOK
<1> QED BY InitType, NextType, <1>1, PTL DEF Spec

------------------------------------------------------------------------------
(* The position *)

\* A position that is out of the range of an int16 is announced as such, in
\* every frame that carries one (ScaleMeterToI16Cm, BuildDl2Frame).
THEOREM PositionCorrect == Spec => PositionIsHonest
<1>1. TypeInv /\ [Next]_vars =>
        [down' # down /\ down'.type # "SH" => down'.pos = cache.pos \/ down'.saturated]_vars
  <2> SUFFICES ASSUME Next, down' # down, down'.type # "SH"
               PROVE  down'.pos = cache.pos \/ down'.saturated
    OBVIOUS
  <2>1. down' = Frame
    BY DEF Next, Cycle, RunTx, EndWindow, Reopen, ReadByte, ReadError, FcPosition,
       SystemHealth, FcSysTime, UpdateCache, SetDownlinkProtocol, GroundAck, GroundSend,
       LoseByte, DamageByte, AddByte, AirFault, sender
  <2>2. CASE down' = BuildDl2Frame
    <3>1. PICK p : p = cache.pos OBVIOUS
    <3>2. down'.pos = ScaleMeter(p).value /\ down'.saturated = ScaleMeter(p).saturated
      BY <2>2, <3>1 DEF BuildDl2Frame
    <3>3. ScaleMeter(p).saturated = (p > I16_MAX \/ p < -I16_MAX - 1) BY DEF ScaleMeter
    <3>4. ScaleMeter(p).value =
            IF p > I16_MAX THEN I16_MAX ELSE IF p < -I16_MAX - 1 THEN -I16_MAX - 1 ELSE p
      BY DEF ScaleMeter
    <3>5. CASE p > I16_MAX \/ p < -I16_MAX - 1 BY <3>2, <3>3, <3>5, Zenon
    <3>6. CASE ~ (p > I16_MAX \/ p < -I16_MAX - 1) BY <3>1, <3>2, <3>4, <3>6, Zenon
    <3> QED BY <3>5, <3>6
  <2>3. CASE down' = BuildFcDownlinkLine
    BY <2>3 DEF BuildFcDownlinkLine
  <2>4. CASE down' = BuildShDownlinkLine
    BY <2>4 DEF BuildShDownlinkLine
  <2> QED BY <2>1, <2>2, <2>3, <2>4, Zenon DEF Frame
<1> QED BY InitType, NextType, <1>1, PTL DEF Spec, PositionIsHonest
------------------------------------------------------------------------------
(* The frame on the line, byte by byte *)

\* What has come or is to come of the frame on the line.
Held == rx.buf \o wire

\* The reader in the midst of frame F is waiting for its end.
Reads(r, F) ==
    r.buf # << >> =>
      /\ F[1] = ACK2_MAGIC => r.mode = "ACK2" /\ r.target = 5
      /\ F[1] = UP2_MAGIC =>
           IF Len(r.buf) = 1 THEN r.mode = "UP2_HDR"
                             ELSE r.mode = "UP2_BODY" /\ r.target = 7 + F[2] + 2
      /\ F[1] \notin {ACK2_MAGIC, UP2_MAGIC} => r.mode = "TEXT"

LEMMA AppendIs ==
    ASSUME NEW s \in Seq(Nat), NEW b \in Nat
    PROVE  /\ Append(s, b) \in Seq(Nat) /\ Len(Append(s, b)) = Len(s) + 1
           /\ Append(s, b)[Len(s) + 1] = b
           /\ \A i \in 1..Len(s) : Append(s, b)[i] = s[i]
  OBVIOUS

\* A byte b moves from the beginning of w to the end of s.
Moved(s, n, w, F, b, t, u, m, l) ==
    /\ n \in Nat /\ m \in Nat /\ l \in Nat /\ b \in Nat /\ F[m] = b /\ F = u \o t
    /\ Glued(F, s, n, w, l + 1) /\ Glued(F, u, m, t, l)
    /\ u \in Seq(Nat) /\ Len(u) = m /\ u[m] = b
    /\ t \in Seq(Nat) /\ (t = << >> <=> l = 0)

LEMMA MoveByte ==
    ASSUME NEW s \in Seq(Nat), NEW n \in Nat, Len(s) = n,
           NEW w \in Seq(Nat), w # << >>, NEW F, F = s \o w, NEW b, b = Head(w),
           NEW t, t = Tail(w), NEW u, u = Append(s, b), NEW m, m = n + 1, NEW l, l = Len(t)
    PROVE  Moved(s, n, w, F, b, t, u, m, l)
<1>1. /\ b \in Nat /\ t \in Seq(Nat) /\ Len(t) = Len(w) - 1 /\ Len(w) \in Nat \ {0}
      /\ b = w[1]
      /\ \A i \in 1..Len(t) : t[i] = w[i + 1]
  BY HeadTailProperties
<1>l. m \in Nat /\ l \in Nat
  <2>1. PICK z \in Nat : z = Len(w) /\ z # 0 BY <1>1
  <2>2. z - 1 \in Nat BY <2>1
  <2> QED BY <1>1, <2>1, <2>2
<1>3. PICK k : k = l + 1 OBVIOUS
<1>k. k \in Nat BY <1>l, <1>3
<1>4. Len(w) = k /\ b = w[1] BY <1>1, <1>3, <1>l
<1>5. /\ u \in Seq(Nat) /\ Len(u) = m /\ u[m] = b
      /\ \A i \in Nat : 1 =< i /\ i =< n => u[i] = s[i]
  <2>1. /\ Append(s, b) \in Seq(Nat) /\ Len(Append(s, b)) = Len(s) + 1
        /\ Append(s, b)[Len(s) + 1] = b
        /\ \A i \in 1..Len(s) : Append(s, b)[i] = s[i]
    BY <1>1, AppendIs
  <2> QED BY <2>1
<1>6. Glued(F, s, n, w, k) BY <1>4, <1>k, Glue, Zenon
<1>7. PICK G : G = u \o t OBVIOUS
<1>8. Glued(G, u, m, t, l) BY <1>1, <1>l, <1>5, <1>7, Glue, Zenon
<1>9. /\ F \in Seq(Nat) /\ Len(F) = n + k
      /\ \A i \in Nat : 1 =< i /\ i =< n => F[i] = s[i]
      /\ \A i \in Nat : 1 =< i /\ i =< k => F[n + i] = w[i]
  BY <1>6 DEF Glued
<1>10. /\ G \in Seq(Nat) /\ Len(G) = m + l
       /\ \A i \in Nat : 1 =< i /\ i =< m => G[i] = u[i]
       /\ \A i \in Nat : 1 =< i /\ i =< l => G[m + i] = t[i]
  BY <1>8 DEF Glued
<1>11. F[m] = b
  <2>1. 1 \in Nat /\ 1 =< k BY <1>3, <1>l
  <2>2. F[n + 1] = w[1] BY <1>9, <2>1
  <2> QED BY <1>4, <2>2
<1>12. ASSUME NEW i \in Nat, 1 =< i, i =< n + k PROVE F[i] = G[i]
  <2>1. CASE i =< n
    <3>1. i =< m BY <1>l, <1>12, <2>1
    <3> QED BY <1>5, <1>9, <1>10, <1>12, <2>1, <3>1
  <2>2. CASE i = m
    <3>0. 1 =< m /\ m =< m BY <1>12, <1>l, <2>2
    <3>1. G[m] = u[m] BY <1>10, <1>l, <3>0
    <3> QED BY <1>5, <1>11, <2>2, <3>1, Zenon
  <2>3. CASE m < i
    <3>1. PICK j \in Nat, h \in Nat : j = i - m /\ h = j + 1 BY <1>l, <1>12, <2>3
    <3>2. 1 =< j /\ j =< l /\ m + j = i /\ 1 =< h /\ h =< k /\ n + h = i
      BY <1>3, <1>l, <1>12, <2>3, <3>1
    <3>3. F[i] = w[h] BY <1>9, <3>2
    <3>4. G[i] = t[j] BY <1>10, <3>2
    <3>5. j \in 1..Len(t) BY <3>2
    <3>6. t[j] = w[j + 1] BY <1>1, <3>5
    <3> QED BY <3>1, <3>3, <3>4, <3>6
  <2>4. i =< n \/ i = m \/ m < i BY <1>l, <1>12
  <2> QED BY <2>1, <2>2, <2>3, <2>4
<1>13. F = G
  <2>1. n + k = m + l BY <1>3, <1>l
  <2>2. Len(F) = n + k /\ Len(G) = n + k BY <1>9, <1>10, <2>1
  <2>3. \A i \in 1..(n + k) : F[i] = G[i]
    <3>1. \A i \in 1..(n + k) : i \in Nat /\ 1 =< i /\ i =< n + k BY <1>k
    <3> QED BY <1>12, <3>1, Zenon
  <2> QED BY <1>9, <1>10, <2>2, <2>3, SeqEqual
<1>14. t = << >> <=> l = 0 BY <1>1, EmptySeq
<1> QED BY <1>1, <1>l, <1>3, <1>5, <1>6, <1>7, <1>8, <1>11, <1>13, <1>14 DEF Moved

\* t is F from the byte after the first n on.
IsRest(t, F, n) ==
    /\ t \in Seq(Nat) /\ n \in Nat /\ Len(F) \in Nat /\ Len(t) = Len(F) - n
    /\ \A i \in Nat : 1 =< i /\ i =< Len(F) - n => t[i] = F[n + i]

\* The next byte of the frame.
LEMMA HeldIs ==
    ASSUME TypeInv, wire # << >>, NEW F, F = Held, NEW n, n = Len(rx.buf),
           NEW b, b = Head(wire), NEW k, k = Len(F)
    PROVE  /\ F \in Seq(Nat) /\ F # << >> /\ n \in Nat /\ b \in Nat /\ k \in Nat /\ n + 1 =< k
           /\ F[n + 1] = b /\ \A i \in Nat : 1 =< i /\ i =< n => F[i] = rx.buf[i]
           /\ Append(rx.buf, b) \o Tail(wire) = F
           /\ Tail(wire) = << >> <=> n + 1 = k
           /\ n + 1 = k => Append(rx.buf, b) = F
           /\ IsRest(Tail(wire), F, n + 1)
<1>1. rx.buf \in Seq(Nat) /\ wire \in Seq(Nat) BY DEF TypeInv, ReaderOK, Readers
<1>2. n \in Nat BY <1>1
<1>3. PICK t, u, m : t = Tail(wire) /\ u = Append(rx.buf, b) /\ m = n + 1 OBVIOUS
<1>l. PICK l : l = Len(t) OBVIOUS
<1>m. Moved(rx.buf, n, wire, F, b, t, u, m, l)
  <2>1. F = rx.buf \o wire BY DEF Held
  <2>2. Len(rx.buf) = n OBVIOUS
  <2> QED BY <1>1, <1>2, <1>3, <1>l, <2>1, <2>2, MoveByte, Zenon
<1>4. /\ m \in Nat /\ l \in Nat /\ b \in Nat /\ F[m] = b /\ F = u \o t
      /\ Glued(F, rx.buf, n, wire, l + 1) /\ Glued(F, u, m, t, l)
      /\ u \in Seq(Nat) /\ Len(u) = m /\ u[m] = b
      /\ t \in Seq(Nat) /\ (t = << >> <=> l = 0)
  BY <1>m DEF Moved
<1>5. \A i \in Nat : 1 =< i /\ i =< n => F[i] = rx.buf[i] BY <1>4 DEF Glued
<1>6. /\ F \in Seq(Nat) /\ k = m + l
      /\ \A i \in Nat : 1 =< i /\ i =< l => F[m + i] = t[i]
      /\ SubSeq(F, 1, m) = u
  BY <1>4 DEF Glued
<1>7. /\ k \in Nat /\ m =< k /\ l = k - m /\ F # << >>
  <2>1. k = m + l BY <1>6
  <2>2. m \in Nat /\ l \in Nat /\ m = n + 1 BY <1>3, <1>4
  <2>3. k \in Nat /\ m =< k /\ l = k - m /\ k > 0 BY <1>2, <2>1, <2>2
  <2>4. Len(<< >>) = 0 /\ Len(F) # 0 BY <2>3
  <2>5. F # << >> BY <2>4, Zenon
  <2> QED BY <2>3, <2>5
<1>8. m = k => u = F
  <2> SUFFICES ASSUME m = k PROVE u = F OBVIOUS
  <2>1. l = 0 BY <1>6, <1>7
  <2>2. \A i \in Nat : 1 =< i /\ i =< m => F[i] = u[i] BY <1>4 DEF Glued
  <2>3. Len(u) = m /\ Len(F) = m BY <1>4
  <2>4. \A i \in 1..m : u[i] = F[i]
    <3>1. \A i \in 1..m : i \in Nat /\ 1 =< i /\ i =< m BY <1>4
    <3> QED BY <2>2, <3>1, Zenon
  <2> QED BY <1>4, <1>6, <2>3, <2>4, SeqEqual
<1>9. /\ F[n + 1] = b /\ n + 1 =< k
      /\ n + 1 = k => Append(rx.buf, b) = F
  BY <1>3, <1>4, <1>7, <1>8
<1>10. Tail(wire) = << >> <=> n + 1 = k
  <2>1. l = 0 <=> m = k BY <1>4, <1>6, <1>7
  <2> QED BY <1>3, <1>4, <2>1
<1>11. Append(rx.buf, b) \o Tail(wire) = F BY <1>3, <1>4
<1>12. IsRest(Tail(wire), F, n + 1)
  <2>1. Len(t) = k - m BY <1>l, <1>7
  <2>2. \A i \in Nat : 1 =< i /\ i =< k - m => t[i] = F[m + i] BY <1>6, <1>7
  <2>3. IsRest(t, F, m) BY <1>4, <1>7, <2>1, <2>2, Zenon DEF IsRest
  <2> QED BY <1>3, <2>3
<1> QED BY <1>2, <1>3, <1>4, <1>5, <1>6, <1>7, <1>9, <1>10, <1>11, <1>12

\* What a byte of frame F does: the next one is waited for, or the frame is
\* given up, or it is complete and taken by handler H.
Waits(F) == wire' # << >> /\ Held' = F /\ Reads(rx', F) /\ Nothing
GivesUp(F) ==
    /\ Len(rx.buf) >= LINE_BUF_LEN - 1
    /\ rx' = RxStart /\ wire' = Tail(wire) /\ Nothing
Ends(F, H) == Len(F) =< LINE_BUF_LEN - 1 /\ wire' = << >> /\ rx' = RxStart /\ H

\* A line of text.
Text(F) ==
    /\ F[1] \notin {ACK2_MAGIC, UP2_MAGIC} /\ F[Len(F)] = NewLine
    /\ \A i \in Nat : 1 =< i /\ i < Len(F) => F[i] # NewLine

LEMMA TextRead ==
    ASSUME TypeInv, ReadByte, NEW F, F = Held, Reads(rx, F), Text(F)
    PROVE  Waits(F) \/ GivesUp(F) \/ Ends(F, ProcessRxLine(F))
<1>1. PICK n, b, k : n = Len(rx.buf) /\ b = Head(wire) /\ k = Len(F) OBVIOUS
<1>2. wire # << >> /\ wire' = Tail(wire) BY DEF ReadByte
<1>3. /\ F \in Seq(Nat) /\ n \in Nat /\ b \in Nat /\ k \in Nat /\ n + 1 =< k /\ F[n + 1] = b
      /\ Append(rx.buf, b) \o Tail(wire) = F
      /\ Tail(wire) = << >> <=> n + 1 = k
      /\ n + 1 = k => Append(rx.buf, b) = F
  BY <1>1, <1>2, HeldIs
<1>4. CASE n >= LINE_BUF_LEN - 1
  BY <1>1, <1>2, <1>4 DEF GivesUp, ReadByte, Overflow
<1>5. CASE ~ (n >= LINE_BUF_LEN - 1)
  <2>1. PICK r : r = Stored(b) OBVIOUS
  <2>2. /\ r.buf = Append(rx.buf, b) /\ Len(r.buf) = n + 1
        /\ rx.buf # << >> => r.mode = rx.mode
        /\ rx.buf = << >> => (b \notin {ACK2_MAGIC, UP2_MAGIC} => r.mode = "TEXT")
    BY <1>1, <1>3, <2>1, StoredIs DEF TypeInv
  <2>3. r.mode = "TEXT"
    <3>1. CASE rx.buf = << >>
      <4>1. n = 0 BY <1>1, <3>1
      <4>2. b = F[1]
        <5>1. n + 1 = 1 BY <4>1
        <5> QED BY <1>3, <5>1
      <4> QED BY <2>2, <3>1, <4>2 DEF Text
    <3>2. CASE rx.buf # << >> BY <2>2, <3>2 DEF Reads, Text
    <3> QED BY <3>1, <3>2
  <2>4. r.buf[n + 1] = b
    <3>1. rx.buf \in Seq(Nat) BY DEF TypeInv, ReaderOK, Readers
    <3> QED BY <1>1, <1>3, <2>2, <3>1
  <2>5. LineEnded(r) <=> n + 1 = k
    <3>1. LineEnded(r) <=> b = NewLine BY <2>2, <2>3, <2>4 DEF LineEnded
    <3>2. CASE n + 1 = k BY <1>1, <1>3, <3>1, <3>2 DEF Text
    <3>3. CASE n + 1 # k
      <4>1. n + 1 \in Nat /\ 1 =< n + 1 /\ n + 1 < k BY <1>3, <3>3
      <4>2. F[n + 1] # NewLine BY <1>1, <4>1 DEF Text
      <4> QED BY <1>3, <3>1, <3>3, <4>2
    <3> QED BY <3>2, <3>3
  <2>6. ~FrameEnded(r) BY <2>3 DEF FrameEnded
  <2>7. CASE n + 1 = k
    <3>1. rx' = RxStart /\ ProcessRxLine(r.buf)
      BY <1>1, <1>5, <2>1, <2>5, <2>6, <2>7 DEF ReadByte
    <3>2. r.buf = F BY <1>3, <2>2, <2>7
    <3>3. k =< LINE_BUF_LEN - 1 BY <1>3, <1>5, <2>7, Sizes
    <3> QED BY <1>1, <1>2, <1>3, <2>7, <3>1, <3>2, <3>3 DEF Ends
  <2>8. CASE n + 1 # k
    <3>1. rx' = r /\ Nothing
      <4>1. /\ rx' = (IF r.mode = "UP2_HDR" THEN Header(r) ELSE r)
            /\ Nothing
        BY <1>1, <1>5, <2>1, <2>5, <2>6, <2>8 DEF ReadByte
      <4> QED BY <2>3, <4>1
    <3>2. Held' = F BY <1>2, <1>3, <2>2, <3>1, Zenon DEF Held
    <3>3. Reads(rx', F) BY <2>3, <3>1 DEF Reads, Text
    <3> QED BY <1>2, <1>3, <2>8, <3>1, <3>2, <3>3 DEF Waits
  <2> QED BY <2>7, <2>8
<1> QED BY <1>4, <1>5

\* A binary frame, whose length its first bytes tell.
Binary(F) ==
    /\ Len(F) =< LINE_BUF_LEN - 1
    /\ \/ F[1] = ACK2_MAGIC /\ Len(F) = 5
       \/ /\ F[1] = UP2_MAGIC /\ F[2] \in Nat /\ F[2] =< MAX_PAYLOAD
          /\ Len(F) = 7 + F[2] + 2

LEMMA BinaryRead ==
    ASSUME TypeInv, ReadByte, NEW F, F = Held, Reads(rx, F), Binary(F)
    PROVE  Waits(F) \/ Ends(F, ProcessRxBinaryFrame(F))
<1>1. PICK n, b, k : n = Len(rx.buf) /\ b = Head(wire) /\ k = Len(F) OBVIOUS
<1>2. wire # << >> /\ wire' = Tail(wire) BY DEF ReadByte
<1>3. /\ F \in Seq(Nat) /\ n \in Nat /\ b \in Nat /\ k \in Nat /\ n + 1 =< k /\ F[n + 1] = b
      /\ Append(rx.buf, b) \o Tail(wire) = F
      /\ Tail(wire) = << >> <=> n + 1 = k
      /\ n + 1 = k => Append(rx.buf, b) = F
      /\ \A i \in Nat : 1 =< i /\ i =< n => F[i] = rx.buf[i]
  BY <1>1, <1>2, HeldIs
<1>4. ~ (n >= LINE_BUF_LEN - 1) /\ k =< LINE_BUF_LEN - 1
  BY <1>1, <1>3, Sizes DEF Binary
<1>5. PICK r : r = Stored(b) OBVIOUS
<1>6. /\ r \in Readers /\ r.buf = Append(rx.buf, b) /\ Len(r.buf) = n + 1
      /\ rx.buf # << >> => r.mode = rx.mode /\ r.target = rx.target
      /\ rx.buf = << >> =>
           /\ b = ACK2_MAGIC => r.mode = "ACK2" /\ r.target = 5
           /\ b = UP2_MAGIC => r.mode = "UP2_HDR"
  BY <1>1, <1>3, <1>5, StoredIs DEF TypeInv
<1>7. rx.buf = << >> <=> n = 0
  <2>1. rx.buf \in Seq(Nat) BY DEF TypeInv, ReaderOK, Readers
  <2> QED BY <1>1, <2>1
<1>8. ACK2_MAGIC # UP2_MAGIC BY DEF ACK2_MAGIC, UP2_MAGIC
<1>9. ASSUME r.mode \in {"ACK2", "UP2_BODY"}, r.target = k
      PROVE  Waits(F) \/ Ends(F, ProcessRxBinaryFrame(F))
  <2>1. ~LineEnded(r) BY <1>9 DEF LineEnded
  <2>2. FrameEnded(r) <=> n + 1 = k BY <1>3, <1>6, <1>9 DEF FrameEnded
  <2>3. CASE n + 1 = k
    <3>1. rx' = RxStart /\ ProcessRxBinaryFrame(r.buf)
      BY <1>1, <1>4, <1>5, <2>1, <2>2, <2>3 DEF ReadByte
    <3>2. r.buf = F BY <1>3, <1>6, <2>3
    <3> QED BY <1>1, <1>2, <1>3, <1>4, <2>3, <3>1, <3>2 DEF Ends
  <2>4. CASE n + 1 # k
    <3>1. rx' = r /\ Nothing
      <4>1. rx' = (IF r.mode = "UP2_HDR" THEN Header(r) ELSE r) /\ Nothing
        BY <1>1, <1>4, <1>5, <2>1, <2>2, <2>4 DEF ReadByte
      <4> QED BY <1>9, <4>1
    <3>2. Held' = F BY <1>2, <1>3, <1>6, <3>1, Zenon DEF Held
    <3>3. Reads(rx', F)
      <4>1. CASE F[1] = ACK2_MAGIC
        <5>1. r.mode = "ACK2"
          <6>1. CASE n = 0
            <7>1. b = F[1]
              <8>1. n + 1 = 1 BY <6>1
              <8> QED BY <1>3, <8>1
            <7> QED BY <1>6, <1>7, <4>1, <6>1, <7>1
          <6>2. CASE n # 0 BY <1>6, <1>7, <4>1, <6>2 DEF Reads
          <6> QED BY <6>1, <6>2
        <5>2. k = 5 BY <1>1, <1>8, <4>1 DEF Binary
        <5> QED BY <1>8, <1>9, <3>1, <4>1, <5>1, <5>2 DEF Reads
      <4>2. CASE F[1] = UP2_MAGIC
        <5>1. r.mode = "UP2_BODY" /\ Len(r.buf) # 1
          <6>1. CASE n = 0
            <7>1. b = F[1]
              <8>1. n + 1 = 1 BY <6>1
              <8> QED BY <1>3, <8>1
            <7> QED BY <1>6, <1>7, <1>9, <4>2, <6>1, <7>1
          <6>2. CASE n # 0
            <7>1. r.mode \in {"UP2_HDR", "UP2_BODY"} BY <1>6, <1>7, <4>2, <6>2 DEF Reads
            <7> QED BY <1>3, <1>6, <1>9, <6>2, <7>1
          <6> QED BY <6>1, <6>2
        <5>2. k = 7 + F[2] + 2 BY <1>1, <1>8, <4>2 DEF Binary
        <5> QED BY <1>8, <1>9, <3>1, <4>2, <5>1, <5>2 DEF Reads
      <4> QED BY <4>1, <4>2 DEF Binary
    <3> QED BY <1>2, <1>3, <2>4, <3>1, <3>2, <3>3 DEF Waits
  <2> QED BY <2>3, <2>4
<1>10. CASE F[1] = ACK2_MAGIC
  <2>1. k = 5 BY <1>1, <1>8, <1>10 DEF Binary
  <2>2. r.mode = "ACK2" /\ r.target = 5
    <3>1. CASE n = 0
      <4>1. b = F[1]
        <5>1. n + 1 = 1 BY <3>1
        <5> QED BY <1>3, <5>1
      <4> QED BY <1>6, <1>7, <1>10, <3>1, <4>1
    <3>2. CASE n # 0 BY <1>6, <1>7, <1>10, <3>2 DEF Reads
    <3> QED BY <3>1, <3>2
  <2> QED BY <1>9, <2>1, <2>2
<1>11. CASE F[1] = UP2_MAGIC
  <2>1. F[2] =< MAX_PAYLOAD /\ k = 7 + F[2] + 2 BY <1>1, <1>8, <1>11 DEF Binary
  <2>2. CASE n >= 2
    <3>1. rx.mode = "UP2_BODY" /\ rx.target = k
      <4>1. n # 0 /\ n # 1 BY <1>3, <2>2
      <4>t. rx.buf # << >> /\ Len(rx.buf) # 1 BY <1>1, <1>7, <4>1
      <4>2. rx.mode = "UP2_BODY" /\ rx.target = 7 + F[2] + 2 BY <1>11, <4>t DEF Reads
      <4> QED BY <2>1, <4>2
    <3> QED BY <1>6, <1>7, <1>9, <2>2, <3>1
  <2>3. CASE n < 2
    <3>1. r.mode = "UP2_HDR"
      <4>1. CASE n = 0
        <5>1. b = F[1]
          <6>1. n + 1 = 1 BY <4>1
          <6> QED BY <1>3, <6>1
        <5> QED BY <1>6, <1>7, <1>11, <4>1, <5>1
      <4>2. CASE n = 1 BY <1>1, <1>6, <1>7, <1>11, <4>2 DEF Reads
      <4> QED BY <1>3, <2>3, <4>1, <4>2
    <3>2. ~LineEnded(r) /\ ~FrameEnded(r) BY <3>1 DEF LineEnded, FrameEnded
    <3>3. rx' = Header(r) /\ Nothing
      BY <1>1, <1>4, <1>5, <3>1, <3>2 DEF ReadByte
    <3>4. k # n + 1 /\ F[2] \in Nat
      <4>1. PICK x \in Nat : x = F[2] BY <1>8, <1>11 DEF Binary
      <4>2. k = 7 + x + 2 BY <2>1, <4>1
      <4>3. k # n + 1 BY <1>3, <2>3, <4>2
      <4> QED BY <4>1, <4>3
    <3>5. Held' = F /\ Reads(rx', F)
      <4>1. CASE n = 0
        <5>0. Len(r.buf) = 1 BY <1>6, <4>1
        <5>1. Header(r) = r BY <5>0 DEF Header
        <5>2. Held' = F BY <1>2, <1>3, <1>6, <3>3, <5>1, Zenon DEF Held
        <5>3. rx' = r BY <3>3, <5>1
        <5>4. Reads(r, F) BY <1>8, <1>11, <3>1, <5>0 DEF Reads
        <5> QED BY <5>2, <5>3, <5>4
      <4>2. CASE n = 1
        <5>1. r.buf[2] = F[2]
          <6>1. rx.buf \in Seq(Nat) BY DEF TypeInv, ReaderOK, Readers
          <6> QED BY <1>1, <1>3, <1>6, <4>2, <6>1
        <5>2. PICK x \in Nat : x = F[2] BY <3>4
        <5>3. /\ Header(r).buf = r.buf /\ Header(r).mode = "UP2_BODY"
              /\ Header(r).target = 7 + x + 2
          <6>1. Len(r.buf) = 2 /\ x = r.buf[2] /\ x =< MAX_PAYLOAD BY <1>6, <2>1, <4>2, <5>1, <5>2
          <6> QED BY <1>6, <5>2, <6>1, HeaderIs
        <5>4. Held' = F BY <1>2, <1>3, <1>6, <3>3, <5>3, Zenon DEF Held
        <5>5. PICK h : h = Header(r) OBVIOUS
        <5>6. Len(h.buf) # 1 /\ h.mode = "UP2_BODY" /\ h.target = 7 + F[2] + 2
          BY <1>6, <4>2, <5>2, <5>3, <5>5
        <5>7. Reads(h, F) BY <1>8, <1>11, <5>6 DEF Reads
        <5> QED BY <3>3, <5>4, <5>5, <5>7
      <4> QED BY <1>3, <2>3, <4>1, <4>2
    <3> QED BY <1>2, <1>3, <3>3, <3>4, <3>5 DEF Waits
  <2> QED BY <1>3, <2>2, <2>3
<1> QED BY <1>10, <1>11 DEF Binary
------------------------------------------------------------------------------
(* The receiver understands what the ground sends *)

\* What is decoded from a binary command is the command.
LEMMA Up2Understood ==
    ASSUME NEW c \in Command, Len(c.payload) =< MAX_PAYLOAD, NEW F, F = Up2(c)
    PROVE  ParseUp2Frame(F) /\ Up2Decoded(F) = Content(c) /\ Binary(F) /\ F[1] = UP2_MAGIC
<1>1. PICK n : n = Len(c.payload) OBVIOUS
<1>2. /\ n \in Nat /\ F \in Seq(Nat) /\ Len(F) = 7 + n + 2
      /\ F[1] = UP2_MAGIC /\ F[2] = n /\ F[3] = c.version /\ F[4] = c.class
      /\ GetU16LE(F, 5) = c.seq /\ F[7] = c.flags
      /\ SubSeq(F, 8, 7 + n) = c.payload
      /\ Crc16(SubSeq(F, 1, 7 + n)) = GetU16LE(F, 7 + n + 1)
  <2>1. IsUp2(F, c, n) BY <1>1, Up2Is, Zenon
  <2> QED BY <2>1 DEF IsUp2
<1>3. n =< MAX_PAYLOAD BY <1>1
<1>4. 7 + n + 2 >= 8 /\ 7 + n + 2 =< LINE_BUF_LEN - 1 BY <1>2, <1>3, Sizes
<1>5. ParseUp2Frame(F) BY <1>2, <1>3, <1>4 DEF ParseUp2Frame
<1>6. Up2Decoded(F) = Content(c) BY <1>2, Zenon DEF Up2Decoded, Content
<1>7. Binary(F) BY <1>2, <1>3, <1>4 DEF Binary
<1> QED BY <1>2, <1>5, <1>6, <1>7

\* What is decoded from a command in text is the command.
LEMMA UpUnderstood ==
    ASSUME NEW c \in Command, Len(c.payload) =< MAX_PAYLOAD, NEW F, F = Up(c)
    PROVE  ParseUpFrame(F) /\ UpDecoded(F) = Content(c)
<1>1. PICK n : n = Len(c.payload) OBVIOUS
<1>2. /\ n \in Nat /\ F \in Seq(Nat) /\ Len(F) = 2 * n + 10
      /\ F[2] = 48 + c.version /\ F[3] = 48 + c.class /\ F[4] = 48 + c.seq
      /\ F[5] = 48 + c.flags
      /\ SubSeq(F, 6, 2 * n + 5) = Hex(c.payload)
      /\ HexCrc(Crc16(SubSeq(F, 1, 2 * n + 5))) = SubSeq(F, 2 * n + 6, 2 * n + 9)
  <2>1. IsUp(F, c, n) BY <1>1, UpIs, Zenon
  <2> QED BY <2>1 DEF IsUp
<1>3. c.payload \in Seq(Byte)
      /\ \A v \in {c.version, c.class, c.seq, c.flags} : v \in Nat
  BY CommandIs
<1>4. PICK x : x = Hex(c.payload) OBVIOUS
<1>5. PICK m \in Nat : m = 2 * n BY <1>2
<1>6. /\ x \in Seq(Nat) /\ Len(x) = m
      /\ \A i \in 1..m : x[i] >= 48 /\ x[i] =< 63
      /\ \A i \in 1..n : x[2 * i - 1] = 48 + (c.payload[i] \div 16)
                         /\ x[2 * i] = 48 + (c.payload[i] % 16)
  BY <1>1, <1>3, <1>4, <1>5, HexIs
<1>7. Digits(F) = x
  <2>1. (2 * n + 10) - 5 = 2 * n + 5 BY <1>2
  <2>2. Digits(F) = SubSeq(F, 6, 2 * n + 5) BY <1>2, <2>1 DEF Digits
  <2> QED BY <1>2, <1>4, <2>2
<1>8. m % 2 = 0 /\ m \div 2 = n BY <1>2, <1>5
<1>9. \A i \in 1..m : HexNibble(x[i]) = x[i] - 48 /\ HexNibble(x[i]) >= 0
  <2> SUFFICES ASSUME NEW i \in 1..m PROVE HexNibble(x[i]) = x[i] - 48 /\ HexNibble(x[i]) >= 0
    OBVIOUS
  <2>1. PICK z \in Nat : z = x[i] BY <1>6
  <2>2. z >= 48 /\ z =< 63 BY <1>6, <2>1
  <2>3. HexNibble(z) = z - 48 BY <2>2 DEF HexNibble
  <2> QED BY <2>1, <2>2, <2>3
<1>10. ParseUpFrame(F)
  <2>1. Len(F) >= 10 /\ Len(F) - 5 = 2 * n + 5 /\ Len(F) - 4 = 2 * n + 6
        /\ Len(F) - 1 = 2 * n + 9
    BY <1>2
  <2>2. HexCrc(Crc16(SubSeq(F, 1, Len(F) - 5))) = SubSeq(F, Len(F) - 4, Len(F) - 1)
    BY <1>2, <2>1
  <2>3. Len(Digits(F)) % 2 = 0 /\ Len(Digits(F)) \div 2 =< MAX_PAYLOAD
    BY <1>1, <1>6, <1>7, <1>8
  <2>4. \A i \in 1..Len(Digits(F)) : HexNibble(Digits(F)[i]) >= 0 BY <1>6, <1>7, <1>9
  <2> QED BY <2>1, <2>2, <2>3, <2>4 DEF ParseUpFrame
<1>11. UpDecoded(F) = Content(c)
  <2>1. PICK p : p = [i \in 1..n |-> 16 * HexNibble(x[2 * i - 1]) + HexNibble(x[2 * i])]
    OBVIOUS
  <2>2. ASSUME NEW i \in 1..n PROVE p[i] = c.payload[i]
    <3>1. PICK b \in Byte : b = c.payload[i] BY <1>1, <1>3
    <3>2. /\ b \div 16 \in Nat /\ b \div 16 =< 15 /\ b % 16 \in Nat /\ b % 16 =< 15
          /\ 16 * (b \div 16) + (b % 16) = b
      BY HalvesOf
    <3>3. 2 * i - 1 \in 1..m /\ 2 * i \in 1..m BY <1>2, <1>5
    <3>4. PICK h, l : h = x[2 * i - 1] /\ l = x[2 * i] OBVIOUS
    <3>5. h = 48 + (b \div 16) /\ l = 48 + (b % 16) BY <1>6, <3>1, <3>4
    <3>6. HexNibble(h) = h - 48 /\ HexNibble(l) = l - 48 BY <1>9, <3>3, <3>4
    <3>7. HexNibble(h) = b \div 16 /\ HexNibble(l) = b % 16 BY <3>2, <3>5, <3>6
    <3>8. p[i] = 16 * HexNibble(h) + HexNibble(l) BY <2>1, <3>4
    <3> QED BY <3>1, <3>2, <3>7, <3>8
  <2>3. p = c.payload
    <3>1. c.payload = [i \in 1..n |-> c.payload[i]] BY <1>1, <1>3
    <3> QED BY <2>1, <2>2, <3>1, Zenon
  <2>4. UpDecoded(F).payload = p /\ UpDecoded(F) = [version |-> F[2] - 48, class |-> F[3] - 48,
           seq |-> F[4] - 48, flags |-> F[5] - 48, payload |-> p]
    BY <1>6, <1>7, <1>8, <2>1, Zenon DEF UpDecoded
  <2>5. /\ F[2] - 48 = c.version /\ F[3] - 48 = c.class /\ F[4] - 48 = c.seq
        /\ F[5] - 48 = c.flags
    <3>1. c.version \in Nat /\ c.class \in Nat /\ c.seq \in Nat /\ c.flags \in Nat BY <1>3
    <3>2. \A v \in Nat : (48 + v) - 48 = v OBVIOUS
    <3> QED BY <1>2, <3>1, <3>2, Zenon
  <2> QED BY <2>3, <2>4, <2>5, Zenon DEF Content
<1> QED BY <1>10, <1>11

LEMMA SameChecksum == \A c : ProxyCrc(Content(c)) = ProxyCrc(c)
  BY DEF ProxyCrc, Content

------------------------------------------------------------------------------
(* What was delivered *)

Entry(c) == [cmd |-> Content(c), checksum |-> ProxyCrc(c)]
Entries == {Entry(c) : c \in Command}

\* Nothing is forwarded, and what was sent first is still there.
LEMMA DeliveredStays ==
    ASSUME NEW k, Delivered(k), forwarded' = forwarded, \A n \in 1..k : sent'[n] = sent[n]
    PROVE  Delivered(k)'
<1>1. PICK f \in [1..Len(forwarded) -> 1..k] :
         /\ InOrder(f)
         /\ \A n \in 1..k : Fits(sent[n]) <=> \E i \in 1..Len(forwarded) : f[i] = n
  BY DEF Delivered
<1>2. \A i \in 1..Len(forwarded) : sent'[f[i]] = sent[f[i]] BY <1>1
<1>3. InOrder(f)' BY <1>1, <1>2 DEF InOrder
<1>4. \A n \in 1..k : Fits(sent'[n]) <=> \E i \in 1..Len(forwarded') : f[i] = n
  BY <1>1, Zenon
<1> QED BY <1>1, <1>3, <1>4, Zenon DEF Delivered

\* A command that the buffer cannot hold is passed over.
LEMMA DeliverNothing ==
    ASSUME NEW k \in Nat, Delivered(k), forwarded' = forwarded, sent' = sent,
           NEW m, m = k + 1, ~Fits(sent[m])
    PROVE  Delivered(m)'
<1>1. PICK f \in [1..Len(forwarded) -> 1..k] :
         /\ InOrder(f)
         /\ \A n \in 1..k : Fits(sent[n]) <=> \E i \in 1..Len(forwarded) : f[i] = n
  BY DEF Delivered
<1>2. 1..k \subseteq 1..m /\ m \notin 1..k /\ \A n \in 1..m : n = m \/ n \in 1..k OBVIOUS
<1>3. f \in [1..Len(forwarded) -> 1..m] BY <1>1, <1>2, Zenon
<1>4. InOrder(f)' BY <1>1 DEF InOrder
<1>5. \A n \in 1..m : Fits(sent'[n]) <=> \E i \in 1..Len(forwarded') : f[i] = n
  <2> SUFFICES ASSUME NEW n \in 1..m
               PROVE  Fits(sent[n]) <=> \E i \in 1..Len(forwarded) : f[i] = n
    OBVIOUS
  <2>1. \A i \in 1..Len(forwarded) : f[i] \in 1..k BY <1>1, Zenon
  <2>2. CASE n = m BY <1>2, <2>1, <2>2, Zenon
  <2>3. CASE n # m
    <3>1. n \in 1..k BY <1>2, <2>3, Zenon
    <3> QED BY <1>1, <3>1, Zenon
  <2> QED BY <2>2, <2>3
<1> QED BY <1>3, <1>4, <1>5, Zenon DEF Delivered

\* The next command is forwarded.
LEMMA DeliverNext ==
    ASSUME NEW k \in Nat, Delivered(k), NEW m, m = k + 1, Fits(sent[m]), sent' = sent,
           forwarded \in Seq(Entries), sent[m] \in Command,
           forwarded' = Append(forwarded, Entry(sent[m]))
    PROVE  forwarded' \in Seq(Entries) /\ Delivered(m)'
<1>1. PICK f \in [1..Len(forwarded) -> 1..k] :
         /\ InOrder(f)
         /\ \A n \in 1..k : Fits(sent[n]) <=> \E i \in 1..Len(forwarded) : f[i] = n
  BY DEF Delivered
<1>2. PICK l : l = Len(forwarded) OBVIOUS
<1>3. l \in Nat BY <1>2
<1>4. PICK q : q = l + 1 OBVIOUS
<1>5. PICK e : e = Entry(sent[m]) OBVIOUS
<1>6. e \in Entries /\ e.cmd = Content(sent[m]) /\ e.checksum = ProxyCrc(sent[m])
  BY <1>5 DEF Entries, Entry
<1>7. /\ forwarded' \in Seq(Entries) /\ Len(forwarded') = q /\ forwarded'[q] = e
      /\ \A i \in 1..l : forwarded'[i] = forwarded[i]
  BY <1>2, <1>4, <1>5, <1>6
<1>8. /\ 1..k \subseteq 1..m /\ m \notin 1..k /\ m \in 1..m
      /\ \A n \in 1..m : n = m \/ n \in 1..k
  OBVIOUS
<1>9. /\ 1..l \subseteq 1..q /\ q \notin 1..l /\ q \in 1..q
      /\ \A n \in 1..q : n = q \/ n \in 1..l
  BY <1>3, <1>4
<1>10. PICK g : g = [i \in 1..q |-> IF i = q THEN m ELSE f[i]] OBVIOUS
<1>11. g[q] = m /\ \A i \in 1..l : g[i] = f[i] BY <1>9, <1>10, Zenon
<1>12. \A i \in 1..l : f[i] \in 1..k BY <1>1, <1>2, Zenon
<1>13. g \in [1..q -> 1..m]
  <2>1. \A i \in 1..q : g[i] \in 1..m BY <1>8, <1>9, <1>11, <1>12, Zenon
  <2> QED BY <1>10, <2>1, Zenon
<1>14. ASSUME NEW i \in 1..q, NEW j \in 1..q, i < j PROVE g[i] < g[j]
  <2>1. i \in 1..l BY <1>3, <1>4, <1>14
  <2>2. CASE j = q
    <3>1. g[i] \in 1..k /\ g[j] = m BY <1>11, <1>12, <2>1, <2>2
    <3> QED BY <3>1
  <2>3. CASE j # q
    <3>1. j \in 1..l BY <1>9, <2>3, Zenon
    <3>2. f[i] < f[j] BY <1>1, <1>2, <1>14, <2>1, <3>1, Zenon DEF InOrder
    <3> QED BY <1>11, <2>1, <3>1, <3>2
  <2> QED BY <2>2, <2>3
<1>15. ASSUME NEW i \in 1..q
       PROVE  /\ forwarded'[i].cmd = Content(sent[g[i]])
              /\ forwarded'[i].checksum = ProxyCrc(sent[g[i]])
  <2>1. CASE i = q BY <1>6, <1>7, <1>11, <2>1, Zenon
  <2>2. CASE i # q
    <3>1. i \in 1..l BY <1>9, <2>2, Zenon
    <3>2. /\ forwarded[i].cmd = Content(sent[f[i]])
          /\ forwarded[i].checksum = ProxyCrc(sent[f[i]])
      BY <1>1, <1>2, <3>1, Zenon DEF InOrder
    <3> QED BY <1>7, <1>11, <3>1, <3>2, Zenon
  <2> QED BY <2>1, <2>2
<1>16. InOrder(g)' BY <1>7, <1>14, <1>15, Zenon DEF InOrder
<1>17. ASSUME NEW n \in 1..m PROVE Fits(sent[n]) <=> \E i \in 1..q : g[i] = n
  <2>1. CASE n = m BY <1>9, <1>11, <2>1, Zenon
  <2>2. CASE n # m
    <3>1. n \in 1..k BY <1>8, <2>2, Zenon
    <3>2. (\E i \in 1..q : g[i] = n) <=> (\E i \in 1..l : f[i] = n)
      BY <1>9, <1>11, <2>2, Zenon
    <3> QED BY <1>1, <1>2, <3>1, <3>2, Zenon
  <2> QED BY <2>1, <2>2
<1>18. \A n \in 1..m : Fits(sent'[n]) <=> \E i \in 1..Len(forwarded') : g[i] = n
  BY <1>7, <1>17, Zenon
<1> QED BY <1>7, <1>13, <1>16, <1>18, Zenon DEF Delivered
------------------------------------------------------------------------------
(* A line without faults *)

\* An acknowledgement, of the frame sent last unless it is late.
Acknowledges(F) ==
    \E v \in Nat :
      \/ /\ F = Ack2(v)
         /\ late \/ v % U16 = LastSentSeq % U16
      \/ /\ F = Ack(v)
         /\ late \/ v = LastSentSeq

\* What is left of a line that is too long for the buffer.
Remainder(F) ==
    /\ F \in Seq(Nat) /\ F # << >> /\ F[Len(F)] = NewLine
    /\ \A i \in Nat : 1 =< i /\ i < Len(F) => F[i] >= 48 /\ F[i] =< 63

\* The frame that the ground is to acknowledge.
DownIsLast ==
    toAck => \/ down.type = "DL2" /\ down.seq = LastSentSeq % U16
             \/ down.type # "DL2" /\ down.seq = LastSentSeq

\* What can be on the line: nothing, or something to which no command
\* belongs, or the command sent last.
OnLine ==
    \/ wire = << >> /\ rx = RxStart /\ Delivered(Len(sent))
    \/ /\ wire # << >> /\ Reads(rx, Held)
       /\ Acknowledges(Held) \/ Remainder(Held)
       /\ Delivered(Len(sent))
    \/ /\ wire # << >> /\ Reads(rx, Held) /\ sent # << >>
       /\ Held = Bytes(sent[Len(sent)])
       /\ Delivered(Len(sent) - 1)

Short == \A i \in 1..Len(sent) : Len(sent[i].payload) =< MAX_PAYLOAD
Failures == seqFail => late \/ damaged
Clean == PendingUplinkFeedback = "OK" /\ forwarded \in Seq(Entries) /\ OnLine

CleanInv == DownIsLast /\ Failures /\ Short /\ (~damaged => Clean)

\* What ReadByte leaves alone.
LEMMA ReadLeaves ==
    ReadByte => UNCHANGED <<LastSentSeq, down, sent, toAck, late, damaged>>
  BY DEF ReadByte, sender

\* A byte of an acknowledgement.
LEMMA ReadAck ==
    ASSUME TypeInv, ReadByte, wire # << >>, Reads(rx, Held), Acknowledges(Held), Failures,
           Clean, Delivered(Len(sent))
    PROVE  Failures' /\ Clean'
<1>0. UNCHANGED <<LastSentSeq, down, sent, toAck, late, damaged>> BY ReadLeaves
<1>1. PICK F : F = Held OBVIOUS
<1>d. ASSUME UNCHANGED forwarded PROVE Delivered(Len(sent))'
  <2>1. PICK k : k = Len(sent) OBVIOUS
  <2>2. Delivered(k)' BY <1>0, <1>d, <2>1, DeliveredStays
  <2> QED BY <1>0, <2>1, <2>2
<1>w. ASSUME Waits(F) PROVE Failures' /\ Clean'
  <2>1. UNCHANGED <<seqFail, forwarded, PendingUplinkFeedback>>
    BY <1>w DEF Waits, Nothing, NoAck, uplink
  <2>2. wire' # << >> /\ Held' = F /\ Reads(rx', F) BY <1>w DEF Waits
  <2>3. Acknowledges(Held)'
    <3>1. Acknowledges(F)' BY <1>0, <1>1 DEF Acknowledges
    <3> QED BY <2>2, <3>1
  <2>4. OnLine' BY <1>d, <2>1, <2>2, <2>3 DEF OnLine
  <2> QED BY <1>0, <2>1, <2>4 DEF Failures, Clean
<1>e. ASSUME wire' = << >>, rx' = RxStart, NEW intact, NEW echoes, ProcessAck(intact, echoes),
             intact => late \/ echoes
      PROVE  Failures' /\ Clean'
  <2>1. UNCHANGED <<forwarded, PendingUplinkFeedback>> BY <1>e DEF ProcessAck, uplink
  <2>2. Failures' BY <1>0, <1>e, Zenon DEF ProcessAck, Failures
  <2>3. OnLine' BY <1>d, <1>e, <2>1 DEF OnLine
  <2> QED BY <2>1, <2>2, <2>3 DEF Clean
<1>2. ASSUME NEW v \in Nat, F = Ack2(v), late \/ v % U16 = LastSentSeq % U16
      PROVE  Failures' /\ Clean'
  <2>1. F \in Seq(Nat) /\ Len(F) = 5 /\ F[1] = ACK2_MAGIC /\ GetU16LE(F, 2) = v % U16
    BY <1>2, Ack2Is
  <2>2. Binary(F) BY <2>1, Sizes DEF Binary
  <2>3. Waits(F) \/ Ends(F, ProcessRxBinaryFrame(F)) BY <1>1, <2>2, BinaryRead
  <2>4. ASSUME Ends(F, ProcessRxBinaryFrame(F)) PROVE Failures' /\ Clean'
    <3>1. wire' = << >> /\ rx' = RxStart /\ ProcessRxBinaryFrame(F) BY <2>4 DEF Ends
    <3>2. ProcessAck(ParseAck2Frame(F), Echoes(GetU16LE(F, 2)))
      BY <2>1, <3>1, Zenon DEF ProcessRxBinaryFrame
    <3>3. late \/ Echoes(GetU16LE(F, 2)) BY <1>2, <2>1 DEF Echoes
    <3> QED BY <1>e, <3>1, <3>2, <3>3
  <2> QED BY <1>w, <2>3, <2>4
<1>3. ASSUME NEW v \in Nat, F = Ack(v), late \/ v = LastSentSeq PROVE Failures' /\ Clean'
  <2>1. F \in Seq(Nat) /\ Len(F) = 3 /\ F[1] = LetterA /\ F[2] = 48 + v /\ F[3] = NewLine
    BY <1>3, AckIs
  <2>2. Text(F)
    <3>1. F[1] \notin {ACK2_MAGIC, UP2_MAGIC} BY <2>1 DEF LetterA, ACK2_MAGIC, UP2_MAGIC
    <3>2. F[Len(F)] = NewLine BY <2>1
    <3>3. ASSUME NEW i \in Nat, 1 =< i, i < Len(F) PROVE F[i] # NewLine
      <4>1. i = 1 \/ i = 2 BY <2>1, <3>3
      <4>2. F[1] = 65 /\ F[2] >= 48 BY <2>1 DEF LetterA
      <4> QED BY <4>1, <4>2 DEF NewLine
    <3> QED BY <3>1, <3>2, <3>3 DEF Text
  <2>3. Waits(F) \/ GivesUp(F) \/ Ends(F, ProcessRxLine(F)) BY <1>1, <2>2, TextRead
  <2>4. ~GivesUp(F)
    <3>1. PICK n : n = Len(rx.buf) OBVIOUS
    <3>2. PICK k : k = Len(F) OBVIOUS
    <3>3. n \in Nat /\ n + 1 =< k
      <4>1. PICK b : b = Head(wire) OBVIOUS
      <4> QED BY <1>1, <3>1, <3>2, <4>1, HeldIs
    <3>4. k = 3 BY <2>1, <3>2
    <3>5. ~ (n >= LINE_BUF_LEN - 1) BY <3>3, <3>4, Sizes
    <3> QED BY <3>1, <3>5 DEF GivesUp
  <2>5. ASSUME Ends(F, ProcessRxLine(F)) PROVE Failures' /\ Clean'
    <3>1. wire' = << >> /\ rx' = RxStart /\ ProcessRxLine(F) BY <2>5 DEF Ends
    <3>2. PICK intact, echoes : /\ intact = (Len(F) = 3 /\ F[2] \in 48..57)
                                /\ echoes = (intact /\ F[2] - 48 = LastSentSeq)
      OBVIOUS
    <3>3. ProcessAck(intact, echoes)
      <4>1. ProcessAck(Len(F) = 3 /\ F[2] \in 48..57,
                       (Len(F) = 3 /\ F[2] \in 48..57) /\ F[2] - 48 = LastSentSeq)
        <5>1. LetterA # LetterU BY DEF LetterA, LetterU
        <5> QED BY <2>1, <3>1, <5>1 DEF ProcessRxLine
      <4> QED BY <3>2, <4>1, Zenon
    <3>4. intact => late \/ echoes
      <4>1. F[2] - 48 = v BY <2>1
      <4> QED BY <1>3, <3>2, <4>1
    <3> QED BY <1>e, <3>1, <3>3, <3>4
  <2> QED BY <1>w, <2>3, <2>4, <2>5
<1> QED BY <1>1, <1>2, <1>3 DEF Acknowledges

\* What follows the bytes that were given up.
LEMMA RemainderLeft ==
    ASSUME TypeInv, ReadByte, wire # << >>, NEW F, F = Held, F[Len(F)] = NewLine,
           NEW l \in Nat, Len(rx.buf) >= l,
           \A i \in Nat : l < i /\ i < Len(F) => F[i] >= 48 /\ F[i] =< 63,
           GivesUp(F)
    PROVE  wire' = << >> \/ Remainder(Held')
<1>1. PICK n, b, k, t : n = Len(rx.buf) /\ b = Head(wire) /\ k = Len(F) /\ t = Tail(wire)
  OBVIOUS
<1>2. /\ n \in Nat /\ k \in Nat /\ n + 1 =< k /\ t \in Seq(Nat) /\ Len(t) = k - (n + 1)
      /\ \A i \in Nat : 1 =< i /\ i =< k - (n + 1) => t[i] = F[(n + 1) + i]
  <2>1. n \in Nat /\ k \in Nat /\ n + 1 =< k BY <1>1, HeldIs
  <2>2. IsRest(Tail(wire), F, n + 1) BY <1>1, HeldIs
  <2> QED BY <1>1, <2>1, <2>2, Zenon DEF IsRest
<1>3. wire' = t /\ rx' = RxStart BY <1>1 DEF GivesUp
<1>4. Held' = t
  <2>1. << >> \o t = t BY <1>2, ConcatEmptySeq
  <2>2. Held' = << >> \o t BY <1>3 DEF Held, RxStart
  <2> QED BY <2>1, <2>2
<1>5. ASSUME t # << >> PROVE Remainder(t)
  <2>1. PICK m : m = Len(t) OBVIOUS
  <2>2. m \in Nat /\ m # 0 /\ m = k - (n + 1)
    <3>1. m \in Nat /\ m = k - (n + 1) BY <1>2, <2>1
    <3>2. m # 0 BY <1>2, <1>5, <2>1, EmptySeq
    <3> QED BY <3>1, <3>2
  <2>3. t[m] = NewLine
    <3>1. 1 =< m /\ (n + 1) + m = k BY <1>2, <2>2
    <3>2. t[m] = F[(n + 1) + m] BY <1>2, <2>2, <3>1
    <3> QED BY <1>1, <3>1, <3>2
  <2>4. ASSUME NEW i \in Nat, 1 =< i, i < m PROVE t[i] >= 48 /\ t[i] =< 63
    <3>1. PICK j \in Nat : j = (n + 1) + i BY <1>2
    <3>2. l < j /\ j < k /\ i =< k - (n + 1)
      <4>1. n >= l BY <1>1
      <4> QED BY <1>2, <2>2, <2>4, <3>1, <4>1
    <3>3. t[i] = F[j] BY <1>2, <2>4, <3>1, <3>2
    <3> QED BY <1>1, <3>2, <3>3
  <2> QED BY <1>2, <1>5, <2>1, <2>3, <2>4 DEF Remainder
<1> QED BY <1>3, <1>4, <1>5

\* A byte of the rest of a line.
LEMMA ReadRemainder ==
    ASSUME TypeInv, ReadByte, wire # << >>, Reads(rx, Held), Remainder(Held), Failures,
           Clean, Delivered(Len(sent))
    PROVE  Failures' /\ Clean'
<1>0. UNCHANGED <<LastSentSeq, down, sent, toAck, late, damaged>> BY ReadLeaves
<1>1. PICK F : F = Held OBVIOUS
<1>2. /\ F \in Seq(Nat) /\ F # << >> /\ F[Len(F)] = NewLine
      /\ \A i \in Nat : 1 =< i /\ i < Len(F) => F[i] >= 48 /\ F[i] =< 63
  BY <1>1 DEF Remainder
<1>3. F[1] = NewLine \/ (F[1] >= 48 /\ F[1] =< 63)
  <2>1. PICK k \in Nat : k = Len(F) /\ k # 0 BY <1>2, EmptySeq
  <2>2. CASE k = 1 BY <1>2, <2>1, <2>2
  <2>3. CASE k # 1
    <3>1. 1 \in Nat /\ 1 =< 1 /\ 1 < k BY <2>1, <2>3
    <3> QED BY <1>2, <2>1, <3>1
  <2> QED BY <2>2, <2>3
<1>4. F[1] \notin {ACK2_MAGIC, UP2_MAGIC, LetterA, LetterU}
  <2>1. F[1] = 10 \/ F[1] =< 63 BY <1>3 DEF NewLine
  <2> QED BY <2>1 DEF ACK2_MAGIC, UP2_MAGIC, LetterA, LetterU
<1>5. Text(F)
  <2>1. \A i \in Nat : 1 =< i /\ i < Len(F) => F[i] # NewLine BY <1>2 DEF NewLine
  <2> QED BY <1>2, <1>4, <2>1 DEF Text
<1>6. Waits(F) \/ GivesUp(F) \/ Ends(F, ProcessRxLine(F)) BY <1>1, <1>5, TextRead
<1>7. ASSUME UNCHANGED <<seqFail, forwarded, PendingUplinkFeedback>>,
             \/ wire' = << >> /\ rx' = RxStart
             \/ wire' # << >> /\ Reads(rx', Held') /\ Remainder(Held')
      PROVE  Failures' /\ Clean'
  <2>1. PICK k : k = Len(sent) OBVIOUS
  <2>2. Delivered(k)' BY <1>0, <1>7, <2>1, DeliveredStays
  <2>3. Delivered(Len(sent))' BY <1>0, <2>1, <2>2
  <2>4. Remainder(Held') <=> Remainder(Held)' BY DEF Remainder
  <2>5. OnLine' BY <1>7, <2>3, <2>4 DEF OnLine
  <2> QED BY <1>0, <1>7, <2>5 DEF Failures, Clean
<1>8. ASSUME Nothing PROVE UNCHANGED <<seqFail, forwarded, PendingUplinkFeedback>>
  BY <1>8 DEF Nothing, NoAck, uplink
<1>9. CASE Waits(F)
  <2>1. /\ wire' # << >> /\ Held' = F /\ Reads(rx', F) /\ Nothing /\ Remainder(F)
    BY <1>1, <1>9 DEF Waits
  <2> QED BY <1>7, <1>8, <2>1
<1>10. CASE GivesUp(F)
  <2>1. Nothing /\ rx' = RxStart BY <1>10 DEF GivesUp
  <2>2. wire' = << >> \/ Remainder(Held')
    <3>1. Len(rx.buf) >= 0
      <4>1. rx.buf \in Seq(Nat) BY DEF TypeInv, ReaderOK, Readers
      <4> QED BY <4>1
    <3>2. \A i \in Nat : 0 < i /\ i < Len(F) => F[i] >= 48 /\ F[i] =< 63 BY <1>2
    <3>3. 0 \in Nat OBVIOUS
    <3> QED BY <1>1, <1>2, <1>10, <3>1, <3>2, <3>3, RemainderLeft
  <2>3. Reads(rx', Held') BY <2>1 DEF Reads, RxStart
  <2> QED BY <1>7, <1>8, <2>1, <2>2, <2>3
<1>11. CASE Ends(F, ProcessRxLine(F))
  <2>1. wire' = << >> /\ rx' = RxStart /\ ProcessRxLine(F) BY <1>11 DEF Ends
  <2>2. Nothing BY <1>4, <2>1 DEF ProcessRxLine, Nothing
  <2> QED BY <1>7, <1>8, <2>1, <2>2
<1> QED BY <1>6, <1>9, <1>10, <1>11

\* A byte of a command.
LEMMA ReadCommand ==
    ASSUME TypeInv, ReadByte, wire # << >>, Reads(rx, Held), sent # << >>,
           Held = Bytes(sent[Len(sent)]), Delivered(Len(sent) - 1), Failures, Short, Clean
    PROVE  Failures' /\ Clean'
<1>0. UNCHANGED <<LastSentSeq, down, sent, toAck, late, damaged>> BY ReadLeaves
<1>1. PICK F, m, c, n : F = Held /\ m = Len(sent) /\ c = sent[m] /\ n = Len(c.payload)
  OBVIOUS
<1>2. m \in Nat /\ m # 0 /\ c \in Command /\ n =< MAX_PAYLOAD
  <2>1. sent \in Seq(Command) BY DEF TypeInv
  <2>2. m \in Nat /\ m # 0 BY <1>1, <2>1, EmptySeq
  <2>3. m \in 1..Len(sent) BY <1>1, <2>2
  <2>4. c \in Command BY <1>1, <2>1, <2>3, ElementOfSeq
  <2> QED BY <1>1, <2>2, <2>3, <2>4 DEF Short
<1>3. PICK k \in Nat : k = m - 1 /\ m = k + 1 BY <1>2
<1>4. Delivered(k) /\ F = Bytes(c) BY <1>1, <1>3
<1>5. PendingUplinkFeedback = "OK" /\ forwarded \in Seq(Entries) BY DEF Clean
<1>s. ASSUME Nothing PROVE UNCHANGED <<seqFail, forwarded, PendingUplinkFeedback>>
  BY <1>s DEF Nothing, NoAck, uplink
<1>6. CASE Waits(F)
  <2>1. /\ wire' # << >> /\ Held' = F /\ Reads(rx', F)
        /\ UNCHANGED <<seqFail, forwarded, PendingUplinkFeedback>>
    BY <1>6, <1>s DEF Waits
  <2>2. Delivered(k)' BY <1>0, <1>4, <2>1, DeliveredStays
  <2>3. Delivered(Len(sent) - 1)' BY <1>0, <1>1, <1>3, <2>2
  <2>4. OnLine'
    <3>1. sent' # << >> /\ Held' = Bytes(sent'[Len(sent')]) /\ Reads(rx', Held')
      BY <1>0, <1>1, <2>1
    <3> QED BY <2>1, <2>3, <3>1, Zenon DEF OnLine
  <2> QED BY <1>0, <1>5, <2>1, <2>4 DEF Failures, Clean
<1>7. ASSUME Fits(c), wire' = << >>, rx' = RxStart, NoAck, NEW x, Forward(x), x = Content(c)
      PROVE  Failures' /\ Clean'
  <2>1. forwarded' = Append(forwarded, Entry(c)) /\ PendingUplinkFeedback' = "OK"
    BY <1>7, SameChecksum DEF Forward, Entry
  <2>2. forwarded' \in Seq(Entries) /\ Delivered(m)'
    BY <1>0, <1>1, <1>2, <1>3, <1>4, <1>5, <1>7, <2>1, DeliverNext
  <2>3. Delivered(Len(sent))' BY <1>0, <1>1, <2>2
  <2>4. OnLine' BY <1>7, <2>3 DEF OnLine
  <2> QED BY <1>0, <1>7, <2>1, <2>2, <2>4 DEF Failures, Clean, NoAck
<1>8. CASE c.v2
  <2>1. F = Up2(c) BY <1>4, <1>8 DEF Bytes
  <2>2. ParseUp2Frame(F) /\ Up2Decoded(F) = Content(c) /\ Binary(F) /\ F[1] = UP2_MAGIC
    BY <1>1, <1>2, <2>1, Up2Understood
  <2>3. Waits(F) \/ Ends(F, ProcessRxBinaryFrame(F)) BY <1>1, <2>2, BinaryRead
  <2>4. CASE Ends(F, ProcessRxBinaryFrame(F))
    <3>1. /\ Len(F) =< LINE_BUF_LEN - 1 /\ wire' = << >> /\ rx' = RxStart
          /\ ProcessRxBinaryFrame(F)
      BY <2>4 DEF Ends
    <3>2. F[1] # ACK2_MAGIC BY <2>2 DEF UP2_MAGIC, ACK2_MAGIC
    <3>3. NoAck /\ Forward(Up2Decoded(F)) BY <2>2, <3>1, <3>2, Zenon DEF ProcessRxBinaryFrame
    <3>4. Fits(c) BY <1>4, <3>1 DEF Fits
    <3> QED BY <1>7, <2>2, <3>1, <3>3, <3>4
  <2> QED BY <1>6, <2>3, <2>4
<1>9. CASE ~c.v2
  <2>1. F = Up(c) BY <1>4, <1>9 DEF Bytes
  <2>2. ParseUpFrame(F) /\ UpDecoded(F) = Content(c) BY <1>1, <1>2, <2>1, UpUnderstood
  <2>3. IsUp(F, c, n) BY <1>1, <1>2, <2>1, UpIs, Zenon
  <2>4. /\ n \in Nat /\ F \in Seq(Nat) /\ Len(F) = 2 * n + 10
        /\ F[1] = LetterU /\ F[2 * n + 10] = NewLine
        /\ \A i \in Nat : 2 =< i /\ i =< 2 * n + 9 => F[i] >= 48 /\ F[i] =< 63
    BY <2>3 DEF IsUp
  <2>5. F[Len(F)] = NewLine BY <2>4
  <2>6. \A i \in Nat : 1 < i /\ i < Len(F) => F[i] >= 48 /\ F[i] =< 63
    <3> SUFFICES ASSUME NEW i \in Nat, 1 < i, i < Len(F) PROVE F[i] >= 48 /\ F[i] =< 63
      OBVIOUS
    <3>1. 2 =< i /\ i =< 2 * n + 9 BY <2>4
    <3> QED BY <2>4, <3>1
  <2>7. Text(F)
    <3>1. F[1] \notin {ACK2_MAGIC, UP2_MAGIC} /\ F[1] # NewLine
      BY <2>4 DEF LetterU, ACK2_MAGIC, UP2_MAGIC, NewLine
    <3>2. ASSUME NEW i \in Nat, 1 =< i, i < Len(F) PROVE F[i] # NewLine
      <4>1. CASE i = 1 BY <3>1, <4>1
      <4>2. CASE i # 1
        <5>1. 1 < i BY <3>2, <4>2
        <5>2. F[i] >= 48 BY <2>6, <3>2, <5>1
        <5> QED BY <5>2 DEF NewLine
      <4> QED BY <4>1, <4>2
    <3> QED BY <2>5, <3>1, <3>2 DEF Text
  <2>8. Waits(F) \/ GivesUp(F) \/ Ends(F, ProcessRxLine(F)) BY <1>1, <2>7, TextRead
  <2>9. CASE GivesUp(F)
    <3>1. Nothing /\ rx' = RxStart /\ Len(rx.buf) >= LINE_BUF_LEN - 1 BY <2>9 DEF GivesUp
    <3>2. Len(rx.buf) >= 1 /\ ~Fits(c)
      <4>1. PICK l : l = Len(rx.buf) OBVIOUS
      <4>2. PICK z : z = Len(F) OBVIOUS
      <4>3. l \in Nat /\ z \in Nat /\ l + 1 =< z
        <5>1. PICK b : b = Head(wire) OBVIOUS
        <5> QED BY <1>1, <4>1, <4>2, <5>1, HeldIs
      <4>4. l >= LINE_BUF_LEN - 1 BY <3>1, <4>1
      <4>5. l >= 1 /\ ~ (z =< LINE_BUF_LEN - 1) BY <4>3, <4>4, Sizes
      <4> QED BY <1>4, <4>1, <4>2, <4>5 DEF Fits
    <3>3. wire' = << >> \/ Remainder(Held')
      <4>1. 1 \in Nat OBVIOUS
      <4> QED BY <1>1, <2>5, <2>6, <2>9, <3>2, <4>1, RemainderLeft
    <3>4. UNCHANGED <<seqFail, forwarded, PendingUplinkFeedback>> BY <1>s, <3>1
    <3>5. Delivered(m)' BY <1>0, <1>1, <1>3, <1>4, <3>2, <3>4, DeliverNothing
    <3>6. Delivered(Len(sent))' BY <1>0, <1>1, <3>5
    <3>7. Remainder(Held') => Remainder(Held)' BY DEF Remainder
    <3>8. Reads(rx, Held)' BY <3>1 DEF Reads, RxStart
    <3>9. OnLine' BY <3>1, <3>3, <3>6, <3>7, <3>8 DEF OnLine
    <3> QED BY <1>0, <1>5, <3>4, <3>9 DEF Failures, Clean
  <2>10. CASE Ends(F, ProcessRxLine(F))
    <3>1. /\ Len(F) =< LINE_BUF_LEN - 1 /\ wire' = << >> /\ rx' = RxStart
          /\ ProcessRxLine(F)
      BY <2>10 DEF Ends
    <3>2. F[1] # LetterA BY <2>4 DEF LetterU, LetterA
    <3>3. NoAck /\ Forward(UpDecoded(F)) BY <2>2, <2>4, <3>1, <3>2 DEF ProcessRxLine
    <3>4. Fits(c) BY <1>4, <3>1 DEF Fits
    <3> QED BY <1>7, <2>2, <3>1, <3>3, <3>4
  <2> QED BY <1>6, <2>8, <2>9, <2>10
<1> QED BY <1>8, <1>9

LEMMA ReadByteClean == ASSUME TypeInv, CleanInv, ReadByte PROVE CleanInv'
<1>0. UNCHANGED <<LastSentSeq, down, sent, toAck, late, damaged>> BY ReadLeaves
<1>1. DownIsLast' /\ Short' BY <1>0 DEF CleanInv, DownIsLast, Short
<1>2. wire # << >> BY DEF ReadByte
<1>3. CASE damaged BY <1>0, <1>1, <1>3 DEF CleanInv, Failures
<1>4. CASE ~damaged
  <2>1. Clean /\ Failures /\ Short BY <1>4 DEF CleanInv
  <2>2. OnLine BY <2>1 DEF Clean
  <2>3. Failures' /\ Clean'
    <3>1. CASE Reads(rx, Held) /\ Acknowledges(Held) /\ Delivered(Len(sent))
      BY <1>2, <2>1, <3>1, ReadAck
    <3>2. CASE Reads(rx, Held) /\ Remainder(Held) /\ Delivered(Len(sent))
      BY <1>2, <2>1, <3>2, ReadRemainder
    <3>3. CASE /\ Reads(rx, Held) /\ sent # << >> /\ Held = Bytes(sent[Len(sent)])
               /\ Delivered(Len(sent) - 1)
      BY <1>2, <2>1, <3>3, ReadCommand
    <3> QED BY <1>2, <2>2, <3>1, <3>2, <3>3 DEF OnLine
  <2> QED BY <1>1, <2>3 DEF CleanInv
<1> QED BY <1>3, <1>4

LEMMA RunTxClean == ASSUME TypeInv, CleanInv, RunTx(TRUE) PROVE CleanInv'
<1>1. /\ down' = Frame /\ LastSentSeq' = DownlinkSeq /\ late' = (late \/ AckPending)
      /\ UNCHANGED <<wire, rx, damaged, sent, seqFail, forwarded, PendingUplinkFeedback>>
  BY DEF RunTx, Kept, uplink
<1>2. DownIsLast'
  <2>1. CASE down' = BuildDl2Frame
    <3>1. down'.type = "DL2" /\ down'.seq = DownlinkSeq % U16 BY <2>1 DEF BuildDl2Frame
    <3> QED BY <1>1, <3>1 DEF DownIsLast
  <2>2. CASE down' = BuildFcDownlinkLine
    <3>1. down'.type = "FC" /\ down'.seq = DownlinkSeq BY <2>2 DEF BuildFcDownlinkLine
    <3> QED BY <1>1, <3>1 DEF DownIsLast
  <2>3. CASE down' = BuildShDownlinkLine
    <3>1. down'.type = "SH" /\ down'.seq = DownlinkSeq BY <2>3 DEF BuildShDownlinkLine
    <3> QED BY <1>1, <3>1 DEF DownIsLast
  <2> QED BY <1>1, <2>1, <2>2, <2>3, Zenon DEF Frame
<1>3. Failures' /\ Short' BY <1>1, Zenon DEF CleanInv, Failures, Short
<1>4. ASSUME Clean PROVE Clean'
  <2>1. OnLine BY <1>4 DEF Clean
  <2>2. Held' = Held BY <1>1 DEF Held
  <2>3. ASSUME NEW k, Delivered(k) PROVE Delivered(k)' BY <1>1, <2>3, DeliveredStays
  <2>4. ASSUME Delivered(Len(sent)) PROVE Delivered(Len(sent))'
    <3>1. PICK k : k = Len(sent) OBVIOUS
    <3>2. Delivered(k)' BY <2>3, <2>4, <3>1
    <3> QED BY <1>1, <3>1, <3>2
  <2>5. ASSUME Delivered(Len(sent) - 1) PROVE Delivered(Len(sent) - 1)'
    <3>1. PICK k : k = Len(sent) - 1 OBVIOUS
    <3>2. Delivered(k)' BY <2>3, <2>5, <3>1
    <3> QED BY <1>1, <3>1, <3>2
  <2>6. ASSUME wire # << >>, Acknowledges(Held) PROVE Acknowledges(Held)'
    <3>1. late' BY <1>1, <2>6 DEF AckPending
    <3> QED BY <2>2, <2>6, <3>1 DEF Acknowledges
  <2>7. Remainder(Held) => Remainder(Held)' BY <2>2 DEF Remainder
  <2>8. Reads(rx, Held) => Reads(rx, Held)' BY <1>1, <2>2 DEF Reads
  <2>9. OnLine' BY <1>1, <2>1, <2>2, <2>4, <2>5, <2>6, <2>7, <2>8 DEF OnLine
  <2> QED BY <1>1, <1>4, <2>9 DEF Clean
<1> QED BY <1>1, <1>2, <1>3, <1>4 DEF CleanInv

LEMMA GroundAckClean == ASSUME TypeInv, CleanInv, GroundAck PROVE CleanInv'
<1>1. /\ wire = << >> /\ toAck /\ ~toAck'
      /\ wire' = (IF down.type = "DL2" THEN Ack2(down.seq) ELSE Ack(down.seq))
      /\ UNCHANGED <<rx, sent, late, seqFail, damaged, forwarded, PendingUplinkFeedback,
                     LastSentSeq, down>>
  BY DEF GroundAck, receiver, sender, uplink
<1>2. DownIsLast' /\ Failures' /\ Short' BY <1>1 DEF DownIsLast, CleanInv, Failures, Short
<1>3. ASSUME Clean PROVE Clean'
  <2>1. rx = RxStart /\ Delivered(Len(sent)) BY <1>1, <1>3 DEF Clean, OnLine
  <2>2. PICK v, w : v = down.seq /\ w = LastSentSeq OBVIOUS
  <2>3. v \in Nat /\ w \in Nat BY <1>1, <2>2 DEF TypeInv
  <2>4. PICK F : F = wire' OBVIOUS
  <2>5. F \in Seq(Nat) /\ F # << >> /\ Acknowledges(F)'
    <3>1. CASE down.type = "DL2"
      <4>1. F = Ack2(v) /\ v = w % U16 BY <1>1, <2>2, <2>4, <3>1 DEF CleanInv, DownIsLast
      <4>2. F \in Seq(Nat) /\ Len(F) = 5 BY <2>3, <4>1, Ack2Is
      <4>3. v % U16 = w % U16 BY <2>3, <4>1, NumbersAssumption
      <4>4. LastSentSeq' = w BY <1>1, <2>2
      <4>5. Acknowledges(F)' BY <2>3, <4>1, <4>3, <4>4, Zenon DEF Acknowledges
      <4>6. F # << >> BY <4>2, EmptySeq
      <4> QED BY <4>2, <4>5, <4>6, Zenon
    <3>2. CASE down.type # "DL2"
      <4>1. F = Ack(v) /\ v = w BY <1>1, <2>2, <2>4, <3>2 DEF CleanInv, DownIsLast
      <4>2. F \in Seq(Nat) /\ Len(F) = 3 BY <2>3, <4>1, AckIs
      <4>3. LastSentSeq' = w BY <1>1, <2>2
      <4>4. Acknowledges(F)' BY <2>3, <4>1, <4>3, Zenon DEF Acknowledges
      <4>5. F # << >> BY <4>2, EmptySeq
      <4> QED BY <4>2, <4>4, <4>5, Zenon
    <3> QED BY <3>1, <3>2
  <2>6. Held' = F
    <3>1. << >> \o F = F BY <2>5, ConcatEmptySeq
    <3> QED BY <1>1, <2>1, <2>4, <3>1 DEF Held, RxStart
  <2>7. Delivered(Len(sent))'
    <3>1. PICK k : k = Len(sent) OBVIOUS
    <3>2. Delivered(k)' BY <1>1, <2>1, <3>1, DeliveredStays
    <3> QED BY <1>1, <3>1, <3>2
  <2>8. Reads(rx, Held)' BY <1>1, <2>1 DEF Reads, RxStart
  <2>9. Acknowledges(Held)' BY <2>5, <2>6 DEF Acknowledges
  <2>10. OnLine' BY <2>4, <2>5, <2>7, <2>8, <2>9 DEF OnLine
  <2> QED BY <1>1, <1>3, <2>10 DEF Clean
<1> QED BY <1>1, <1>2, <1>3 DEF CleanInv

LEMMA GroundSendClean ==
    ASSUME RegularTraffic, TypeInv, CleanInv, NEW script \in Traffic, GroundSend(script)
    PROVE  CleanInv'
<1>1. PICK k, m, c : k = Len(sent) /\ m = k + 1 /\ c = script[m] OBVIOUS
<1>2. /\ sent \in Seq(Command) /\ k \in Nat /\ c \in Command /\ m \in 1..Len(script)
  BY <1>1, ScriptIs DEF GroundSend, TypeInv
<1>3. Len(c.payload) =< MAX_PAYLOAD BY <1>1, <1>2 DEF RegularTraffic
<1>4. /\ wire = << >> /\ wire' = Bytes(c) /\ sent' = Append(sent, c)
      /\ UNCHANGED <<rx, late, toAck, seqFail, damaged, forwarded, PendingUplinkFeedback,
                     LastSentSeq, down>>
  BY <1>1 DEF GroundSend, receiver, sender, uplink
<1>5. Len(sent') = m /\ sent'[m] = c /\ \A n \in 1..k : sent'[n] = sent[n]
  BY <1>1, <1>2, <1>4
<1>6. m - 1 = k /\ \A n \in 1..m : n = m \/ n \in 1..k BY <1>1, <1>2
<1>7. DownIsLast' /\ Failures' BY <1>4 DEF DownIsLast, CleanInv, Failures
<1>8. Short'
  <2>1. \A n \in 1..k : Len(sent[n].payload) =< MAX_PAYLOAD BY <1>1 DEF CleanInv, Short
  <2>2. ASSUME NEW n \in 1..m PROVE Len(sent'[n].payload) =< MAX_PAYLOAD
    <3>1. CASE n = m BY <1>3, <1>5, <3>1
    <3>2. CASE n # m
      <4>1. n \in 1..k BY <1>6, <3>2
      <4> QED BY <1>5, <2>1, <4>1
    <3> QED BY <3>1, <3>2
  <2> QED BY <1>5, <2>2 DEF Short
<1>9. ASSUME Clean PROVE Clean'
  <2>1. rx = RxStart /\ Delivered(k) BY <1>1, <1>4, <1>9 DEF Clean, OnLine
  <2>2. wire' \in Seq(Nat) /\ wire' # << >>
    <3>1. PICK F : F = Bytes(c) OBVIOUS
    <3>2. F \in Seq(Nat) /\ Len(F) # 0 BY <1>2, <3>1, BytesType
    <3> QED BY <1>4, <3>1, <3>2
  <2>3. Held' = Bytes(c)
    <3>1. << >> \o wire' = wire' BY <2>2, ConcatEmptySeq
    <3> QED BY <1>4, <2>1, <3>1 DEF Held, RxStart
  <2>4. Delivered(k)' BY <1>4, <1>5, <2>1, DeliveredStays
  <2>5. Delivered(Len(sent) - 1)' BY <1>5, <1>6, <2>4
  <2>6. Reads(rx, Held)' BY <1>4, <2>1 DEF Reads, RxStart
  <2>7. sent' # << >>
    <3>1. m # 0 BY <1>1, <1>2
    <3> QED BY <1>5, <3>1
  <2>8. OnLine' BY <1>5, <2>2, <2>3, <2>5, <2>6, <2>7, Zenon DEF OnLine
  <2> QED BY <1>4, <1>9, <2>8 DEF Clean
<1> QED BY <1>4, <1>7, <1>8, <1>9 DEF CleanInv

LEMMA InitClean == Init => CleanInv
<1> SUFFICES ASSUME Init PROVE CleanInv OBVIOUS
<1>1. sent = << >> /\ forwarded = << >> /\ Len(sent) = 0 /\ Len(forwarded) = 0 BY DEF Init
<1>2. Delivered(Len(sent))
  <2>1. PICK f : f = [i \in 1..0 |-> 0] OBVIOUS
  <2>2. 1..0 = {} OBVIOUS
  <2>3. f \in [1..0 -> 1..0] BY <2>1, <2>2
  <2>4. InOrder(f) BY <1>1, <2>2 DEF InOrder
  <2> QED BY <1>1, <2>2, <2>3, <2>4, Zenon DEF Delivered
<1>3. forwarded \in Seq(Entries) BY <1>1
<1>4. Clean BY <1>2, <1>3 DEF Init, Clean, OnLine
<1>5. Short BY <1>1 DEF Short
<1> QED BY <1>4, <1>5 DEF Init, CleanInv, DownIsLast, Failures

LEMMA NextClean == ASSUME RegularTraffic PROVE TypeInv /\ CleanInv /\ [Next]_vars => CleanInv'
<1> SUFFICES ASSUME TypeInv, CleanInv, [Next]_vars PROVE CleanInv' OBVIOUS
<1>d. ASSUME damaged', UNCHANGED <<sent, toAck, down, LastSentSeq, seqFail>> PROVE CleanInv'
  BY <1>d DEF CleanInv, DownIsLast, Failures, Short
<1>u. ASSUME UNCHANGED <<wire, rx, forwarded, PendingUplinkFeedback, LastSentSeq, down, sent,
                         toAck, late, seqFail, damaged>>
      PROVE  CleanInv'
  <2>1. DownIsLast' /\ Failures' /\ Short' BY <1>u DEF CleanInv, DownIsLast, Failures, Short
  <2>2. Held' = Held BY <1>u DEF Held
  <2>3. OnLine => OnLine'
    <3>1. \A k : Delivered(k)' <=> Delivered(k) BY <1>u DEF Delivered, InOrder
    <3>2. PICK k : k = Len(sent) OBVIOUS
    <3>3. /\ Delivered(Len(sent))' <=> Delivered(Len(sent))
          /\ Delivered(Len(sent) - 1)' <=> Delivered(Len(sent) - 1)
      BY <1>u, <3>1
    <3>4. Reads(rx, Held)' <=> Reads(rx, Held) BY <1>u, <2>2 DEF Reads
    <3>5. Acknowledges(Held)' <=> Acknowledges(Held) BY <1>u, <2>2 DEF Acknowledges
    <3>6. Remainder(Held)' <=> Remainder(Held) BY <2>2 DEF Remainder
    <3> QED BY <1>u, <2>2, <3>3, <3>4, <3>5, <3>6 DEF OnLine
  <2>4. Clean => Clean' BY <1>u, <2>3 DEF Clean
  <2> QED BY <1>u, <2>1, <2>4 DEF CleanInv
<1>1. CASE RunTx(TRUE) BY <1>1, RunTxClean
<1>2. CASE RunTx(FALSE) BY <1>2, <1>d DEF RunTx
<1>3. CASE EndWindow \/ Reopen
  BY <1>3, <1>u, Zenon DEF EndWindow, Reopen, sender, uplink
<1>4. CASE ReadByte BY <1>4, ReadByteClean
<1>5. CASE ReadError BY <1>5, <1>d DEF ReadError, sender
<1>6. ASSUME NEW c, UpdateCache(c) PROVE CleanInv'
  BY <1>6, <1>u DEF UpdateCache, receiver, uplink
<1>7. ASSUME NEW v2 \in BOOLEAN, SetDownlinkProtocol(v2) PROVE CleanInv'
  BY <1>7, <1>u DEF SetDownlinkProtocol, receiver, uplink
<1>8. CASE GroundAck BY <1>8, GroundAckClean
<1>9. ASSUME NEW script \in Traffic, GroundSend(script) PROVE CleanInv'
  BY <1>9, GroundSendClean
<1>10. CASE LoseByte \/ \E b \in NoiseBytes : DamageByte(b) \/ AddByte(b)
  BY <1>10, <1>d DEF LoseByte, DamageByte, AddByte, AirFault, receiver, sender
<1>11. CASE UNCHANGED vars BY <1>11, <1>u, Zenon DEF vars, receiver, sender, uplink
<1> QED BY <1>1, <1>2, <1>3, <1>4, <1>5, <1>6, <1>7, <1>8, <1>9, <1>10, <1>11
      DEF Next, Cycle, FcPosition, SystemHealth, FcSysTime

LEMMA Cleanliness == ASSUME RegularTraffic PROVE Spec => []CleanInv
  BY InitType, NextType, InitClean, NextClean, PTL DEF Spec

\* SEQ_FAIL is only reported when an acknowledgement did come late or through
\* a fault, also when the sequence number has wrapped (ProcessAck2Frame, BL-80).
THEOREM SeqFailCorrect == ASSUME RegularTraffic PROVE Spec => []SeqFailIsReal
<1>1. CleanInv => SeqFailIsReal BY DEF CleanInv, Failures, SeqFailIsReal
<1> QED BY Cleanliness, <1>1, PTL

\* Without faults, once all bytes are read, every command that fits in the
\* buffer was forwarded, in order and once, and none was called damaged
\* (RunRxWindow, ProcessUp2Frame, ProcessUpFrame).
THEOREM DeliveryCorrect == ASSUME RegularTraffic PROVE Spec => []CleanLineDelivers
<1>1. CleanInv => CleanLineDelivers BY DEF CleanInv, Clean, OnLine, CleanLineDelivers
<1> QED BY Cleanliness, <1>1, PTL

\* Without faults, at every moment and also in the midst of a frame: the
\* commands handed to uplink_app were sent, in this order and each once
\* (ForwardUp2ToUplinkApp, ProcessUpFrame).  With faults this hangs on what the
\* checksum can tell apart.
THEOREM ForwardedCorrect == ASSUME RegularTraffic PROVE Spec => [](~damaged => ForwardedWereSent)
<1>1. TypeInv /\ CleanInv => (~damaged => ForwardedWereSent)
  <2> SUFFICES ASSUME TypeInv, CleanInv, ~damaged PROVE ForwardedWereSent OBVIOUS
  <2>1. PICK m \in Nat : m = Len(sent) BY DEF TypeInv
  <2>2. \A k : Delivered(k) /\ 1..k \subseteq 1..m => ForwardedWereSent
    <3> SUFFICES ASSUME NEW k, Delivered(k), 1..k \subseteq 1..m PROVE ForwardedWereSent
      OBVIOUS
    <3>1. PICK f \in [1..Len(forwarded) -> 1..k] : InOrder(f) BY DEF Delivered
    <3>2. f \in [1..Len(forwarded) -> 1..Len(sent)] BY <2>1, <3>1, Zenon
    <3> QED BY <3>1, <3>2 DEF ForwardedWereSent
  <2>3. 1..m \subseteq 1..m /\ 1..(m - 1) \subseteq 1..m OBVIOUS
  <2>4. Delivered(m) \/ Delivered(m - 1) BY <2>1 DEF CleanInv, Clean, OnLine
  <2> QED BY <2>2, <2>3, <2>4, Zenon
<1> QED BY InitType, NextType, InitClean, NextClean, <1>1, PTL DEF Spec
==============================================================================
