--------------------------- MODULE VmeDataProofs ----------------------------
(***************************************************************************)
(* Proofs of ExpressComparesSent and PairDiffers of VmeData, for scans of  *)
(* every size and whatever the devices answer.                             *)
(***************************************************************************)
EXTENDS VmeData, WellFoundedInduction, SequenceTheorems, TLAPS

-----------------------------------------------------------------------------
(* Bits and bytes. *)

LEMMA Powers ==
    /\ 2^(7 - 0) = 128 /\ 2^(7 - 1) = 64 /\ 2^(7 - 2) = 32 /\ 2^(7 - 3) = 16
    /\ 2^(7 - 4) = 8 /\ 2^(7 - 5) = 4 /\ 2^(7 - 6) = 2 /\ 2^(7 - 7) = 1
  OBVIOUS

LEMMA PowerAt ==
    ASSUME NEW j \in 0 .. 7
    PROVE  /\ j = 0 => 2^(7 - j) = 128
           /\ j = 1 => 2^(7 - j) = 64
           /\ j = 2 => 2^(7 - j) = 32
           /\ j = 3 => 2^(7 - j) = 16
           /\ j = 4 => 2^(7 - j) = 8
           /\ j = 5 => 2^(7 - j) = 4
           /\ j = 6 => 2^(7 - j) = 2
           /\ j = 7 => 2^(7 - j) = 1
<1>1. j = 0 => 2^(7 - j) = 128
  BY Powers, Zenon
<1>2. j = 1 => 2^(7 - j) = 64
  BY Powers, Zenon
<1>3. j = 2 => 2^(7 - j) = 32
  BY Powers, Zenon
<1>4. j = 3 => 2^(7 - j) = 16
  BY Powers, Zenon
<1>5. j = 4 => 2^(7 - j) = 8
  BY Powers, Zenon
<1>6. j = 5 => 2^(7 - j) = 4
  BY Powers, Zenon
<1>7. j = 6 => 2^(7 - j) = 2
  BY Powers, Zenon
<1>8. j = 7 => 2^(7 - j) = 1
  BY Powers, Zenon
<1> QED
  BY <1>1, <1>2, <1>3, <1>4, <1>5, <1>6, <1>7, <1>8, Zenon

\* What a division by a power of two leaves.
LEMMA Div128 == \A x \in Nat, r \in 0 .. 127 : (128 * x + r) \div 128 = x
  OBVIOUS
LEMMA Div64 == \A x \in Nat, r \in 0 .. 63 : (64 * x + r) \div 64 = x
  OBVIOUS
LEMMA Div32 == \A x \in Nat, r \in 0 .. 31 : (32 * x + r) \div 32 = x
  OBVIOUS
LEMMA Div16 == \A x \in Nat, r \in 0 .. 15 : (16 * x + r) \div 16 = x
  OBVIOUS
LEMMA Div8 == \A x \in Nat, r \in 0 .. 7 : (8 * x + r) \div 8 = x
  OBVIOUS
LEMMA Div4 == \A x \in Nat, r \in 0 .. 3 : (4 * x + r) \div 4 = x
  OBVIOUS
LEMMA Div2 == \A x \in Nat, r \in 0 .. 1 : (2 * x + r) \div 2 = x
  OBVIOUS

\* A bit of a number of eight of them.
LEMMA BitAt ==
    ASSUME NEW o \in [1 .. 8 -> {0, 1}], NEW v, NEW j \in 0 .. 7,
           v = 128 * o[1] + 64 * o[2] + 32 * o[3] + 16 * o[4] + 8 * o[5] + 4 * o[6]
               + 2 * o[7] + o[8]
    PROVE  v \in Int /\ (v \div 2^(7 - j)) % 2 = o[j + 1]
<1>1. /\ o[1] \in {0, 1} /\ o[2] \in {0, 1} /\ o[3] \in {0, 1} /\ o[4] \in {0, 1}
      /\ o[5] \in {0, 1} /\ o[6] \in {0, 1} /\ o[7] \in {0, 1} /\ o[8] \in {0, 1}
  OBVIOUS
<1>2. /\ (v \div 128) % 2 = o[1] /\ (v \div 64) % 2 = o[2] /\ (v \div 32) % 2 = o[3]
      /\ (v \div 16) % 2 = o[4] /\ (v \div 8) % 2 = o[5] /\ (v \div 4) % 2 = o[6]
      /\ (v \div 2) % 2 = o[7] /\ (v \div 1) % 2 = o[8]
  <2> DEFINE a == o[1] b == o[2] c == o[3] d == o[4] e == o[5] f == o[6] g == o[7] h == o[8]
  <2>1. /\ a \in {0, 1} /\ b \in {0, 1} /\ c \in {0, 1} /\ d \in {0, 1}
        /\ e \in {0, 1} /\ f \in {0, 1} /\ g \in {0, 1} /\ h \in {0, 1}
        /\ v = 128 * a + 64 * b + 32 * c + 16 * d + 8 * e + 4 * f + 2 * g + h
    BY <1>1
  <2> HIDE DEF a, b, c, d, e, f, g, h
  <2>2. (v \div 128) % 2 = a
    <3> DEFINE q == 0
               r == 64 * b + 32 * c + 16 * d + 8 * e + 4 * f + 2 * g + h
    <3>1. q \in Nat /\ r \in 0 .. 127 /\ v = 128 * (2 * q + a) + r
      BY <2>1
    <3> HIDE DEF q, r
    <3>2. 2 * q + a \in Nat /\ (2 * q + a) % 2 = a
      BY <2>1, <3>1
    <3> DEFINE x == 2 * q + a
    <3>3. x \in Nat /\ v = 128 * x + r
      BY <3>1, <3>2
    <3> HIDE DEF x
    <3>4. v \div 128 = x
      BY <3>1, <3>3, Div128
    <3> QED
      BY <3>2, <3>4 DEF x
  <2>3. (v \div 64) % 2 = b
    <3> DEFINE q == a
               r == 32 * c + 16 * d + 8 * e + 4 * f + 2 * g + h
    <3>1. q \in Nat /\ r \in 0 .. 63 /\ v = 64 * (2 * q + b) + r
      BY <2>1
    <3> HIDE DEF q, r
    <3>2. 2 * q + b \in Nat /\ (2 * q + b) % 2 = b
      BY <2>1, <3>1
    <3> DEFINE x == 2 * q + b
    <3>3. x \in Nat /\ v = 64 * x + r
      BY <3>1, <3>2
    <3> HIDE DEF x
    <3>4. v \div 64 = x
      BY <3>1, <3>3, Div64
    <3> QED
      BY <3>2, <3>4 DEF x
  <2>4. (v \div 32) % 2 = c
    <3> DEFINE q == 2 * a + b
               r == 16 * d + 8 * e + 4 * f + 2 * g + h
    <3>1. q \in Nat /\ r \in 0 .. 31 /\ v = 32 * (2 * q + c) + r
      BY <2>1
    <3> HIDE DEF q, r
    <3>2. 2 * q + c \in Nat /\ (2 * q + c) % 2 = c
      BY <2>1, <3>1
    <3> DEFINE x == 2 * q + c
    <3>3. x \in Nat /\ v = 32 * x + r
      BY <3>1, <3>2
    <3> HIDE DEF x
    <3>4. v \div 32 = x
      BY <3>1, <3>3, Div32
    <3> QED
      BY <3>2, <3>4 DEF x
  <2>5. (v \div 16) % 2 = d
    <3> DEFINE q == 4 * a + 2 * b + c
               r == 8 * e + 4 * f + 2 * g + h
    <3>1. q \in Nat /\ r \in 0 .. 15 /\ v = 16 * (2 * q + d) + r
      BY <2>1
    <3> HIDE DEF q, r
    <3>2. 2 * q + d \in Nat /\ (2 * q + d) % 2 = d
      BY <2>1, <3>1
    <3> DEFINE x == 2 * q + d
    <3>3. x \in Nat /\ v = 16 * x + r
      BY <3>1, <3>2
    <3> HIDE DEF x
    <3>4. v \div 16 = x
      BY <3>1, <3>3, Div16
    <3> QED
      BY <3>2, <3>4 DEF x
  <2>6. (v \div 8) % 2 = e
    <3> DEFINE q == 8 * a + 4 * b + 2 * c + d
               r == 4 * f + 2 * g + h
    <3>1. q \in Nat /\ r \in 0 .. 7 /\ v = 8 * (2 * q + e) + r
      BY <2>1
    <3> HIDE DEF q, r
    <3>2. 2 * q + e \in Nat /\ (2 * q + e) % 2 = e
      BY <2>1, <3>1
    <3> DEFINE x == 2 * q + e
    <3>3. x \in Nat /\ v = 8 * x + r
      BY <3>1, <3>2
    <3> HIDE DEF x
    <3>4. v \div 8 = x
      BY <3>1, <3>3, Div8
    <3> QED
      BY <3>2, <3>4 DEF x
  <2>7. (v \div 4) % 2 = f
    <3> DEFINE q == 16 * a + 8 * b + 4 * c + 2 * d + e
               r == 2 * g + h
    <3>1. q \in Nat /\ r \in 0 .. 3 /\ v = 4 * (2 * q + f) + r
      BY <2>1
    <3> HIDE DEF q, r
    <3>2. 2 * q + f \in Nat /\ (2 * q + f) % 2 = f
      BY <2>1, <3>1
    <3> DEFINE x == 2 * q + f
    <3>3. x \in Nat /\ v = 4 * x + r
      BY <3>1, <3>2
    <3> HIDE DEF x
    <3>4. v \div 4 = x
      BY <3>1, <3>3, Div4
    <3> QED
      BY <3>2, <3>4 DEF x
  <2>8. (v \div 2) % 2 = g
    <3> DEFINE q == 32 * a + 16 * b + 8 * c + 4 * d + 2 * e + f
               r == h
    <3>1. q \in Nat /\ r \in 0 .. 1 /\ v = 2 * (2 * q + g) + r
      BY <2>1
    <3> HIDE DEF q, r
    <3>2. 2 * q + g \in Nat /\ (2 * q + g) % 2 = g
      BY <2>1, <3>1
    <3> DEFINE x == 2 * q + g
    <3>3. x \in Nat /\ v = 2 * x + r
      BY <3>1, <3>2
    <3> HIDE DEF x
    <3>4. v \div 2 = x
      BY <3>1, <3>3, Div2
    <3> QED
      BY <3>2, <3>4 DEF x
  <2>9. (v \div 1) % 2 = h
    <3> DEFINE q == 64 * a + 32 * b + 16 * c + 8 * d + 4 * e + 2 * f + g
               r == 0
    <3>1. q \in Nat /\ r \in 0 .. 0 /\ v = 1 * (2 * q + h) + r
      BY <2>1
    <3> HIDE DEF q, r
    <3>2. 2 * q + h \in Nat /\ (2 * q + h) % 2 = h
      BY <2>1, <3>1
    <3>3. v \div 1 = 2 * q + h
      BY <3>1, <3>2
    <3> QED
      BY <3>2, <3>3
  <2> QED
    BY <2>2, <2>3, <2>4, <2>5, <2>6, <2>7, <2>8, <2>9 DEF a, b, c, d, e, f, g, h
<1>3. v \in Int
  BY <1>1
<1>4. /\ j = 0 => 2^(7 - j) = 128
      /\ j = 1 => 2^(7 - j) = 64
      /\ j = 2 => 2^(7 - j) = 32
      /\ j = 3 => 2^(7 - j) = 16
      /\ j = 4 => 2^(7 - j) = 8
      /\ j = 5 => 2^(7 - j) = 4
      /\ j = 6 => 2^(7 - j) = 2
      /\ j = 7 => 2^(7 - j) = 1
  BY PowerAt
<1>5. j = 0 \/ j = 1 \/ j = 2 \/ j = 3 \/ j = 4 \/ j = 5 \/ j = 6 \/ j = 7
  OBVIOUS
<1> DEFINE p == 2^(7 - j)
           q == j + 1
<1>6. /\ j = 0 => p = 128 /\ q = 1
      /\ j = 1 => p = 64 /\ q = 2
      /\ j = 2 => p = 32 /\ q = 3
      /\ j = 3 => p = 16 /\ q = 4
      /\ j = 4 => p = 8 /\ q = 5
      /\ j = 5 => p = 4 /\ q = 6
      /\ j = 6 => p = 2 /\ q = 7
      /\ j = 7 => p = 1 /\ q = 8
  BY <1>4
<1> HIDE DEF p, q
<1>7. (v \div p) % 2 = o[q]
  BY <1>2, <1>5, <1>6, Zenon
<1> QED
  BY <1>3, <1>7 DEF p, q

\* What Byte counts up is the number of its bits.
LEMMA ByteIs ==
    ASSUME NEW b, NEW i \in Nat \ {0}, \A k \in Nat \ {0} : Bit(b, k) \in {0, 1}
    PROVE  LET o(m) == Bit(b, 8 * (i - 1) + m)
           IN  Byte(b, i) = 128 * o(1) + 64 * o(2) + 32 * o(3) + 16 * o(4) + 8 * o(5)
                            + 4 * o(6) + 2 * o(7) + o(8)
<1> DEFINE o(m) == Bit(b, 8 * (i - 1) + m)
           Up(v) == v = [k \in 0 .. 8 |-> IF k = 0 THEN 0 ELSE 2 * v[k - 1] + Bit(b, 8 * (i - 1) + k)]
           v1 == o(1)
           v2 == 2 * v1 + o(2)
           v3 == 2 * v2 + o(3)
           v4 == 2 * v3 + o(4)
           v5 == 2 * v4 + o(5)
           v6 == 2 * v5 + o(6)
           v7 == 2 * v6 + o(7)
           v8 == 2 * v7 + o(8)
           w == [k \in 0 .. 8 |-> IF k = 0 THEN 0 ELSE IF k = 1 THEN v1 ELSE IF k = 2 THEN v2
                    ELSE IF k = 3 THEN v3 ELSE IF k = 4 THEN v4 ELSE IF k = 5 THEN v5
                    ELSE IF k = 6 THEN v6 ELSE IF k = 7 THEN v7 ELSE v8]
<1>1. \A m \in 1 .. 8 : o(m) \in {0, 1}
  <2> TAKE m \in 1 .. 8
  <2>1. 8 * (i - 1) + m \in Nat \ {0}
    OBVIOUS
  <2> QED
    BY <2>1
<1>2. Up(w)
  <2> DEFINE e(k) == IF k = 0 THEN 0 ELSE 2 * w[k - 1] + Bit(b, 8 * (i - 1) + k)
  <2>1. \A k \in 0 .. 8 : w[k] = e(k)
    <3> TAKE k \in 0 .. 8
    <3>1. /\ w[0] = 0 /\ w[1] = v1 /\ w[2] = v2 /\ w[3] = v3 /\ w[4] = v4 /\ w[5] = v5
          /\ w[6] = v6 /\ w[7] = v7 /\ w[8] = v8
      <4> HIDE DEF v1, v2, v3, v4, v5, v6, v7, v8
      <4> QED
        OBVIOUS
    <3> HIDE DEF w
    <3>2. k \in {0, 1, 2, 3, 4, 5, 6, 7, 8}
      OBVIOUS
    <3> QED
      BY <3>1, <3>2
  <2>2. w = [k \in 0 .. 8 |-> w[k]]
    OBVIOUS
  <2> HIDE DEF w, e
  <2>3. w = [k \in 0 .. 8 |-> e(k)]
    BY <2>1, <2>2
  <2> QED
    BY <2>3 DEF e
<1> DEFINE u == CHOOSE v : Up(v)
<1>3. Up(u)
  <2> HIDE DEF w, Up
  <2> QED
    BY <1>2
<1>4. Byte(b, i) = u[8]
  BY DEF Byte
<1> HIDE DEF u, w, v1, v2, v3, v4, v5, v6, v7, v8
<1>5. u[0] = 0 /\ \A k \in 1 .. 8 : u[k] = 2 * u[k - 1] + o(k)
  BY <1>3
<1>6. /\ u[1] = 2 * u[0] + o(1) /\ u[2] = 2 * u[1] + o(2) /\ u[3] = 2 * u[2] + o(3)
      /\ u[4] = 2 * u[3] + o(4) /\ u[5] = 2 * u[4] + o(5) /\ u[6] = 2 * u[5] + o(6)
      /\ u[7] = 2 * u[6] + o(7) /\ u[8] = 2 * u[7] + o(8)
  BY <1>5
<1> HIDE DEF o
<1> QED
  BY <1>1, <1>4, <1>5, <1>6 DEF o

\* A place among the bits of bytes.
LEMMA Places ==
    ASSUME NEW k \in Nat \ {0}
    PROVE  LET i == (k + 7) \div 8
               j == (k - 1) % 8
           IN  /\ i \in Nat \ {0} /\ j \in 0 .. 7 /\ k = 8 * (i - 1) + j + 1
               /\ \A n \in Nat : k <= n => i <= Bytes(n)
<1> DEFINE i == (k + 7) \div 8
           j == (k - 1) % 8
<1>1. i \in Nat \ {0} /\ j \in 0 .. 7 /\ k = 8 * (i - 1) + j + 1
  OBVIOUS
<1>2. \A n \in Nat : k <= n => i <= Bytes(n)
  BY DEF Bytes
<1> QED
  BY <1>1, <1>2

\* Bits that were packed into bytes come out of them as they were.
LEMMA Unpacked ==
    ASSUME NEW n \in Nat, NEW b \in [1 .. n -> {0, 1}]
    PROVE  /\ Pack(b) \in [1 .. Bytes(n) -> Int]
           /\ SubSeq(Bits(Pack(b)), 1, n) = b
<1> DEFINE s == Pack(b)
           t == Bits(s)
<1>1. Len(b) = n /\ Bytes(n) \in Nat /\ n <= 8 * Bytes(n)
  BY DEF Bytes
<1>2. \A k \in Nat \ {0} : Bit(b, k) \in {0, 1}
  BY <1>1 DEF Bit
\* The bit of the byte at each place is the one that was packed there.
<1>3. ASSUME NEW i \in Nat \ {0}, NEW j \in 0 .. 7
      PROVE  Byte(b, i) \in Int /\ (Byte(b, i) \div 2^(7 - j)) % 2 = Bit(b, 8 * (i - 1) + j + 1)
  <2> DEFINE o(m) == Bit(b, 8 * (i - 1) + m)
             v == Byte(b, i)
  <2>1. v = 128 * o(1) + 64 * o(2) + 32 * o(3) + 16 * o(4) + 8 * o(5) + 4 * o(6) + 2 * o(7) + o(8)
    BY <1>2, ByteIs
  <2>2. \A m \in 1 .. 8 : o(m) \in {0, 1}
    <3> TAKE m \in 1 .. 8
    <3>1. 8 * (i - 1) + m \in Nat \ {0}
      OBVIOUS
    <3> QED
      BY <1>2, <3>1
  <2>3. o(j + 1) = Bit(b, 8 * (i - 1) + j + 1)
    <3>1. 8 * (i - 1) + (j + 1) = 8 * (i - 1) + j + 1
      OBVIOUS
    <3> QED
      BY <3>1
  <2> DEFINE w == [m \in 1 .. 8 |-> o(m)]
  <2> HIDE DEF o, v
  <2>4. w \in [1 .. 8 -> {0, 1}] /\ \A m \in 1 .. 8 : w[m] = o(m)
    BY <2>2
  <2>5. v = 128 * w[1] + 64 * w[2] + 32 * w[3] + 16 * w[4] + 8 * w[5] + 4 * w[6] + 2 * w[7] + w[8]
    BY <2>1, <2>4
  <2> HIDE DEF w
  <2>6. v \in Int /\ (v \div 2^(7 - j)) % 2 = w[j + 1]
    BY <2>4, <2>5, BitAt
  <2> QED
    BY <2>3, <2>4, <2>6 DEF v
<1>4. s \in [1 .. Bytes(n) -> Int] /\ Len(s) = Bytes(n)
  BY <1>1, <1>3 DEF Pack
<1>5. /\ t = [k \in 1 .. 8 * Bytes(n) |-> (s[(k + 7) \div 8] \div 2 ^ (7 - ((k - 1) % 8))) % 2]
  BY <1>4 DEF Bits
<1>6. ASSUME NEW k \in 1 .. n PROVE t[k] = b[k]
  <2> DEFINE i == (k + 7) \div 8
             j == (k - 1) % 8
  <2>1. i \in Nat \ {0} /\ j \in 0 .. 7 /\ k = 8 * (i - 1) + j + 1 /\ i <= Bytes(n)
    BY Places
  <2>2. t[k] = (s[i] \div 2^(7 - j)) % 2
    <3> HIDE DEF s
    <3> QED
      BY <1>1, <1>5
  <2>3. s[i] = Byte(b, i)
    BY <1>1, <2>1 DEF Pack
  <2> HIDE DEF i, j, s, t
  <2>4. t[k] = Bit(b, k)
    BY <1>3, <2>1, <2>2, <2>3
  <2> QED
    BY <1>1, <2>4 DEF Bit
<1> HIDE DEF s, t
<1>7. Len(t) = 8 * Bytes(n) /\ t = [k \in 1 .. 8 * Bytes(n) |-> t[k]]
  BY <1>1, <1>5
<1>8. SubSeq(t, 1, n) = [k \in 1 .. n |-> t[k]]
  BY <1>1, <1>7
<1>9. SubSeq(t, 1, n) = b
  BY <1>6, <1>8
<1> QED
  BY <1>4, <1>9 DEF s, t

\* The first bits of bytes are as many as were asked for.
LEMMA FirstBits ==
    ASSUME NEW n \in Nat, NEW V \in SUBSET Int, NEW s \in [1 .. Bytes(n) -> V]
    PROVE  /\ Len(SubSeq(Bits(s), 1, n)) = n
           /\ SubSeq(Bits(s), 1, n) \in [1 .. n -> {0, 1}]
<1> DEFINE t == Bits(s)
<1>1. Bytes(n) \in Nat /\ n <= 8 * Bytes(n)
  BY DEF Bytes
<1>2. Len(s) = Bytes(n)
  BY <1>1
<1>3. t = [k \in 1 .. 8 * Bytes(n) |-> (s[(k + 7) \div 8] \div 2 ^ (7 - ((k - 1) % 8))) % 2]
  BY <1>2 DEF Bits
<1>4. ASSUME NEW j \in 0 .. 7, NEW x \in Int
      PROVE  (x \div 2^(7 - j)) % 2 \in {0, 1}
  <2>1. j = 0 \/ j = 1 \/ j = 2 \/ j = 3 \/ j = 4 \/ j = 5 \/ j = 6 \/ j = 7
    OBVIOUS
  <2>2. 2^(7 - j) \in {1, 2, 4, 8, 16, 32, 64, 128}
    BY <2>1, PowerAt, Zenon
  <2> DEFINE w == 2^(7 - j)
             y == x \div w
  <2> HIDE DEF w
  <2>3. w \in Nat \ {0}
    BY <2>2 DEF w
  <2>4. y \in Int
    BY <2>3
  <2> HIDE DEF y
  <2>5. y % 2 \in {0, 1}
    BY <2>4
  <2> QED
    BY <2>5 DEF y, w
<1>5. ASSUME NEW k \in 1 .. n PROVE t[k] \in {0, 1}
  <2> DEFINE i == (k + 7) \div 8
             j == (k - 1) % 8
  <2>1. i \in Nat \ {0} /\ j \in 0 .. 7 /\ i <= Bytes(n)
    BY Places
  <2>2. t[k] = (s[i] \div 2^(7 - j)) % 2
    BY <1>1, <1>3
  <2>3. s[i] \in Int
    <3> HIDE DEF i, j
    <3>1. s[i] \in V
      BY <1>1, <2>1
    <3> QED
      BY <3>1
  <2> HIDE DEF i, j, t
  <2> QED
    BY <1>4, <2>1, <2>2, <2>3
<1> HIDE DEF t
<1>6. Len(t) = 8 * Bytes(n) /\ t = [k \in 1 .. 8 * Bytes(n) |-> t[k]]
  BY <1>1, <1>3
<1>7. SubSeq(t, 1, n) = [k \in 1 .. n |-> t[k]]
  BY <1>1, <1>6
<1>8. [k \in 1 .. n |-> t[k]] \in [1 .. n -> {0, 1}]
  BY <1>5
<1>9. Len(SubSeq(t, 1, n)) = n
  BY <1>7
<1> QED
  BY <1>7, <1>8, <1>9 DEF t

\* A set of numbers has a least one.
LEMMA Least ==
    ASSUME NEW S \in SUBSET Nat, S # {}
    PROVE  Min(S) \in S
<1> DEFINE Precedes == {pair \in Nat \X Nat : pair[1] < pair[2]}
<1>1. OpToRel(<, Nat) = Precedes
  BY DEF OpToRel
<1>2. IsWellFoundedOn(Precedes, Nat)
  BY <1>1, NatLessThanWellFounded, Zenon
<1> HIDE DEF Precedes
<1>3. PICK x \in S : \A y \in S : <<y, x>> \notin Precedes
  BY <1>2, WFMin
<1>4. ASSUME NEW y \in S PROVE x =< y
  <2>1. x \in Nat /\ y \in Nat
    OBVIOUS
  <2>2. y < x => <<y, x>> \in Precedes
    BY <2>1 DEF Precedes
  <2> QED
    BY <1>3, <2>1, <2>2
<1> QED
  BY <1>4 DEF Min

-----------------------------------------------------------------------------
(* The scripts. *)

RowNames == {"TDI", "TDO", "MASK", "DMASK", "XTDO"}

\* A scan begins with the data that is sent, it is compared with data of the file or
\* with that of an earlier scan, and the bits of the pairs are bits of what dynamic I/O
\* sends.
WellMadeScan(s, c) ==
    /\ c.size \in Nat \ {0}
    /\ Len(c.rows) \in Nat \ {0} /\ c.rows[1] = "TDI"
    /\ \A i \in 1 .. Len(c.rows) : c.rows[i] \in RowNames
    /\ Contains(c.rows, "XTDO") => ~Contains(c.rows, "TDO")
    /\ Contains(c.rows, "DMASK") =>
        \A j \in 1 .. Len(s.pairs) :
            /\ s.pairs[j][1] \in 1 .. c.size /\ s.pairs[j][2] \in 1 .. c.size
            /\ s.pairs[j][1] # s.pairs[j][2]
    /\ Answers[c.size] \subseteq [1 .. c.size -> {0, 1}]
WellMade(s) ==
    /\ Len(s.scans) \in Nat /\ Len(s.pairs) \in Nat
    /\ \A n \in 1 .. Len(s.scans) : WellMadeScan(s, s.scans[n])

\* A position in the script, its pairs, and the four buffers.
ScriptInv ==
    /\ WellMade(script) /\ at \in Nat \ {0} /\ row \in Nat \ {0}
    /\ at <= Len(script.scans) => row <= Len(Scan.rows) + 1
    /\ DOMAIN buf = {"TDI", "TDO", "MASK", "DMASK"}
PairsInv ==
    \E u \in [1 .. Len(script.pairs) -> BOOLEAN] :
        pairs = [i \in 1 .. Len(script.pairs) |->
                  [pos |-> script.pairs[i][1], neg |-> script.pairs[i][2],
                   update |-> u[i]]]
\* Until a scan reads data to compare with, what the last one sent is left there.
LeftInv ==
    at > 1 /\ at <= Len(script.scans) =>
       \/ \E i \in 1 .. row - 1 : Scan.rows[i] = "TDO"
       \/ Len(sent) \in Nat /\ SubSeq(Bits(buf.TDO), 1, Len(sent)) = sent
DataInvs == ScriptInv /\ PairsInv /\ LeftInv

\* When the rows of a scan are loaded, a buffer that has one holds bytes.
LEMMA Buffers ==
    ASSUME ScriptInv, TypeOK, Loaded
    PROVE  /\ WellMadeScan(script, Scan)
           /\ \A name \in RowNames \ {"XTDO"} :
                Has(name) => buf[name] \in [1 .. Bytes(Scan.size) -> 0 .. 255]
           /\ Has("TDI")
<1>1. at \in 1 .. Len(script.scans) /\ row = Len(Scan.rows) + 1
  BY DEF ScriptInv, Loaded, WellMade
<1>2. WellMadeScan(script, Scan)
  BY <1>1 DEF ScriptInv, WellMade, Scan
<1>3. ASSUME NEW name \in RowNames \ {"XTDO"}, Has(name)
      PROVE  buf[name] \in [1 .. Bytes(Scan.size) -> 0 .. 255]
  <2>1. PICK i \in 1 .. Len(Scan.rows) : Scan.rows[i] = name
    BY <1>3 DEF Has, Contains
  <2>2. i \in 1 .. row - 1 /\ name # "XTDO"
    BY <1>1, <1>2 DEF WellMadeScan
  <2>3. at <= Len(script.scans)
    BY DEF Loaded
  <2>4. Scan.rows[i] # "XTDO" =>
          buf[Scan.rows[i]] \in [1 .. Bytes(Scan.size) -> 0 .. 255]
    BY <2>2, <2>3, Zenon DEF TypeOK
  <2> QED
    BY <2>1, <2>2, <2>4, Zenon
<1>4. Has("TDI")
  BY <1>2 DEF Has, Contains, WellMadeScan
<1> QED
  BY <1>2, <1>3, <1>4

\* So that their data are the bits of the scan.
LEMMA DataBits ==
    ASSUME ScriptInv, TypeOK, Loaded
    PROVE  \A name \in RowNames \ {"XTDO"} :
              Has(name) => /\ Len(Data(name)) = Scan.size
                           /\ Data(name) \in [1 .. Scan.size -> {0, 1}]
<1> SUFFICES ASSUME NEW name \in RowNames \ {"XTDO"}, Has(name)
             PROVE  /\ Len(Data(name)) = Scan.size
                    /\ Data(name) \in [1 .. Scan.size -> {0, 1}]
  OBVIOUS
<1>1. Scan.size \in Nat /\ buf[name] \in [1 .. Bytes(Scan.size) -> 0 .. 255]
  BY Buffers DEF WellMadeScan
<1> DEFINE V == 0 .. 255
<1>2. V \in SUBSET Int
  OBVIOUS
<1>3. buf[name] \in [1 .. Bytes(Scan.size) -> V]
  BY <1>1
<1> HIDE DEF V
<1> QED
  BY <1>1, <1>2, <1>3, FirstBits DEF Data

-----------------------------------------------------------------------------
(* Dynamic I/O. *)

\* The pairs of a scan with DMASK, the answer, and what is sent back of them.
LEMMA MixedBits ==
    ASSUME ScriptInv, TypeOK, Loaded, Has("DMASK"),
           NEW tdo \in Answers[Scan.size]
    PROVE  Mixed(tdo) \in [1 .. Scan.size -> {0, 1}]
<1> DEFINE n == Scan.size
           d == Data("DMASK")
           i == Data("TDI")
<1>1. Has("TDI") /\ n \in Nat /\ tdo \in [1 .. n -> {0, 1}]
  BY Buffers DEF WellMadeScan
<1>2. d \in [1 .. n -> {0, 1}] /\ i \in [1 .. n -> {0, 1}]
  BY <1>1, DataBits DEF RowNames
<1>3. Mixed(tdo) = [k \in 1 .. n |-> IF d[k] = 1 THEN i[k] ELSE tdo[k]]
  BY DEF Mixed
<1> HIDE DEF n, d, i
<1>4. [k \in 1 .. n |-> IF d[k] = 1 THEN i[k] ELSE tdo[k]] \in [1 .. n -> {0, 1}]
  BY <1>1, <1>2
<1> QED
  BY <1>3, <1>4 DEF n

LEMMA PairPlaces ==
    ASSUME ScriptInv, PairsInv, TypeOK, Loaded, Has("DMASK")
    PROVE  /\ DOMAIN pairs = 1 .. Len(script.pairs) /\ Len(script.pairs) \in Nat
           /\ DOMAIN Updated = DOMAIN pairs
           /\ \A i \in DOMAIN pairs :
                /\ pairs[i].pos \in 1 .. Scan.size /\ pairs[i].neg \in 1 .. Scan.size
                /\ pairs[i].pos # pairs[i].neg
                /\ Updated[i].pos = pairs[i].pos /\ Updated[i].neg = pairs[i].neg
                /\ Updated[i].update \in BOOLEAN
<1>1. WellMadeScan(script, Scan) /\ Len(script.pairs) \in Nat
  BY Buffers DEF ScriptInv, WellMade
<1>2. PICK u \in [1 .. Len(script.pairs) -> BOOLEAN] :
        pairs = [i \in 1 .. Len(script.pairs) |->
                  [pos |-> script.pairs[i][1], neg |-> script.pairs[i][2], update |-> u[i]]]
  BY DEF PairsInv
<1>3. DOMAIN pairs = 1 .. Len(script.pairs)
  BY <1>2
<1>4. ASSUME NEW i \in DOMAIN pairs
      PROVE  pairs[i] = [pos |-> script.pairs[i][1], neg |-> script.pairs[i][2], update |-> u[i]]
  BY <1>2, <1>3
<1>5. ASSUME NEW i \in DOMAIN pairs
      PROVE  /\ Updated[i].pos = pairs[i].pos /\ Updated[i].neg = pairs[i].neg
             /\ Updated[i].update \in BOOLEAN
  <2> DEFINE c == pairs[i].update \/ Driven(i)
  <2>1. Updated[i] = [pairs[i] EXCEPT !.update = c]
    BY DEF Updated
  <2>2. c \in BOOLEAN
    OBVIOUS
  <2> HIDE DEF c
  <2> QED
    BY <1>4, <2>1, <2>2
<1>6. ASSUME NEW i \in DOMAIN pairs
      PROVE  /\ pairs[i].pos \in 1 .. Scan.size /\ pairs[i].neg \in 1 .. Scan.size
             /\ pairs[i].pos # pairs[i].neg
  <2>1. Contains(Scan.rows, "DMASK")
    BY DEF Has
  <2>2. pairs[i].pos = script.pairs[i][1] /\ pairs[i].neg = script.pairs[i][2]
    BY <1>4
  <2> QED
    BY <1>1, <1>3, <2>1, <2>2 DEF WellMadeScan
<1>7. DOMAIN Updated = DOMAIN pairs
  BY DEF Updated
<1> QED
  BY <1>1, <1>3, <1>5, <1>6, <1>7

\* The first pair to update is one that is to be updated.
LEMMA FirstUpdated ==
    ASSUME ScriptInv, PairsInv, TypeOK, Loaded, Has("DMASK")
    PROVE  LET first == SelectInSeq(Updated, LAMBDA p : p.update)
           IN  /\ first # 0 => first \in DOMAIN pairs /\ Updated[first].update
               /\ first = 0 => \A i \in DOMAIN pairs : ~Updated[i].update
<1> DEFINE first == SelectInSeq(Updated, LAMBDA p : p.update)
           S == {i \in 1 .. Len(Updated) : Updated[i].update}
<1>1. Len(Updated) = Len(script.pairs) /\ DOMAIN pairs = 1 .. Len(Updated)
  <2>1. DOMAIN Updated = 1 .. Len(script.pairs) /\ Len(script.pairs) \in Nat
    BY PairPlaces
  <2> QED
    BY <2>1, PairPlaces
<1>2. first = IF S # {} THEN Min(S) ELSE 0
  BY DEF SelectInSeq
<1>3. S \in SUBSET Nat /\ Len(Updated) \in Nat
  BY <1>1, PairPlaces
<1>4. CASE S # {}
  <2>1. first \in S
    <3> HIDE DEF S
    <3> QED
      BY <1>2, <1>3, <1>4, Least
  <2>2. first # 0 /\ first \in DOMAIN pairs /\ Updated[first].update
    <3> HIDE DEF first
    <3> QED
      BY <1>1, <1>3, <2>1
  <2> QED
    BY <2>2
<1>5. CASE S = {}
  <2>1. first = 0
    BY <1>2, <1>5
  <2>2. \A i \in DOMAIN pairs : ~Updated[i].update
    BY <1>1, <1>5
  <2> QED
    BY <2>1, <2>2
<1> QED
  BY <1>4, <1>5

\* What dynamic I/O sends back: bits, of which those of the first pair differ.
Back(tdo) ==
    LET first == SelectInSeq(Updated, LAMBDA p : p.update)
    IN  IF first = 0 THEN Mixed(tdo) ELSE Flipped(Mixed(tdo), Updated[first])
LEMMA BackBits ==
    ASSUME ScriptInv, PairsInv, TypeOK, Loaded, Has("DMASK"),
           NEW tdo \in Answers[Scan.size]
    PROVE  /\ Back(tdo) \in [1 .. Scan.size -> {0, 1}]
           /\ LET first == SelectInSeq(Updated, LAMBDA p : p.update)
              IN  first # 0 => Back(tdo)[pairs[first].neg] # Back(tdo)[pairs[first].pos]
<1> DEFINE first == SelectInSeq(Updated, LAMBDA p : p.update)
           b == Mixed(tdo)
           n == Scan.size
<1>1. b \in [1 .. n -> {0, 1}]
  BY MixedBits
<1>2. CASE first = 0
  BY <1>1, <1>2 DEF Back
<1>3. CASE first # 0
  <2> DEFINE p == pairs[first].pos
             q == pairs[first].neg
  <2>1. first \in DOMAIN pairs
    BY <1>3, FirstUpdated
  <2>2. /\ p \in 1 .. n /\ q \in 1 .. n /\ p # q
        /\ Updated[first].pos = p /\ Updated[first].neg = q
    BY <2>1, PairPlaces
  <2>3. Back(tdo) = [b EXCEPT ![q] = 1 - b[p]]
    BY <1>3, <2>2 DEF Back, Flipped
  <2> HIDE DEF b, n, p, q, first
  <2>4. b[p] \in {0, 1} /\ 1 - b[p] \in {0, 1} /\ 1 - b[p] # b[p]
    BY <1>1, <2>2
  <2>5. Back(tdo) \in [1 .. n -> {0, 1}]
    BY <1>1, <2>2, <2>3, <2>4
  <2>6. Back(tdo)[q] = 1 - b[p] /\ Back(tdo)[p] = b[p]
    BY <1>1, <2>2, <2>3
  <2>7. Back(tdo)[q] # Back(tdo)[p]
    BY <2>4, <2>6
  <2> QED
    BY <2>5, <2>7 DEF first, n, p, q
<1> QED
  BY <1>2, <1>3

-----------------------------------------------------------------------------
(* The steps. *)

LEMMA InitData ==
    ASSUME \A s \in Scripts : WellMade(s) PROVE Init => DataInvs
<1> SUFFICES ASSUME Init PROVE DataInvs
  OBVIOUS
<1>1. ScriptInv
  <2>1. WellMade(script) /\ at = 1 /\ row = 1
    BY DEF Init
  <2>2. at <= Len(script.scans) => row <= Len(Scan.rows) + 1
    BY <2>1 DEF WellMade, WellMadeScan, Scan
  <2>3. DOMAIN buf = {"TDI", "TDO", "MASK", "DMASK"}
    BY DEF Init
  <2> QED
    BY <2>1, <2>2, <2>3 DEF ScriptInv
<1>2. PairsInv
  <2> DEFINE u == [i \in 1 .. Len(script.pairs) |-> FALSE]
  <2>1. u \in [1 .. Len(script.pairs) -> BOOLEAN]
    OBVIOUS
  <2>2. pairs = [i \in 1 .. Len(script.pairs) |->
                  [pos |-> script.pairs[i][1], neg |-> script.pairs[i][2], update |-> u[i]]]
    BY DEF Init
  <2> HIDE DEF u
  <2> QED
    BY <2>1, <2>2 DEF PairsInv
<1>3. LeftInv
  BY DEF Init, LeftInv
<1> QED
  BY <1>1, <1>2, <1>3 DEF DataInvs

\* A row that ispVMDataSize never comes back from leaves everything as it was.
LEMMA RowStep ==
    ASSUME DataInvs, ispVMDataCode PROVE DataInvs'
<1> DEFINE name == Scan.rows[row]
<1>1. ScriptInv /\ PairsInv /\ LeftInv
  BY DEF DataInvs
<1>2. /\ at <= Len(script.scans) /\ row <= Len(Scan.rows)
      /\ UNCHANGED <<script, at, pairs, sent>>
  BY DEF ispVMDataCode
<1>3. Scan' = Scan
  BY <1>2 DEF Scan
<1>4. name \in RowNames /\ Len(Scan.rows) \in Nat
  BY <1>1, <1>2 DEF ScriptInv, WellMade, WellMadeScan, Scan
<1>5. PairsInv'
  BY <1>1, <1>2 DEF PairsInv
<1>6. CASE row' = row /\ buf' = buf
  <2>1. ScriptInv'
    BY <1>1, <1>2, <1>3, <1>6 DEF ScriptInv
  <2>2. LeftInv'
    BY <1>1, <1>2, <1>3, <1>6 DEF LeftInv
  <2> QED
    BY <1>5, <2>1, <2>2 DEF DataInvs
<1>7. CASE row' = row + 1 /\ DOMAIN buf' = DOMAIN buf /\ (name # "TDO" => buf'.TDO = buf.TDO)
  <2>1. ScriptInv'
    BY <1>1, <1>2, <1>3, <1>4, <1>7 DEF ScriptInv
  <2>2. LeftInv'
    <3> SUFFICES ASSUME at > 1
                 PROVE  \/ \E i \in 1 .. row : Scan.rows[i] = "TDO"
                        \/ Len(sent) \in Nat /\ SubSeq(Bits(buf'.TDO), 1, Len(sent)) = sent
      <4>1. row' - 1 = row
        BY <1>1, <1>7 DEF ScriptInv
      <4> QED
        BY <1>2, <1>3, <4>1 DEF LeftInv
    <3>1. CASE name = "TDO"
      <4>1. row \in 1 .. row
        BY <1>1 DEF ScriptInv
      <4> QED
        BY <3>1, <4>1
    <3>2. CASE name # "TDO" /\ \E i \in 1 .. row - 1 : Scan.rows[i] = "TDO"
      <4>1. \A i \in 1 .. row - 1 : i \in 1 .. row
        BY <1>1 DEF ScriptInv
      <4> QED
        BY <3>2, <4>1
    <3>3. CASE name # "TDO" /\ ~\E i \in 1 .. row - 1 : Scan.rows[i] = "TDO"
      BY <1>1, <1>2, <1>7, <3>3 DEF LeftInv
    <3> QED
      BY <3>1, <3>2, <3>3
  <2> QED
    BY <1>5, <2>1, <2>2 DEF DataInvs
<1>8. \/ row' = row /\ buf' = buf
      \/ row' = row + 1 /\ DOMAIN buf' = DOMAIN buf /\ (name # "TDO" => buf'.TDO = buf.TDO)
  <2>1. \/ name = "XTDO" /\ row' = row + 1 /\ buf' = buf
        \/ row' = row /\ buf' = buf
        \/ row' = row + 1 /\ \E moved : buf' = [buf EXCEPT ![name] = moved]
    BY DEF ispVMDataCode
  <2>2. ASSUME NEW moved, buf' = [buf EXCEPT ![name] = moved]
        PROVE  DOMAIN buf' = DOMAIN buf /\ (name # "TDO" => buf'.TDO = buf.TDO)
    BY <1>1, <2>2 DEF ScriptInv
  <2> QED
    BY <2>1, <2>2
<1> QED
  BY <1>6, <1>7, <1>8

\* The next scan begins, with what was sent in the buffer.
LEMMA ScanEnds ==
    ASSUME ScriptInv, Loaded, NextScan, PairsInv',
           DOMAIN buf' = DOMAIN buf, Len(sent') \in Nat,
           SubSeq(Bits(buf'.TDO), 1, Len(sent')) = sent'
    PROVE  DataInvs'
<1>1. at' \in Nat \ {0} /\ row' = 1 /\ script' = script
  BY DEF NextScan, ScriptInv
<1>2. at' <= Len(script.scans) => Len(Scan'.rows) \in Nat
  BY <1>1 DEF ScriptInv, WellMade, WellMadeScan, Scan
<1>3. ScriptInv'
  BY <1>1, <1>2 DEF ScriptInv
<1>4. LeftInv'
  BY DEF LeftInv
<1> QED
  BY <1>3, <1>4 DEF DataInvs

\* A scan that sends what was loaded leaves it in the buffer.
LEMMA SendStep ==
    ASSUME DataInvs, TypeOK, ispVMSend \/ ispVMRead PROVE DataInvs'
<1>1. ScriptInv /\ PairsInv /\ Loaded
  BY DEF DataInvs, ispVMSend, ispVMRead
<1>2. /\ sent' = Data("TDI") /\ buf' = [buf EXCEPT !.TDO = buf.TDI]
      /\ NextScan /\ pairs' = pairs
  BY DEF ispVMSend, ispVMRead, Transfer
<1>3. DOMAIN buf' = DOMAIN buf /\ buf'.TDO = buf.TDI
  BY <1>1, <1>2 DEF ScriptInv
<1>4. Len(Data("TDI")) = Scan.size /\ Scan.size \in Nat
  BY <1>1, DataBits, Buffers DEF RowNames, WellMadeScan
<1>5. Len(sent') \in Nat /\ SubSeq(Bits(buf'.TDO), 1, Len(sent')) = sent'
  BY <1>2, <1>3, <1>4 DEF Data
<1>6. PairsInv'
  BY <1>1, <1>2 DEF PairsInv, NextScan
<1> QED
  BY <1>1, <1>2, <1>3, <1>5, <1>6, ScanEnds

\* Dynamic I/O leaves in the buffer what it packs.
LEMMA SaveStep ==
    ASSUME DataInvs, TypeOK, ispVMReadandSave PROVE DataInvs'
<1>1. ScriptInv /\ PairsInv /\ Loaded /\ Has("DMASK") /\ NextScan /\ pairs' = Updated
  BY DEF DataInvs, ispVMReadandSave
<1>2. PICK tdo \in Answers[Scan.size] :
        sent' = Back(tdo) /\ buf' = [buf EXCEPT !.TDO = Pack(Back(tdo)), !.TDI = Pack(Back(tdo))]
  BY DEF ispVMReadandSave, Back
<1> DEFINE b == Back(tdo)
           n == Scan.size
<1>3. n \in Nat /\ b \in [1 .. n -> {0, 1}]
  BY <1>1, BackBits, Buffers DEF WellMadeScan
<1>4. DOMAIN buf' = DOMAIN buf /\ buf'.TDO = Pack(b)
  BY <1>1, <1>2 DEF ScriptInv
<1>5. Len(b) = n /\ SubSeq(Bits(Pack(b)), 1, n) = b
  <2> HIDE DEF b, n
  <2> QED
    BY <1>3, Unpacked
<1>6. Len(sent') \in Nat /\ SubSeq(Bits(buf'.TDO), 1, Len(sent')) = sent'
  <2>1. sent' = b
    BY <1>2
  <2> HIDE DEF b, n
  <2> QED
    BY <1>3, <1>4, <1>5, <2>1
<1>7. PairsInv'
  <2> DEFINE u == [i \in 1 .. Len(script.pairs) |-> Updated[i].update]
  <2>1. u \in [1 .. Len(script.pairs) -> BOOLEAN]
    BY <1>1, PairPlaces
  <2>2. PICK v \in [1 .. Len(script.pairs) -> BOOLEAN] :
          pairs = [i \in 1 .. Len(script.pairs) |->
                    [pos |-> script.pairs[i][1], neg |-> script.pairs[i][2], update |-> v[i]]]
    BY <1>1 DEF PairsInv
  <2> DEFINE r(i) == [pos |-> script.pairs[i][1], neg |-> script.pairs[i][2], update |-> u[i]]
             c(i) == pairs[i].update \/ Driven(i)
  <2>3. ASSUME NEW i \in 1 .. Len(script.pairs) PROVE Updated[i] = r(i)
    <3>1. pairs[i] = [pos |-> script.pairs[i][1], neg |-> script.pairs[i][2], update |-> v[i]]
      BY <2>2
    <3>2. i \in DOMAIN pairs
      BY <2>2
    <3>3. Updated[i] = [pairs[i] EXCEPT !.update = c(i)]
      BY <3>2 DEF Updated
    <3> HIDE DEF c
    <3>4. Updated[i].update = c(i)
      BY <3>1, <3>3
    <3>5. Updated[i] = [pos |-> script.pairs[i][1], neg |-> script.pairs[i][2], update |-> c(i)]
      BY <3>1, <3>3
    <3> QED
      BY <3>4, <3>5
  <2>4. Updated = [i \in 1 .. Len(script.pairs) |-> Updated[i]]
    <3>1. DOMAIN pairs = 1 .. Len(script.pairs)
      BY <2>2
    <3> QED
      BY <3>1 DEF Updated
  <2>5. Updated = [i \in 1 .. Len(script.pairs) |-> r(i)]
    <3> HIDE DEF r
    <3> QED
      BY <2>3, <2>4
  <2>6. script' = script
    BY <1>1 DEF NextScan
  <2> HIDE DEF u
  <2> QED
    BY <1>1, <2>1, <2>5, <2>6 DEF PairsInv
<1> QED
  BY <1>1, <1>4, <1>6, <1>7, ScanEnds

LEMMA DataStep ==
    DataInvs /\ TypeOK /\ [Next]_vars => DataInvs'
<1> SUFFICES ASSUME DataInvs, TypeOK, [Next]_vars PROVE DataInvs'
  OBVIOUS
<1>1. CASE UNCHANGED vars
  <2>1. UNCHANGED <<script, at, row, buf, pairs, sent>>
    BY <1>1 DEF vars
  <2>2. Scan' = Scan
    BY <2>1 DEF Scan
  <2>3. ScriptInv'
    BY <2>1, <2>2 DEF ScriptInv, DataInvs
  <2>4. PairsInv'
    BY <2>1 DEF PairsInv, DataInvs
  <2>5. LeftInv'
    BY <2>1, <2>2 DEF LeftInv, DataInvs
  <2> QED
    BY <2>3, <2>4, <2>5 DEF DataInvs
<1>2. CASE ispVMDataCode
  BY <1>2, RowStep
<1>3. CASE ispVMSend \/ ispVMRead
  BY <1>3, SendStep
<1>4. CASE ispVMReadandSave
  BY <1>4, SaveStep
<1> QED
  BY <1>1, <1>2, <1>3, <1>4 DEF Next, Done

-----------------------------------------------------------------------------
\* An XSDR compares what the devices answer with what the scan before it sent,
\* whatever the sizes, the rows and the answers: what ispVMSend, ispVMRead and
\* ispVMReadandSave leave in g_pucOutData (ispvm.c:1497-1503, 2550-2591) stays
\* there until a row replaces it.
THEOREM ExpressData ==
    ASSUME \A s \in Scripts : WellMade(s)
    PROVE  Spec /\ []TypeOK => ExpressComparesSent
<1>1. Init => DataInvs
  BY InitData
<1>2. ASSUME DataInvs, ispVMRead, Has("XTDO"), at > 1, Len(sent) = Scan.size
      PROVE  expected' = sent
  <2>1. at \in 1 .. Len(script.scans) /\ row - 1 = Len(Scan.rows)
    <3>1. ScriptInv /\ Loaded
      BY <1>2 DEF DataInvs, ispVMRead
    <3>2. at \in 1 .. Len(script.scans)
      BY <3>1 DEF ScriptInv, Loaded, WellMade
    <3>3. Len(Scan.rows) \in Nat
      BY <3>1, <3>2 DEF ScriptInv, WellMade, WellMadeScan, Scan
    <3> QED
      BY <3>1, <3>2, <3>3 DEF ScriptInv, Loaded
  <2>2. ~\E i \in 1 .. row - 1 : Scan.rows[i] = "TDO"
    BY <1>2, <2>1 DEF DataInvs, ScriptInv, WellMade, WellMadeScan, Scan, Has, Contains
  <2>3. SubSeq(Bits(buf.TDO), 1, Len(sent)) = sent
    BY <1>2, <2>1, <2>2 DEF DataInvs, LeftInv
  <2> QED
    BY <1>2, <2>3 DEF ispVMRead, Data
<1>3. DataInvs /\ [Next]_vars =>
        [ispVMRead /\ Has("XTDO") /\ at > 1 /\ Len(sent) = Scan.size => expected' = sent]_vars
  BY <1>2
<1> QED
  BY <1>1, <1>3, DataStep, PTL DEF Spec, ExpressComparesSent

\* When dynamic I/O has driven one LVDS pair, its halves differ in what is sent back,
\* in this scan and in every later one, for any number of pairs, any mask and any
\* answer (ispvm.c:2565-2720).
THEOREM PairHalves ==
    ASSUME \A s \in Scripts : WellMade(s)
    PROVE  Spec /\ []TypeOK => PairDiffers
<1>1. Init => DataInvs
  BY InitData
<1>2. ASSUME DataInvs, TypeOK, ispVMReadandSave,
             NEW i \in DOMAIN pairs, \A j \in DOMAIN pairs : Updated[j].update <=> j = i
      PROVE  \E k \in DOMAIN pairs :
                pairs'[k].update /\ sent'[pairs[k].neg] # sent'[pairs[k].pos]
  <2> DEFINE first == SelectInSeq(Updated, LAMBDA p : p.update)
  <2>1. ScriptInv /\ PairsInv /\ Loaded /\ Has("DMASK") /\ pairs' = Updated
    BY <1>2 DEF DataInvs, ispVMReadandSave
  <2>2. PICK tdo \in Answers[Scan.size] : sent' = Back(tdo)
    BY <1>2 DEF ispVMReadandSave, Back
  <2>3. first # 0 /\ first \in DOMAIN pairs /\ Updated[first].update
    BY <1>2, <2>1, FirstUpdated
  <2>4. Back(tdo)[pairs[first].neg] # Back(tdo)[pairs[first].pos]
    BY <1>2, <2>1, <2>3, BackBits
  <2> HIDE DEF first
  <2> QED
    BY <2>1, <2>2, <2>3, <2>4
<1>3. DataInvs /\ TypeOK /\ [Next]_vars =>
        [ispVMReadandSave /\ (\E i \in DOMAIN pairs :
              \A j \in DOMAIN pairs : Updated[j].update <=> j = i)
           => \E i \in DOMAIN pairs :
                  pairs'[i].update /\ sent'[pairs[i].neg] # sent'[pairs[i].pos]]_vars
  BY <1>2
<1> QED
  BY <1>1, <1>3, DataStep, PTL DEF Spec, PairDiffers
=============================================================================
