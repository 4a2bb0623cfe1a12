----------------------------- MODULE WireProofs -----------------------------
(***************************************************************************)
(* One direction of a connection implements a Channel, and loses no byte   *)
(* while both ends are up: for any messages, channel sizes and sizes of    *)
(* the pieces in which the network takes a frame.                          *)
(***************************************************************************)
EXTENDS Wire, SequenceTheorems, WellFoundedInduction, TLAPS

Bytes == Seq(Byte)

-----------------------------------------------------------------------------
(* Sequences put end to end. *)
LEMMA LeastNat ==
    ASSUME NEW T, T \subseteq Nat, T # {}
    PROVE  \E x \in T : \A y \in T : x <= y
<1>1. PICK x \in T : \A y \in T : ~(<<y, x>> \in OpToRel(<, Nat))
  BY NatLessThanWellFounded, WFMin, Zenon
<1>2. \A y \in T : ~(y < x)
  BY <1>1, Zenon DEF OpToRel
<1> QED BY <1>2

LEMMA CatType ==
    ASSUME NEW a \in Bytes, NEW b \in Bytes
    PROVE  a \o b \in Bytes
BY ConcatProperties DEF Bytes

LEMMA CatEmpty ==
    ASSUME NEW a \in Bytes
    PROVE  <<>> \o a = a /\ a \o <<>> = a
BY ConcatEmptySeq DEF Bytes

LEMMA Assoc ==
    ASSUME NEW a \in Bytes, NEW b \in Bytes, NEW c \in Bytes
    PROVE  (a \o b) \o c = a \o (b \o c)
BY ConcatAssociative DEF Bytes

LEMMA ConsAppend ==
    ASSUME NEW T, NEW s \in T, NEW uu \in Seq(T), NEW e \in T
    PROVE  <<s>> \o Append(uu, e) = Append(<<s>> \o uu, e) /\ <<s>> \o uu \in Seq(T)
<1>1. <<s>> \in Seq(T) /\ <<e>> \in Seq(T) /\ <<s>> \o uu \in Seq(T)
  OBVIOUS
<1>2. Append(uu, e) = uu \o <<e>> /\ Append(<<s>> \o uu, e) = (<<s>> \o uu) \o <<e>>
  BY <1>1, AppendIsConcat
<1> DEFINE a == <<s>>
           c == <<e>>
<1>3. a \in Seq(T) /\ c \in Seq(T)
  BY <1>1
<1> HIDE DEF a, c
<1>4. (a \o uu) \o c = a \o (uu \o c)
  BY <1>3, ConcatAssociative
<1> QED BY <1>1, <1>2, <1>4 DEF a, c

(* What stands before the cut of one way to split a sequence. *)
SameCat(a, b, c, d) == a \o b = c \o d

LEMMA SplitPrefix ==
    ASSUME NEW S, NEW a \in Seq(S), NEW b \in Seq(S), NEW c \in Seq(S), NEW d \in Seq(S),
           SameCat(a, b, c, d), Len(c) <= Len(a)
    PROVE  LET e == SubSeq(a, Len(c) + 1, Len(a))
           IN  e \in Seq(S) /\ SubSeq(a, 1, Len(c)) = c /\ e \o b = d
<1> USE DEF SameCat
<1> DEFINE m == Len(c)
           n == Len(a)
           e == SubSeq(a, m + 1, n)
<1>1. m \in Nat /\ n \in Nat /\ m <= n /\ Len(b) \in Nat /\ Len(d) \in Nat
  BY LenProperties
<1>2. /\ a \o b \in Seq(S) /\ Len(a \o b) = n + Len(b)
      /\ \A i \in 1 .. n + Len(b) : (a \o b)[i] = IF i <= n THEN a[i] ELSE b[i - n]
  BY ConcatProperties
<1>3. /\ Len(c \o d) = m + Len(d)
      /\ \A i \in 1 .. m + Len(d) : (c \o d)[i] = IF i <= m THEN c[i] ELSE d[i - m]
  BY ConcatProperties
<1>4. n + Len(b) = m + Len(d)
  BY <1>2, <1>3
<1>5. e \in Seq(S) /\ Len(e) = n - m /\ \A i \in 1 .. n - m : e[i] = a[m + i]
  <2>1. \A i \in m + 1 .. n : a[i] \in S
    BY <1>1, ElementOfSeq
  <2>2. m + 1 \in Int /\ n \in Int
    BY <1>1
  <2>3. /\ e \in Seq(S) /\ Len(e) = IF m + 1 <= n THEN n - (m + 1) + 1 ELSE 0
        /\ \A i \in 1 .. n - (m + 1) + 1 : e[i] = a[m + 1 + i - 1]
    <3> HIDE DEF m, n
    <3> QED BY <2>1, <2>2, SubSeqProperties
  <2> QED BY <1>1, <2>3
<1>6. SubSeq(a, 1, m) = c
  <2> DEFINE h == SubSeq(a, 1, m)
  <2>1. \A i \in 1 .. m : a[i] \in S
    BY <1>1, ElementOfSeq
  <2>2. h \in Seq(S) /\ Len(h) = m /\ \A i \in 1 .. m : h[i] = a[i]
    <3>1. /\ h \in Seq(S) /\ Len(h) = IF 1 <= m THEN m - 1 + 1 ELSE 0
          /\ \A i \in 1 .. m - 1 + 1 : h[i] = a[1 + i - 1]
      <4> HIDE DEF m
      <4> QED BY <1>1, <2>1, SubSeqProperties
    <3> QED BY <1>1, <3>1
  <2>3. ASSUME NEW i \in 1 .. m PROVE h[i] = c[i]
    <3>1. i \in 1 .. n + Len(b) /\ i \in 1 .. m + Len(d) /\ i <= n /\ i <= m
      BY <1>1, <1>4
    <3>2. a[i] = c[i]
      BY <1>2, <1>3, <3>1
    <3> QED BY <2>2, <3>2
  <2> HIDE DEF h
  <2> QED BY <2>2, <2>3, SeqEqual DEF h
<1>7. e \o b = d
  <2>1. /\ e \o b \in Seq(S) /\ Len(e \o b) = (n - m) + Len(b)
        /\ \A i \in 1 .. (n - m) + Len(b) :
              (e \o b)[i] = IF i <= n - m THEN e[i] ELSE b[i - (n - m)]
    <3> HIDE DEF e, n, m
    <3> QED BY <1>5, ConcatProperties
  <2>2. Len(e \o b) = Len(d)
    BY <1>1, <1>4, <2>1
  <2>3. ASSUME NEW i \in 1 .. Len(d) PROVE (e \o b)[i] = d[i]
    <3>1. /\ i \in 1 .. (n - m) + Len(b) /\ m + i \in 1 .. n + Len(b)
          /\ m + i \in 1 .. m + Len(d) /\ ~(m + i <= m) /\ m + i - m = i
      BY <1>1, <1>4
    <3>2. d[i] = IF m + i <= n THEN a[m + i] ELSE b[m + i - n]
      BY <1>2, <1>3, <3>1
    <3>3. CASE i <= n - m
      BY <1>1, <1>5, <2>1, <3>1, <3>2, <3>3
    <3>4. CASE ~(i <= n - m)
      <4>1. ~(m + i <= n) /\ i - (n - m) = m + i - n
        BY <1>1, <3>4
      <4> QED BY <2>1, <3>1, <3>2, <3>4, <4>1
    <3> QED BY <3>3, <3>4
  <2> DEFINE h == e \o b
  <2>4. h \in Seq(S) /\ Len(h) = Len(d) /\ \A i \in 1 .. Len(d) : h[i] = d[i]
    BY <2>1, <2>2, <2>3
  <2> HIDE DEF h
  <2> QED BY <2>4, SeqEqual, Zenon DEF h
<1> QED BY <1>5, <1>6, <1>7

-----------------------------------------------------------------------------
(* Frames. *)
Header(m) == PutUint32(Len(m.data) + 2) \o PutUint16(m.code)

LEMMA MessageType ==
    ASSUME NEW m \in Message
    PROVE  /\ m.code \in Nat /\ m.code < 65536
           /\ m.data \in Bytes
           /\ Len(m.data) \in Nat /\ Len(m.data) + 2 <= Huge
           /\ m = [code |-> m.code, data |-> m.data]
<1>1. m \in [code : Uint16Range, data : Seq(Byte)] /\ Len(m.data) + 2 <= Huge
  BY WireAssumption, Zenon
<1>2. m.data \in Seq(Byte) /\ m.code \in Uint16Range
  BY <1>1
<1>3. m.code \in Nat /\ m.code < 65536
  BY <1>2 DEF Uint16Range
<1> QED BY <1>1, <1>2, <1>3, LenProperties DEF Bytes

(* What PutUint16 and PutUint32 write are bytes. *)
LEMMA LowByte ==
    ASSUME NEW v \in Nat, NEW d \in Nat \ {0}
    PROVE  (v \div d) % 256 \in Byte /\ v % 256 \in Byte
<1>1. v \div d \in Nat
  OBVIOUS
<1>2. \A k \in Nat : k % 256 \in Byte
  BY DEF Byte
<1> QED BY <1>1, <1>2

LEMMA HeaderBytes ==
    ASSUME NEW m \in Message
    PROVE  /\ Header(m) \in Bytes /\ Len(Header(m)) = 6
           /\ Uint32(Header(m)) = Uint32(PutUint32(Len(m.data) + 2))
           /\ Header(m)[5] = m.code % 256 /\ Header(m)[6] = (m.code \div 256) % 256
<1> DEFINE v == Len(m.data) + 2
           a == PutUint32(v)
           b == PutUint16(m.code)
<1>1. v \in Nat /\ m.code \in Nat
  BY MessageType
<1> HIDE DEF v
<1>2. a \in Seq(Byte) /\ b \in Seq(Byte)
  <2>1. /\ v % 256 \in Byte /\ (v \div 256) % 256 \in Byte /\ (v \div 65536) % 256 \in Byte
        /\ (v \div 16777216) % 256 \in Byte
    BY <1>1, LowByte
  <2>2. m.code % 256 \in Byte /\ (m.code \div 256) % 256 \in Byte
    BY <1>1, LowByte
  <2>3. \A x1, x2, x3, x4 \in Byte : <<x1, x2, x3, x4>> \in Seq(Byte) /\ <<x1, x2>> \in Seq(Byte)
    OBVIOUS
  <2>4. a \in Seq(Byte)
    BY <2>1, <2>3 DEF PutUint32
  <2>5. b \in Seq(Byte)
    BY <2>2, <2>3 DEF PutUint16
  <2> QED BY <2>4, <2>5
<1>3. Len(a) = 4 /\ Len(b) = 2
  BY DEF PutUint32, PutUint16
<1>4. b[1] = m.code % 256 /\ b[2] = (m.code \div 256) % 256
  BY DEF PutUint16
<1> HIDE DEF a, b
<1>5. /\ a \o b \in Seq(Byte) /\ Len(a \o b) = 6
      /\ \A i \in 1 .. 6 : (a \o b)[i] = IF i <= 4 THEN a[i] ELSE b[i - 4]
  <2>1. /\ a \o b \in Seq(Byte) /\ Len(a \o b) = Len(a) + Len(b)
        /\ \A i \in 1 .. Len(a) + Len(b) :
              (a \o b)[i] = IF i <= Len(a) THEN a[i] ELSE b[i - Len(a)]
    BY <1>2, ConcatProperties
  <2> QED BY <1>3, <2>1
<1>6. Header(m) = a \o b
  BY DEF Header, a, b, v
<1>7. /\ Header(m)[1] = a[1] /\ Header(m)[2] = a[2] /\ Header(m)[3] = a[3]
      /\ Header(m)[4] = a[4] /\ Header(m)[5] = b[1] /\ Header(m)[6] = b[2]
  <2>1. ASSUME NEW c, \A i \in 1 .. 6 : c[i] = IF i <= 4 THEN a[i] ELSE b[i - 4]
        PROVE  /\ c[1] = a[1] /\ c[2] = a[2] /\ c[3] = a[3] /\ c[4] = a[4]
               /\ c[5] = b[1] /\ c[6] = b[2]
    BY <2>1
  <2> DEFINE d == a \o b
  <2>2. /\ d[1] = a[1] /\ d[2] = a[2] /\ d[3] = a[3] /\ d[4] = a[4]
        /\ d[5] = b[1] /\ d[6] = b[2]
    BY <1>5, <2>1, Zenon
  <2> QED BY <1>6, <2>2, Zenon
<1>8. Uint32(Header(m)) = Uint32(a)
  BY <1>7 DEF Uint32
<1> QED BY <1>4, <1>5, <1>6, <1>7, <1>8 DEF Bytes, a, v

(* Digits of a number below 2^31 and below 2^16. *)
LEMMA FourBytes ==
    ASSUME NEW v \in Nat, v <= Huge
    PROVE  Uint32(PutUint32(v)) = v
<1>1. v < 2147483648
  BY DEF Huge
<1> DEFINE q1 == v \div 256
           q2 == v \div 65536
           q3 == v \div 16777216
<1>2. v = 256 * q1 + (v % 256) /\ q1 \in Nat
  OBVIOUS
<1>3. q1 = 256 * q2 + (q1 % 256) /\ q2 \in Nat
  OBVIOUS
<1>4. q2 = 256 * q3 + (q2 % 256) /\ q3 \in Nat
  OBVIOUS
<1>5. q3 % 256 = q3
  BY <1>1
<1>6. Uint32(PutUint32(v)) = (v % 256) + 256 * (q1 % 256) + 65536 * (q2 % 256) + 16777216 * (q3 % 256)
  BY DEF Uint32, PutUint32
<1> QED BY <1>2, <1>3, <1>4, <1>5, <1>6

LEMMA TwoBytes ==
    ASSUME NEW c \in Nat, c < 65536
    PROVE  (c % 256) + 256 * ((c \div 256) % 256) = c
OBVIOUS

(* A header is decoded to the message it was made for. *)
LEMMA Decode ==
    ASSUME NEW m \in Message, NEW s \in Bytes, Len(s) >= 6, SubSeq(s, 1, 6) = Header(m)
    PROVE  Minus2(Uint32(s)) = Len(m.data) /\ Uint16(SubSeq(s, 5, 6)) = m.code
<1>1. Len(s) \in Nat
  BY LenProperties DEF Bytes
<1>2. \A i \in 1 .. 6 : s[i] = Header(m)[i]
  <2> DEFINE h == SubSeq(s, 1, 6)
  <2>1. \A i \in 1 .. 6 : h[i] = s[i]
    BY <1>1 DEF Bytes
  <2> QED BY <2>1
<1>3. s[1] = Header(m)[1] /\ s[2] = Header(m)[2] /\ s[3] = Header(m)[3] /\ s[4] = Header(m)[4]
  BY <1>2
<1>4. Uint32(s) = Uint32(Header(m))
  BY <1>3 DEF Uint32
<1>5. Uint32(s) = Len(m.data) + 2 /\ Len(m.data) \in Nat
  <2>1. Len(m.data) \in Nat /\ Len(m.data) + 2 \in Nat /\ Len(m.data) + 2 <= Huge
    BY MessageType
  <2>2. Uint32(PutUint32(Len(m.data) + 2)) = Len(m.data) + 2
    BY <2>1, FourBytes
  <2> QED BY <1>4, <2>1, <2>2, HeaderBytes
<1>6. s[5] = m.code % 256 /\ s[6] = (m.code \div 256) % 256
  BY <1>2, HeaderBytes
<1>7. Uint16(SubSeq(s, 5, 6)) = s[5] + 256 * s[6]
  <2> DEFINE h == SubSeq(s, 5, 6)
  <2>1. h[1] = s[5] /\ h[2] = s[6]
    BY <1>1 DEF Bytes
  <2> QED BY <2>1 DEF Uint16
<1>8. m.code \in Nat /\ m.code < 65536
  BY MessageType
<1>9. (m.code % 256) + 256 * ((m.code \div 256) % 256) = m.code
  BY <1>8, TwoBytes
<1> QED BY <1>5, <1>6, <1>7, <1>9 DEF Minus2

LEMMA FrameType ==
    ASSUME NEW m \in Message
    PROVE  /\ Frame(m) = Header(m) \o m.data /\ Frame(m) \in Bytes
           /\ Len(Frame(m)) \in Nat /\ Len(Frame(m)) >= 6
<1>1. Frame(m) = Header(m) \o m.data
  BY Zenon DEF Frame, Header
<1>2. Header(m) \in Seq(Byte) /\ m.data \in Seq(Byte) /\ Len(Header(m)) = 6
  BY HeaderBytes, MessageType DEF Bytes
<1> DEFINE a == Header(m)
           b == m.data
<1> HIDE DEF a, b
<1>3. a \in Seq(Byte) /\ b \in Seq(Byte) /\ Len(a) = 6
  BY <1>2 DEF a, b
<1>4. a \o b \in Seq(Byte) /\ Len(a \o b) = Len(a) + Len(b) /\ Len(b) \in Nat
  BY <1>3, ConcatProperties, LenProperties, Zenon
<1>5. Frame(m) = a \o b
  BY <1>1 DEF a, b
<1> QED BY <1>3, <1>4, <1>5 DEF Bytes, a, b

(* Frames, one message at a time: f[i] is what the first i messages make. *)
Joins(f, msgs, n) ==
    /\ DOMAIN f = 0 .. n
    /\ \A i \in 0 .. n : f[i] = IF i = 0 THEN <<>> ELSE f[i - 1] \o Frame(msgs[i])

LEMMA JoinsExist ==
    ASSUME NEW msgs \in Seq(Message), NEW n \in 0 .. Len(msgs)
    PROVE  \E f \in [0 .. n -> Bytes] : Joins(f, msgs, n)
<1> DEFINE Bad == {k \in 0 .. Len(msgs) : ~\E f \in [0 .. k -> Bytes] : Joins(f, msgs, k)}
<1> SUFFICES ASSUME Bad # {} PROVE FALSE
  OBVIOUS
<1>0. /\ Len(msgs) \in Nat /\ <<>> \in Bytes
      /\ \A k \in 1 .. Len(msgs) : Frame(msgs[k]) \in Bytes
  BY LenProperties, FrameType DEF Bytes
<1>1. PICK k \in Bad : \A j \in Bad : k <= j
  <2>1. Bad \subseteq Nat
    BY <1>0
  <2> HIDE DEF Bad
  <2> QED BY <2>1, LeastNat, Zenon
<1>2. k \in 0 .. Len(msgs) /\ k \in Nat
  BY <1>0
<1>3. CASE k = 0
  <2>1. [i \in 0 .. 0 |-> <<>>] \in [0 .. 0 -> Bytes] /\ Joins([i \in 0 .. 0 |-> <<>>], msgs, 0)
    BY <1>0 DEF Joins
  <2> QED BY <1>3, <2>1
<1>4. CASE k # 0
  <2>1. k - 1 \in 0 .. Len(msgs) /\ k - 1 \notin Bad /\ k \in 1 .. Len(msgs)
    <3> HIDE DEF Bad
    <3> QED BY <1>0, <1>1, <1>2, <1>4
  <2> DEFINE m == k - 1
  <2>2. PICK f \in [0 .. m -> Bytes] : Joins(f, msgs, m)
    <3>1. m \in 0 .. Len(msgs) /\ m \notin Bad
      BY <2>1
    <3> HIDE DEF m
    <3> QED BY <3>1
  <2> DEFINE g == [i \in 0 .. k |-> IF i = k THEN f[k - 1] \o Frame(msgs[k]) ELSE f[i]]
  <2>3. f[k - 1] \o Frame(msgs[k]) \in Bytes
    <3>1. f[k - 1] \in Bytes /\ Frame(msgs[k]) \in Bytes
      BY <1>0, <1>2, <2>1, <2>2
    <3> QED BY <3>1 DEF Bytes
  <2>4. g \in [0 .. k -> Bytes]
    BY <1>2, <2>2, <2>3
  <2>5. ASSUME NEW i \in 0 .. k
        PROVE  g[i] = IF i = 0 THEN <<>> ELSE g[i - 1] \o Frame(msgs[i])
    <3>1. CASE i = k
      <4>1. k \in 0 .. k /\ k - 1 \in 0 .. k /\ k - 1 # k
        BY <1>0, <1>2, <2>1
      <4>2. g[k] = f[k - 1] \o Frame(msgs[k]) /\ g[k - 1] = f[k - 1]
        BY <4>1, Zenon
      <4> QED BY <1>4, <3>1, <4>2, Zenon
    <3>2. CASE i # k
      <4>1. i \in 0 .. k - 1 /\ g[i] = f[i] /\ (i # 0 => g[i - 1] = f[i - 1])
        BY <1>2, <2>5, <3>2
      <4> QED BY <2>2, <4>1, Zenon DEF Joins
    <3> QED BY <3>1, <3>2
  <2>6. Joins(g, msgs, k)
    BY <2>5, Zenon DEF Joins
  <2> QED BY <2>4, <2>6
<1> QED BY <1>3, <1>4

(* What Frames returns: the last of such a function. *)
LEMMA FramesJoins ==
    ASSUME NEW msgs \in Seq(Message)
    PROVE  \E f : Joins(f, msgs, Len(msgs)) /\ Frames(msgs) = f[Len(msgs)]
<1> DEFINE n == Len(msgs)
           F(f) == [i \in 0 .. n |-> IF i = 0 THEN <<>> ELSE f[i - 1] \o Frame(msgs[i])]
           h == CHOOSE f : f = F(f)
<1>1. n \in 0 .. n
  BY LenProperties
<1>2. \E f : f = F(f)
  <2>1. PICK f \in [0 .. n -> Bytes] : Joins(f, msgs, n)
    BY <1>1, JoinsExist
  <2>2. f = F(f)
    BY <2>1, Zenon DEF Joins
  <2> QED BY <2>2
<1>3. h = F(h)
  BY <1>2, Zenon
<1>4. Frames(msgs) = h[n]
  BY Zenon DEF Frames
<1> HIDE DEF h
<1>5. Joins(h, msgs, n)
  BY <1>3, Zenon DEF Joins
<1> QED BY <1>4, <1>5

Agree(s, t, n) == \A i \in 1 .. n : s[i] = t[i]

LEMMA JoinsUnique ==
    ASSUME NEW ms, NEW ns, NEW n \in Nat, Agree(ms, ns, n),
           NEW f, NEW g, Joins(f, ms, n), NEW m \in Nat, n <= m, Joins(g, ns, m)
    PROVE  f[n] = g[n]
<1> DEFINE Bad == {i \in 0 .. n : f[i] # g[i]}
<1> SUFFICES ASSUME Bad # {} PROVE FALSE
  OBVIOUS
<1>1. PICK k \in Bad : \A j \in Bad : k <= j
  <2>1. Bad \subseteq Nat
    OBVIOUS
  <2> HIDE DEF Bad
  <2> QED BY <2>1, LeastNat, Zenon
<1>2. k \in 0 .. n /\ k \in 0 .. m /\ f[k] # g[k]
  OBVIOUS
<1>3. /\ f[k] = IF k = 0 THEN <<>> ELSE f[k - 1] \o Frame(ms[k])
      /\ g[k] = IF k = 0 THEN <<>> ELSE g[k - 1] \o Frame(ns[k])
  BY <1>2, Zenon DEF Joins
<1>4. CASE k = 0
  BY <1>2, <1>3, <1>4, Zenon
<1>5. CASE k # 0
  <2>1. k - 1 \in 0 .. n /\ ~(k <= k - 1) /\ k \in 1 .. n
    BY <1>2, <1>5
  <2>2. k - 1 \notin Bad
    <3> HIDE DEF Bad
    <3> QED BY <1>1, <2>1
  <2>3. f[k - 1] = g[k - 1] /\ ms[k] = ns[k]
    BY <2>1, <2>2 DEF Agree
  <2> QED BY <1>2, <1>3, <1>5, <2>3, Zenon
<1> QED BY <1>4, <1>5

LEMMA FramesType ==
    ASSUME NEW msgs \in Seq(Message)
    PROVE  Frames(msgs) \in Bytes
<1> DEFINE n == Len(msgs)
<1>1. n \in Nat /\ n \in 0 .. n /\ n <= n
  BY LenProperties
<1>2. PICK f : Joins(f, msgs, n) /\ Frames(msgs) = f[n]
  BY FramesJoins
<1>3. PICK g \in [0 .. n -> Bytes] : Joins(g, msgs, n)
  BY <1>1, JoinsExist
<1> HIDE DEF n
<1>4. Agree(msgs, msgs, n)
  BY DEF Agree
<1>5. f[n] = g[n]
  BY <1>1, <1>2, <1>3, <1>4, JoinsUnique
<1> QED BY <1>1, <1>2, <1>3, <1>5

LEMMA FramesEmpty == Frames(<<>>) = <<>>
<1>1. <<>> \in Seq(Message) /\ Len(<<>>) = 0
  OBVIOUS
<1>2. PICK f : Joins(f, <<>>, 0) /\ Frames(<<>>) = f[0]
  BY <1>1, FramesJoins, Zenon
<1>3. 0 \in 0 .. 0
  OBVIOUS
<1> QED BY <1>2, <1>3, Zenon DEF Joins

LEMMA FramesAppend ==
    ASSUME NEW msgs \in Seq(Message), NEW m \in Message
    PROVE  Frames(Append(msgs, m)) = Frames(msgs) \o Frame(m)
<1> DEFINE n == Len(msgs)
           ms == Append(msgs, m)
<1>1. /\ n \in Nat /\ ms \in Seq(Message) /\ Len(ms) = n + 1 /\ ms[n + 1] = m
      /\ \A i \in 1 .. n : msgs[i] = ms[i]
  BY AppendProperties, LenProperties
<1>2. PICK f : Joins(f, msgs, n) /\ Frames(msgs) = f[n]
  BY FramesJoins
<1> HIDE DEF n, ms
<1> DEFINE k == n + 1
<1>3. PICK g : Joins(g, ms, k) /\ Frames(ms) = g[k]
  BY <1>1, FramesJoins
<1>4. k \in Nat /\ n <= k /\ k \in 0 .. k /\ k # 0 /\ k - 1 = n /\ ms[k] = m
  BY <1>1
<1> HIDE DEF k
<1>5. g[k] = g[k - 1] \o Frame(ms[k])
  BY <1>3, <1>4, Zenon DEF Joins
<1>6. Agree(msgs, ms, n)
  BY <1>1 DEF Agree
<1>7. f[n] = g[n]
  BY <1>1, <1>2, <1>3, <1>4, <1>6, JoinsUnique
<1>8. Frames(ms) = Frames(msgs) \o Frame(m)
  BY <1>2, <1>3, <1>4, <1>5, <1>7, Zenon
<1> QED BY <1>8 DEF ms

LEMMA FramesCons ==
    ASSUME NEW msgs \in Seq(Message), NEW m \in Message
    PROVE  Frames(<<m>> \o msgs) = Frame(m) \o Frames(msgs)
<1> DEFINE Bad == {k \in Nat : \E ms \in Seq(Message) :
                       Len(ms) = k /\ Frames(<<m>> \o ms) # Frame(m) \o Frames(ms)}
<1> SUFFICES ASSUME Bad # {} PROVE FALSE
  BY LenProperties
<1>1. PICK k \in Bad : \A j \in Bad : k <= j
  <2>1. Bad \subseteq Nat
    OBVIOUS
  <2> HIDE DEF Bad
  <2> QED BY <2>1, LeastNat, Zenon
<1>2. PICK ms \in Seq(Message) : Len(ms) = k /\ Frames(<<m>> \o ms) # Frame(m) \o Frames(ms)
  BY Zenon
<1> HIDE DEF Bad
<1> DEFINE s == Frame(m)
<1>3. s \in Bytes /\ <<>> \in Seq(Message)
  BY FrameType
<1> HIDE DEF s
<1>4. CASE ms = <<>>
  <2>1. <<m>> \o ms = Append(<<>>, m)
    BY <1>4
  <2>2. Frames(<<m>> \o ms) = <<>> \o s
    BY <1>3, <2>1, FramesAppend, FramesEmpty, Zenon DEF s
  <2>3. <<>> \o s = s /\ s \o <<>> = s
    BY <1>3, CatEmpty
  <2> QED BY <1>2, <1>4, <2>2, <2>3, FramesEmpty, Zenon DEF s
<1>5. CASE ms # <<>>
  <2>1. PICK us \in Seq(Message), e \in Message : ms = Append(us, e)
    BY <1>5, SequenceEmptyOrAppend
  <2>2. Len(us) \in Nat /\ k = Len(us) + 1
    BY <1>2, <2>1, AppendProperties, LenProperties
  <2>3. Frames(<<m>> \o us) = Frame(m) \o Frames(us)
    <3>1. Len(us) \notin Bad
      BY <1>1, <2>2
    <3> QED BY <2>2, <3>1, Zenon DEF Bad
  <2>4. <<m>> \o ms = Append(<<m>> \o us, e) /\ <<m>> \o us \in Seq(Message)
    BY <2>1, ConsAppend
  <2> DEFINE t == Frames(us)
             u == Frame(e)
  <2>5. t \in Bytes /\ u \in Bytes
    BY <2>1, FramesType, FrameType
  <2>6. Frames(<<m>> \o ms) = (s \o t) \o u
    BY <2>3, <2>4, FramesAppend, Zenon DEF s
  <2>7. Frames(ms) = t \o u
    BY <2>1, FramesAppend
  <2> HIDE DEF t, u
  <2>8. (s \o t) \o u = s \o (t \o u)
    BY <1>3, <2>5, Assoc, Zenon
  <2>9. Frames(<<m>> \o ms) # s \o Frames(ms)
    BY <1>2, Zenon DEF s
  <2> QED BY <2>6, <2>7, <2>8, <2>9, Zenon
<1> QED BY <1>4, <1>5

(* What is left of a sequence of messages, from its k-th on. *)
From(msgs, k) == SubSeq(msgs, k, Len(msgs))

LEMMA FromType ==
    ASSUME NEW msgs \in Seq(Message), NEW k \in Nat \ {0}
    PROVE  From(msgs, k) \in Seq(Message) /\ Frames(From(msgs, k)) \in Bytes
<1>1. Len(msgs) \in Nat
  BY LenProperties
<1>2. From(msgs, k) \in Seq(Message)
  BY <1>1 DEF From
<1> QED BY <1>2, FramesType

LEMMA FromAppend ==
    ASSUME NEW msgs \in Seq(Message), NEW m \in Message, NEW k \in Nat \ {0}, k <= Len(msgs) + 1
    PROVE  Frames(From(Append(msgs, m), k)) = Frames(From(msgs, k)) \o Frame(m)
<1> DEFINE n == Len(msgs)
           ms == Append(msgs, m)
           a == From(ms, k)
           b == From(msgs, k)
           c == Append(b, m)
<1>1. /\ n \in Nat /\ ms \in Seq(Message) /\ Len(ms) = n + 1 /\ ms[n + 1] = m
      /\ \A i \in 1 .. n : ms[i] = msgs[i]
  BY AppendProperties, LenProperties
<1> HIDE DEF ms
<1>2. a \in Seq(Message) /\ b \in Seq(Message)
  BY <1>1, FromType
<1>3. Len(a) = n + 2 - k /\ \A i \in 1 .. n + 2 - k : a[i] = ms[i + k - 1]
  BY <1>1 DEF From
<1>4. Len(b) = n + 1 - k /\ \A i \in 1 .. n + 1 - k : b[i] = msgs[i + k - 1]
  BY <1>1 DEF From
<1> HIDE DEF a, b
<1>5. /\ c \in Seq(Message) /\ Len(c) = n + 2 - k /\ c[n + 2 - k] = m
      /\ \A i \in 1 .. n + 1 - k : c[i] = b[i]
  <2>1. /\ c \in Seq(Message) /\ Len(c) = Len(b) + 1 /\ c[Len(b) + 1] = m
        /\ \A i \in 1 .. Len(b) : c[i] = b[i]
    BY <1>2, AppendProperties
  <2>2. Len(b) + 1 = n + 2 - k
    BY <1>1, <1>4
  <2> QED BY <1>4, <2>1, <2>2
<1> HIDE DEF c
<1>6. ASSUME NEW i \in 1 .. n + 2 - k PROVE a[i] = c[i]
  <2>1. CASE i = n + 2 - k
    <3>1. i + k - 1 = n + 1
      BY <1>1, <2>1
    <3> QED BY <1>1, <1>3, <1>5, <2>1, <3>1, Zenon
  <2>2. CASE i # n + 2 - k
    <3>1. i \in 1 .. n + 1 - k /\ i + k - 1 \in 1 .. n
      BY <1>1, <2>2
    <3> QED BY <1>1, <1>3, <1>4, <1>5, <3>1, Zenon
  <2> QED BY <2>1, <2>2
<1>7. Len(a) = Len(c) /\ \A i \in 1 .. Len(a) : a[i] = c[i]
  BY <1>3, <1>5, <1>6
<1>8. a = c
  BY <1>2, <1>5, <1>7, SeqEqual
<1>9. Frames(c) = Frames(b) \o Frame(m)
  BY <1>2, FramesAppend DEF c
<1> QED BY <1>8, <1>9, Zenon DEF a, b, ms

LEMMA FromCons ==
    ASSUME NEW msgs \in Seq(Message), NEW k \in 1 .. Len(msgs)
    PROVE  Frames(From(msgs, k)) = Frame(msgs[k]) \o Frames(From(msgs, k + 1))
<1> DEFINE n == Len(msgs)
           m == msgs[k]
           a == From(msgs, k)
           b == From(msgs, k + 1)
           c == <<m>> \o b
<1>1. n \in Nat /\ m \in Message /\ k \in Nat \ {0} /\ k <= n
  BY LenProperties
<1>2. a \in Seq(Message) /\ b \in Seq(Message)
  BY <1>1, FromType
<1>3. Len(a) = n + 1 - k /\ \A i \in 1 .. n + 1 - k : a[i] = msgs[i + k - 1]
  BY <1>1 DEF From
<1>4. Len(b) = n - k /\ \A i \in 1 .. n - k : b[i] = msgs[i + k]
  BY <1>1 DEF From
<1> HIDE DEF a, b, m
<1>5. /\ c \in Seq(Message) /\ Len(c) = Len(b) + 1 /\ c[1] = m
      /\ \A i \in 2 .. Len(b) + 1 : c[i] = b[i - 1]
  <2>1. Len(b) \in Nat
    BY <1>2, LenProperties
  <2> QED BY <1>1, <1>2, <2>1
<1> HIDE DEF c, n
<1>6. ASSUME NEW i \in 1 .. n + 1 - k PROVE a[i] = c[i]
  <2>1. CASE i = 1
    BY <1>1, <1>3, <1>5, <2>1 DEF m
  <2>2. CASE i # 1
    <3>1. i \in 2 .. n - k + 1 /\ i - 1 \in 1 .. n - k /\ (i - 1) + k = i + k - 1
      BY <1>1, <2>2
    <3>2. c[i] = b[i - 1]
      BY <1>1, <1>4, <1>5, <3>1
    <3>3. b[i - 1] = msgs[i + k - 1]
      BY <1>4, <3>1
    <3> QED BY <1>3, <3>2, <3>3
  <2> QED BY <2>1, <2>2
<1>7. Len(a) = Len(c) /\ \A i \in 1 .. Len(a) : a[i] = c[i]
  BY <1>1, <1>3, <1>4, <1>5, <1>6
<1>8. a = c
  BY <1>2, <1>5, <1>7, SeqEqual
<1>9. Frames(c) = Frame(m) \o Frames(b)
  BY <1>1, <1>2, FramesCons, Zenon DEF c
<1> QED BY <1>8, <1>9, Zenon DEF a, b, m

LEMMA FromEnd ==
    ASSUME NEW msgs \in Seq(Message)
    PROVE  Frames(From(msgs, Len(msgs) + 1)) = <<>>
<1>1. From(msgs, Len(msgs) + 1) = <<>>
  BY LenProperties DEF From
<1> QED BY <1>1, FramesEmpty

-----------------------------------------------------------------------------
(* What is on its way: the bytes st of the stream, then w and u, make the  *)
(* bytes exp that the consumer still expects.  Unless the way is cut, w is *)
(* what is left of the frame being written; and unless the sending end is  *)
(* disconnected, u is the frames of the queued messages.                   *)
FlowOf(st, cut, unw, disc, ob, exp) ==
    \E w, u \in Bytes :
       /\ st \o (w \o u) = exp
       /\ ~cut => w = unw /\ (~disc => u = ob)

Regroups(a, b, c, d) == (a \o b) \o (c \o d) = a \o ((b \o c) \o d)

LEMMA AssocFour ==
    ASSUME NEW a \in Bytes, NEW b \in Bytes, NEW c \in Bytes, NEW d \in Bytes
    PROVE  Regroups(a, b, c, d)
<1> DEFINE x == c \o d
<1>1. x \in Bytes
  BY CatType
<1>2. (b \o c) \o d = b \o x
  BY Assoc, Zenon
<1> HIDE DEF x
<1>3. (a \o b) \o x = a \o (b \o x)
  BY <1>1, Assoc
<1> QED BY <1>2, <1>3, Zenon DEF x, Regroups

(* The way is cut, or the sending end disconnected. *)
LEMMA FlowKept ==
    ASSUME NEW st, NEW cut, NEW unw, NEW disc, NEW ob, NEW exp, NEW cut2, NEW disc2,
           FlowOf(st, cut, unw, disc, ob, exp), cut => cut2, disc => disc2
    PROVE  FlowOf(st, cut2, unw, disc2, ob, exp)
BY Zenon DEF FlowOf

(* What is queued or being written does not matter once the way is cut. *)
LEMMA FlowCut ==
    ASSUME NEW st, NEW cut, NEW unw, NEW disc, NEW ob, NEW exp,
           NEW cut2, NEW unw2, NEW disc2, NEW ob2,
           FlowOf(st, cut, unw, disc, ob, exp), cut2
    PROVE  FlowOf(st, cut2, unw2, disc2, ob2, exp)
BY Zenon DEF FlowOf

(* A disconnected end drops its queue. *)
LEMMA FlowDiscard ==
    ASSUME NEW st, NEW cut, NEW unw, NEW disc, NEW ob, NEW exp, NEW cut2, NEW ob2,
           FlowOf(st, cut, unw, disc, ob, exp), cut => cut2, disc
    PROVE  FlowOf(st, cut2, unw, disc, ob2, exp)
BY Zenon DEF FlowOf

(* A message is queued. *)
LEMMA FlowSend ==
    ASSUME NEW st \in Bytes, NEW cut, NEW unw, NEW disc, NEW ob, NEW exp, NEW f \in Bytes,
           FlowOf(st, cut, unw, disc, ob, exp)
    PROVE  FlowOf(st, cut, unw, disc, ob \o f, exp \o f)
<1>1. PICK w \in Bytes, u \in Bytes : /\ st \o (w \o u) = exp
                                      /\ ~cut => w = unw /\ (~disc => u = ob)
  BY Zenon DEF FlowOf
<1>2. u \o f \in Bytes /\ w \o u \in Bytes
  BY CatType
<1>3. exp \o f = st \o ((w \o u) \o f)
  <2> DEFINE b == w \o u
  <2>1. b \in Bytes
    BY <1>2
  <2> HIDE DEF b
  <2>2. (st \o b) \o f = st \o (b \o f)
    BY <2>1, Assoc, Zenon
  <2> QED BY <1>1, <2>2, Zenon DEF b
<1>4. (w \o u) \o f = w \o (u \o f)
  BY Assoc, Zenon
<1>5. st \o (w \o (u \o f)) = exp \o f
  BY <1>3, <1>4, Zenon
<1>6. ~cut => w = unw /\ (~disc => u \o f = ob \o f)
  BY <1>1, Zenon
<1> QED BY <1>2, <1>5, <1>6, Zenon DEF FlowOf

(* The first queued message is the next frame to be written. *)
LEMMA FlowNext ==
    ASSUME NEW st \in Bytes, NEW cut, NEW disc, NEW ob, NEW exp, NEW f \in Bytes, NEW ob2 \in Bytes,
           ob = f \o ob2, ~disc, FlowOf(st, cut, <<>>, disc, ob, exp), NEW cut2, cut => cut2
    PROVE  FlowOf(st, cut2, f, disc, ob2, exp)
<1>1. PICK w \in Bytes, u \in Bytes : /\ st \o (w \o u) = exp
                                      /\ ~cut => w = <<>> /\ (~disc => u = ob)
  BY Zenon DEF FlowOf
<1>2. CASE cut
  BY <1>1, <1>2, Zenon DEF FlowOf
<1>3. CASE ~cut
  <2>1. w = <<>> /\ u = f \o ob2
    BY <1>1, <1>3, Zenon
  <2>2. w \o u = f \o ob2
    BY <2>1, CatEmpty
  <2>3. st \o (f \o ob2) = exp
    BY <1>1, <2>2, Zenon
  <2> QED BY <2>3, Zenon DEF FlowOf
<1> QED BY <1>2, <1>3

(* A piece of the frame is written. *)
LEMMA FlowWrite ==
    ASSUME NEW st \in Bytes, NEW cut, NEW disc, NEW ob, NEW exp, NEW a \in Bytes, NEW b \in Bytes,
           FlowOf(st, cut, a \o b, disc, ob, exp), ~cut, NEW cut2
    PROVE  FlowOf(st \o a, cut2, b, disc, ob, exp)
<1>1. PICK w \in Bytes, u \in Bytes : st \o (w \o u) = exp /\ w = a \o b /\ (~disc => u = ob)
  BY Zenon DEF FlowOf
<1>2. Regroups(st, a, b, u)
  BY AssocFour
<1>3. (st \o a) \o (b \o u) = exp
  BY <1>1, <1>2, Zenon DEF Regroups
<1> QED BY <1>1, <1>3, Zenon DEF FlowOf

(* The network fails, and keeps a part of the stream. *)
LEMMA FlowLose ==
    ASSUME NEW a \in Bytes, NEW b \in Bytes, NEW cut, NEW unw, NEW disc, NEW ob, NEW exp,
           FlowOf(a \o b, cut, unw, disc, ob, exp), NEW cut2, NEW unw2, NEW disc2, NEW ob2, cut2
    PROVE  FlowOf(a, cut2, unw2, disc2, ob2, exp)
<1>1. PICK w \in Bytes, u \in Bytes : (a \o b) \o (w \o u) = exp
  BY Zenon DEF FlowOf
<1>2. w \o u \in Bytes
  BY CatType
<1> DEFINE x == w \o u
<1> HIDE DEF x
<1>3. x \in Bytes /\ (a \o b) \o x = a \o (b \o x) /\ b \o x \in Bytes
  <2>1. x \in Bytes
    BY <1>2 DEF x
  <2>2. (a \o b) \o x = a \o (b \o x)
    BY <2>1, Assoc, Zenon
  <2>3. b \o x \in Bytes
    BY <2>1, CatType, Zenon
  <2> QED BY <2>1, <2>2, <2>3
<1>4. a \o (b \o x) = exp
  BY <1>1, <1>3, Zenon DEF x
<1>5. b \o x \in Bytes /\ <<>> \in Bytes /\ <<>> \o (b \o x) = b \o x
  <2> DEFINE y == b \o x
  <2>1. y \in Bytes
    BY <1>3
  <2> HIDE DEF y
  <2>2. <<>> \o y = y /\ <<>> \in Bytes
    BY <2>1, CatEmpty DEF Bytes
  <2> QED BY <2>1, <2>2 DEF y
<1>6. a \o (<<>> \o (b \o x)) = exp
  BY <1>4, <1>5, Zenon
<1> QED BY <1>5, <1>6, Zenon DEF FlowOf

(* The consumer reads what it expects first. *)
LEMMA FlowRead ==
    ASSUME NEW st \in Bytes, NEW cut, NEW unw, NEW disc, NEW ob, NEW c \in Bytes, NEW d \in Bytes,
           FlowOf(st, cut, unw, disc, ob, c \o d), Len(c) <= Len(st)
    PROVE  /\ SubSeq(st, 1, Len(c)) = c
           /\ SubSeq(st, Len(c) + 1, Len(st)) \in Bytes
           /\ FlowOf(SubSeq(st, Len(c) + 1, Len(st)), cut, unw, disc, ob, d)
<1>1. PICK w \in Bytes, u \in Bytes : /\ st \o (w \o u) = c \o d
                                      /\ ~cut => w = unw /\ (~disc => u = ob)
  BY Zenon DEF FlowOf
<1>2. w \o u \in Bytes
  BY CatType
<1> DEFINE e == SubSeq(st, Len(c) + 1, Len(st))
           b == w \o u
<1>3. b \in Bytes /\ st \o b = c \o d
  BY <1>1, <1>2
<1> HIDE DEF b
<1>4. e \in Bytes /\ SubSeq(st, 1, Len(c)) = c /\ e \o b = d
  <2>1. SameCat(st, b, c, d)
    BY <1>3, Zenon DEF SameCat
  <2> QED BY <1>3, <2>1, SplitPrefix DEF Bytes
<1> QED BY <1>1, <1>4, Zenon DEF FlowOf, b

-----------------------------------------------------------------------------
(* The inductive invariant: types, the stream, and what holds beside it.   *)
ConsumerPC == {"check", "header", "inHeader", "body", "inBody", "filter", "queue", "end", "panic"}

TypeInv ==
    /\ outbound \in Seq(Message) /\ Len(outbound) <= ChanSize
    /\ sender \in [pc : {"take", "write", "end"}, frame : Bytes, count : Nat]
    /\ sender.pc = "write" => sender.count < Len(sender.frame)
    /\ sender.pc # "write" => sender.frame = <<>> /\ sender.count = 0
    /\ stream \in Bytes
    /\ consumer \in [pc : ConsumerPC, dataLength : Nat, msgCode : Nat, data : Bytes]
    /\ inbound \in Seq(Message) /\ Len(inbound) <= ChanSize
    /\ handler \in {"take", "verified", "end"}
    /\ state \in [Side -> {"handshake", "connected", "disconnected"}]
    /\ group \in [Side -> 0 .. TornDown]
    /\ sent \in Seq(Message) /\ delivered \in Seq(Message)
    /\ passed \in 0 .. Len(sent)

(* Nothing more that is written gets to the consumer. *)
Cut == broken \/ connClosed("in") \/ sender.pc = "end"

Flow(exp) ==
    FlowOf(stream, Cut, Unwritten, state["out"] = "disconnected", Frames(outbound), exp)

(* The same of the next state, for the bytes exp of this one. *)
FlowNow(exp) ==
    FlowOf(stream', Cut', Unwritten', state'["out"] = "disconnected", Frames(outbound'), exp)

(* What the consumer has of its current message, and the bytes it expects. *)
Reading == consumer.pc \in {"body", "inBody"}
Whole == consumer.pc \in {"filter", "queue"}

Holding ==
    /\ Reading \/ Whole => passed < Len(sent)
    /\ Reading => /\ consumer.msgCode = sent[passed + 1].code
                  /\ consumer.dataLength = Len(sent[passed + 1].data)
    /\ Whole => Current = sent[passed + 1]

Expected ==
    IF Reading THEN sent[passed + 1].data \o Frames(From(sent, passed + 2))
    ELSE IF Whole THEN Frames(From(sent, passed + 2))
    ELSE Frames(From(sent, passed + 1))

StreamInv == consumer.pc \notin {"end", "panic"} => Holding /\ Flow(Expected)

(* What a goroutine that is gone, a state and a message let through say of *)
(* the groups.                                                             *)
DownInv ==
    /\ \A s \in Side : state[s] = "disconnected" => group[s] > 0
    /\ sender.pc = "end" => broken \/ \E s \in Side : group[s] > 0
    /\ consumer.pc = "end" => broken \/ \E s \in Side : group[s] > 0
    /\ Crashed => group["in"] > 0
    /\ consumer.pc = "queue" => Verify(Current) \/ state["in"] = "connected" \/ group["in"] > 0

(* What the handler gets was delivered to it. *)
QueueInv ==
    /\ \A i \in 1 .. Len(inbound) : \E j \in 1 .. Len(delivered) : delivered[j] = inbound[i]
    /\ handler = "verified" => \E j \in 1 .. Len(delivered) : Verify(delivered[j])

WireInv == TypeInv /\ StreamInv /\ DownInv /\ QueueInv

LEMMA InitInv == Init => WireInv
<1> SUFFICES ASSUME Init PROVE WireInv
  OBVIOUS
<1>0. <<>> \in Bytes /\ <<>> \in Seq(Message) /\ Len(<<>>) = 0
  BY DEF Bytes
<1>1. TypeInv
  <2>1. sender \in [pc : {"take", "write", "end"}, frame : Bytes, count : Nat] /\ sender.pc = "take"
        /\ sender.frame = <<>> /\ sender.count = 0
    BY <1>0 DEF Init
  <2>2. consumer \in [pc : ConsumerPC, dataLength : Nat, msgCode : Nat, data : Bytes]
    BY <1>0 DEF Init, Nothing, ConsumerPC
  <2>3. /\ state \in [Side -> {"handshake", "connected", "disconnected"}]
        /\ group \in [Side -> 0 .. TornDown] /\ handler \in {"take", "verified", "end"}
    BY DEF Init, TornDown
  <2>4. /\ outbound = <<>> /\ inbound = <<>> /\ stream = <<>> /\ sent = <<>> /\ delivered = <<>>
        /\ passed = 0
    BY DEF Init
  <2> QED BY <1>0, <2>1, <2>2, <2>3, <2>4, WireAssumption DEF TypeInv
<1>2. StreamInv
  <2>1. consumer.pc = "check" /\ sender.frame = <<>> /\ sender.count = 0
    BY DEF Init, Nothing
  <2>2. stream = <<>> /\ outbound = <<>> /\ sent = <<>> /\ passed = 0
    BY DEF Init
  <2>3. Holding
    BY <2>1 DEF Holding, Reading, Whole
  <2>4. Unwritten = <<>>
    BY <2>1 DEF Unwritten
  <2>5. Expected = <<>>
    <3>1. Expected = Frames(From(sent, passed + 1))
      BY <2>1 DEF Expected, Reading, Whole
    <3>2. From(sent, passed + 1) = <<>>
      BY <2>2 DEF From
    <3> QED BY <3>1, <3>2, FramesEmpty
  <2>6. <<>> \o (<<>> \o <<>>) = <<>>
    OBVIOUS
  <2>7. Frames(outbound) = <<>>
    BY <2>2, FramesEmpty
  <2> QED BY <1>0, <2>2, <2>3, <2>4, <2>5, <2>6, <2>7, Zenon DEF StreamInv, Flow, FlowOf
<1>3. DownInv /\ QueueInv
  <2>1. /\ consumer.pc = "check" /\ sender.pc = "take" /\ handler = "take" /\ inbound = <<>>
        /\ \A s \in Side : state[s] = "handshake"
    BY DEF Init, Nothing
  <2> QED BY <2>1 DEF DownInv, QueueInv, Crashed
<1> QED BY <1>1, <1>2, <1>3 DEF WireInv

(* Chopping a sequence of bytes. *)
LEMMA CutBytes ==
    ASSUME NEW s \in Bytes, NEW n \in 0 .. Len(s)
    PROVE  /\ SubSeq(s, 1, n) \in Bytes /\ SubSeq(s, n + 1, Len(s)) \in Bytes
           /\ s = SubSeq(s, 1, n) \o SubSeq(s, n + 1, Len(s))
<1> DEFINE L == Len(s)
           a == SubSeq(s, 1, n)
           b == SubSeq(s, n + 1, L)
           c == a \o b
<1>1. L \in Nat /\ n \in Nat /\ n <= L /\ \A i \in 1 .. L : s[i] \in Byte
  BY LenProperties, ElementOfSeq DEF Bytes
<1>2. a \in Seq(Byte) /\ Len(a) = n /\ \A i \in 1 .. n : a[i] = s[i]
  BY <1>1 DEF Bytes
<1>3. b \in Seq(Byte) /\ Len(b) = L - n /\ \A i \in 1 .. L - n : b[i] = s[n + i]
  BY <1>1 DEF Bytes
<1> HIDE DEF a, b
<1>4. /\ c \in Seq(Byte) /\ Len(c) = Len(a) + Len(b)
      /\ \A i \in 1 .. Len(a) + Len(b) : c[i] = IF i <= Len(a) THEN a[i] ELSE b[i - Len(a)]
  BY <1>2, <1>3, ConcatProperties
<1>5. s \in Seq(Byte) /\ Len(c) = L
  BY <1>1, <1>2, <1>3, <1>4 DEF Bytes
<1> HIDE DEF c
<1>6. ASSUME NEW i \in 1 .. L PROVE s[i] = c[i]
  <2>1. CASE i <= n
    <3>1. c[i] = a[i] /\ i \in 1 .. n
      BY <1>1, <1>2, <1>3, <1>4, <2>1
    <3> QED BY <1>2, <3>1
  <2>2. CASE ~(i <= n)
    <3>1. c[i] = b[i - n] /\ i - n \in 1 .. L - n /\ n + (i - n) = i
      BY <1>1, <1>2, <1>3, <1>4, <2>2
    <3> QED BY <1>3, <3>1
  <2> QED BY <2>1, <2>2
<1>7. s = c
  BY <1>4, <1>5, <1>6, SeqEqual
<1> QED BY <1>2, <1>3, <1>7, Zenon DEF Bytes, a, b, c, L

(* From here on most leaves are first-order and left to Zenon; the others say SMT. *)
USE Zenon

(* A queue that is shortened, and one that gets a message. *)
LEMMA QueueTypes ==
    ASSUME NEW q \in Seq(Message), NEW m \in Message, Len(q) <= ChanSize
    PROVE  /\ Append(q, m) \in Seq(Message) /\ Len(Append(q, m)) = Len(q) + 1
           /\ q # <<>> => /\ Tail(q) \in Seq(Message) /\ Len(Tail(q)) <= ChanSize
                          /\ Head(q) \in Message
<1>1. Append(q, m) \in Seq(Message) /\ Len(Append(q, m)) = Len(q) + 1
  BY AppendProperties
<1>2. ASSUME q # <<>> PROVE /\ Tail(q) \in Seq(Message) /\ Len(Tail(q)) <= ChanSize
                            /\ Head(q) \in Message
  BY <1>2, HeadTailProperties, LenProperties, WireAssumption, SMT
<1> QED BY <1>1, <1>2

(* A header that is read is that of the next message. *)
LEMMA HeaderRead ==
    ASSUME TypeInv, StreamInv, At("inHeader"), Len(stream) >= 6
    PROVE  /\ passed < Len(sent) /\ passed + 1 \in 1 .. Len(sent)
           /\ sent[passed + 1] \in Message
           /\ Minus2(Uint32(stream)) = Len(sent[passed + 1].data)
           /\ Uint16(SubSeq(stream, 5, 6)) = sent[passed + 1].code
           /\ SubSeq(stream, 6 + 1, Len(stream)) \in Bytes
           /\ FlowOf(SubSeq(stream, 6 + 1, Len(stream)), Cut, Unwritten,
                     state["out"] = "disconnected", Frames(outbound),
                     sent[passed + 1].data \o Frames(From(sent, passed + 2)))
<1> DEFINE m == sent[passed + 1]
           k == passed + 1
           after == Frames(From(sent, passed + 2))
           disc == state["out"] = "disconnected"
           ob == Frames(outbound)
<1>0. /\ stream \in Bytes /\ sent \in Seq(Message) /\ passed \in Nat /\ passed <= Len(sent)
      /\ Len(sent) \in Nat
  BY LenProperties, SMT DEF TypeInv
<1>1. Flow(Frames(From(sent, k)))
  BY DEF StreamInv, At, Expected, Reading, Whole
<1>2. passed < Len(sent)
  <2> SUFFICES ASSUME passed = Len(sent) PROVE FALSE
    BY <1>0, SMT
  <2>1. Frames(From(sent, k)) = <<>>
    BY <1>0, FromEnd
  <2>2. PICK w \in Bytes, u \in Bytes : stream \o (w \o u) = <<>>
    BY <1>1, <2>1 DEF Flow, FlowOf
  <2>3. w \o u \in Bytes
    BY CatType
  <2> DEFINE b == w \o u
  <2>4. b \in Seq(Byte) /\ stream \in Seq(Byte) /\ stream \o b = <<>>
    BY <1>0, <2>2, <2>3 DEF Bytes
  <2> HIDE DEF b
  <2>5. Len(stream \o b) = Len(stream) + Len(b) /\ Len(b) \in Nat /\ Len(stream) \in Nat
    BY <2>4, ConcatProperties, LenProperties
  <2>6. Len(stream \o b) = 0
    BY <2>4, SMT
  <2> QED BY <2>5, <2>6, SMT
<1>3. k \in 1 .. Len(sent) /\ m \in Message /\ k + 1 = passed + 2
  BY <1>0, <1>2, SMT
<1>4. after \in Bytes /\ m.data \in Bytes /\ Header(m) \in Bytes /\ Len(Header(m)) = 6
  <2>1. passed + 2 \in Nat \ {0}
    BY <1>0, SMT
  <2>2. after \in Bytes
    BY <1>0, <2>1, FromType
  <2> HIDE DEF m
  <2> QED BY <1>3, <2>2, MessageType, HeaderBytes, SMT
<1>5. Frames(From(sent, k)) = Frame(m) \o after
  <2>1. Frames(From(sent, k)) = Frame(sent[k]) \o Frames(From(sent, k + 1))
    BY <1>0, <1>3, FromCons
  <2> QED BY <1>3, <2>1
<1>6. Frame(m) = Header(m) \o m.data
  BY <1>3, FrameType
<1> DEFINE h == Header(m)
           d == m.data
           rest == d \o after
<1>7. Frames(From(sent, k)) = h \o rest /\ h \in Bytes /\ rest \in Bytes /\ Len(h) = 6
  <2> HIDE DEF m, after
  <2>1. h \in Bytes /\ d \in Bytes /\ after \in Bytes /\ Len(h) = 6
    BY <1>4
  <2> HIDE DEF h, d
  <2>2. (h \o d) \o after = h \o (d \o after)
    BY <2>1, Assoc
  <2>3. d \o after \in Bytes
    BY <2>1, CatType
  <2> QED BY <1>5, <1>6, <2>1, <2>2, <2>3 DEF h, d
<1>8. FlowOf(stream, Cut, Unwritten, disc, ob, h \o rest)
  BY <1>1, <1>7 DEF Flow
<1> HIDE DEF h, rest, ob, disc
<1>9. /\ SubSeq(stream, 1, Len(h)) = h /\ SubSeq(stream, Len(h) + 1, Len(stream)) \in Bytes
      /\ FlowOf(SubSeq(stream, Len(h) + 1, Len(stream)), Cut, Unwritten, disc, ob, rest)
  <2>1. h \in Bytes /\ rest \in Bytes /\ Len(h) <= Len(stream)
    BY <1>7
  <2> QED BY <1>0, <1>8, <2>1, FlowRead, SMT
<1>10. /\ SubSeq(stream, 1, 6) = h /\ SubSeq(stream, 6 + 1, Len(stream)) \in Bytes
       /\ FlowOf(SubSeq(stream, 6 + 1, Len(stream)), Cut, Unwritten, disc, ob, rest)
  <2>1. Len(h) = 6
    BY <1>7
  <2> QED BY <1>9, <2>1
<1>11. Minus2(Uint32(stream)) = Len(m.data) /\ Uint16(SubSeq(stream, 5, 6)) = m.code
  <2>1. m \in Message /\ stream \in Bytes /\ SubSeq(stream, 1, 6) = Header(m)
    BY <1>0, <1>3, <1>10 DEF h
  <2> HIDE DEF m
  <2> QED BY <2>1, Decode
<1> QED BY <1>2, <1>3, <1>10, <1>11 DEF rest, ob, disc

(* A body that is read is that of the current message. *)
LEMMA BodyRead ==
    ASSUME TypeInv, StreamInv, At("inBody"), Len(stream) >= consumer.dataLength
    PROVE  /\ passed < Len(sent) /\ sent[passed + 1] \in Message
           /\ consumer.msgCode = sent[passed + 1].code
           /\ SubSeq(stream, 1, consumer.dataLength) = sent[passed + 1].data
           /\ SubSeq(stream, consumer.dataLength + 1, Len(stream)) \in Bytes
           /\ FlowOf(SubSeq(stream, consumer.dataLength + 1, Len(stream)), Cut, Unwritten,
                     state["out"] = "disconnected", Frames(outbound),
                     Frames(From(sent, passed + 2)))
<1> DEFINE m == sent[passed + 1]
           d == m.data
           after == Frames(From(sent, passed + 2))
           disc == state["out"] = "disconnected"
           ob == Frames(outbound)
<1>0. /\ stream \in Bytes /\ sent \in Seq(Message) /\ passed \in Nat /\ Len(sent) \in Nat
  BY LenProperties, SMT DEF TypeInv
<1>1. /\ passed < Len(sent) /\ consumer.msgCode = m.code /\ consumer.dataLength = Len(d)
      /\ Flow(d \o after)
  BY DEF StreamInv, At, Expected, Holding, Reading, Whole
<1>2. m \in Message
  BY <1>0, <1>1, SMT
<1>3. d \in Bytes /\ after \in Bytes
  <2>1. passed + 2 \in Nat \ {0}
    BY <1>0, SMT
  <2>2. after \in Bytes
    BY <1>0, <2>1, FromType
  <2> HIDE DEF m
  <2> QED BY <1>2, <2>2, MessageType, SMT
<1>4. FlowOf(stream, Cut, Unwritten, disc, ob, d \o after)
  BY <1>1 DEF Flow
<1>5. Len(d) <= Len(stream)
  BY <1>1, LenProperties DEF TypeInv
<1> HIDE DEF m, d, after, disc, ob
<1>6. /\ SubSeq(stream, 1, Len(d)) = d /\ SubSeq(stream, Len(d) + 1, Len(stream)) \in Bytes
      /\ FlowOf(SubSeq(stream, Len(d) + 1, Len(stream)), Cut, Unwritten, disc, ob, after)
  BY <1>0, <1>3, <1>4, <1>5, FlowRead, SMT
<1>7. /\ SubSeq(stream, 1, consumer.dataLength) = d
      /\ SubSeq(stream, consumer.dataLength + 1, Len(stream)) \in Bytes
      /\ FlowOf(SubSeq(stream, consumer.dataLength + 1, Len(stream)), Cut, Unwritten, disc, ob, after)
  BY <1>1, <1>6
<1> QED BY <1>1, <1>2, <1>7 DEF m, d, after, disc, ob

(* Every step keeps the types. *)
LEMMA TypeStep ==
    ASSUME TypeInv, StreamInv, [Next]_vars
    PROVE  TypeInv'
<1>0. Len(stream) \in Nat /\ Len(sent) \in Nat /\ passed \in Nat /\ <<>> \in Bytes
  BY LenProperties, SMT DEF TypeInv, Bytes
<1>1. ASSUME sendMessage PROVE TypeInv'
  <2>1. PICK m \in Message : outbound' = Append(outbound, m) /\ sent' = Append(sent, m)
    BY <1>1 DEF sendMessage
  <2>2. Len(outbound) < ChanSize
        /\ UNCHANGED <<sender, stream, consumer, inbound, handler, state, group, passed, delivered>>
    BY <1>1 DEF sendMessage, inVars
  <2>3. /\ outbound' \in Seq(Message) /\ Len(outbound') = Len(outbound) + 1
        /\ sent' \in Seq(Message) /\ Len(sent') = Len(sent) + 1
    BY <2>1, AppendProperties, SMT DEF TypeInv
  <2>4. Len(outbound') <= ChanSize /\ passed' \in 0 .. Len(sent')
    <3>1. Len(outbound) \in Nat /\ ChanSize \in Nat /\ passed \in 0 .. Len(sent)
      BY LenProperties, WireAssumption DEF TypeInv
    <3> QED BY <1>0, <2>2, <2>3, <3>1, SMT
  <2> QED BY <2>2, <2>3, <2>4 DEF TypeInv
<1>2. ASSUME Break PROVE TypeInv'
  <2>1. PICK n \in {0} \cup Taken(Len(stream)) : stream' = SubSeq(stream, 1, n)
    BY <1>2 DEF Break
  <2>2. n \in 0 .. Len(stream)
    BY <1>0, SMT DEF Taken
  <2>3. stream' \in Bytes
    BY <2>1, <2>2, CutBytes DEF TypeInv
  <2>4. UNCHANGED <<outbound, sender, consumer, inbound, handler, state, group, sent, passed, delivered>>
    BY <1>2 DEF Break, outVars, inVars, history
  <2> QED BY <2>3, <2>4 DEF TypeInv
<1>3. ASSUME networkSender PROVE TypeInv'
  <2>1. UNCHANGED <<stream, consumer, inbound, handler, state, group, sent, passed, delivered>>
    BY <1>3 DEF networkSender, inVars, history
  <2>2. /\ outbound' \in Seq(Message) /\ Len(outbound') <= ChanSize
        /\ sender' \in [pc : {"take", "write", "end"}, frame : Bytes, count : Nat]
        /\ sender'.pc = "write" => sender'.count < Len(sender'.frame)
        /\ sender'.pc # "write" => sender'.frame = <<>> /\ sender'.count = 0
    <3>1. CASE outbound # <<>> /\ outbound' = Tail(outbound) /\ sender' = sender
      <4>1. outbound' \in Seq(Message) /\ Len(outbound') <= ChanSize
        BY <3>1, HeadTailProperties, LenProperties, WireAssumption, SMT DEF TypeInv
      <4> QED BY <3>1, <4>1 DEF TypeInv
    <3>2. CASE /\ outbound # <<>> /\ outbound' = Tail(outbound)
               /\ sender' = [pc |-> "write", frame |-> Frame(Head(outbound)), count |-> 0]
      <4>1. outbound' \in Seq(Message) /\ Len(outbound') <= ChanSize /\ Head(outbound) \in Message
        BY <3>2, HeadTailProperties, LenProperties, WireAssumption, SMT DEF TypeInv
      <4> DEFINE f == Frame(Head(outbound))
      <4>2. f \in Bytes /\ Len(f) \in Nat /\ Len(f) >= 6
        BY <4>1, FrameType
      <4> HIDE DEF f
      <4>3. sender' = [pc |-> "write", frame |-> f, count |-> 0]
        BY <3>2 DEF f
      <4> QED BY <4>1, <4>2, <4>3, SMT
    <3>3. CASE sender' = [sender EXCEPT !.pc = "end"] /\ outbound' = outbound
      <4>1. sender.pc # "write"
        BY <1>3 DEF networkSender
      <4> QED BY <3>3, <4>1 DEF TypeInv
    <3> QED BY <1>3, <3>1, <3>2, <3>3 DEF networkSender
  <2> QED BY <2>1, <2>2 DEF TypeInv
<1>4. ASSUME SendData PROVE TypeInv'
  <2> DEFINE f == sender.frame
             c == sender.count
  <2>1. /\ sender.pc = "write"
        /\ UNCHANGED <<outbound, consumer, inbound, handler, state, group, sent, passed, delivered>>
    BY <1>4 DEF SendData, inVars, history
  <2>2. f \in Bytes /\ c \in Nat /\ Len(f) \in Nat /\ c < Len(f)
    BY <2>1, LenProperties DEF TypeInv, Bytes
  <2>3. PICK n \in Taken(Len(f) - c) :
          /\ stream' = stream \/ stream' = stream \o SubSeq(f, c + 1, c + n)
          /\ sender' = IF c + n < Len(f) THEN [sender EXCEPT !.count = @ + n]
                       ELSE [pc |-> "take", frame |-> <<>>, count |-> 0]
    BY <1>4 DEF SendData
  <2>4. n \in 1 .. Len(f) - c
    BY <2>2, SMT DEF Taken
  <2>5. SubSeq(f, c + 1, c + n) \in Bytes
    BY <2>2, <2>4, SMT DEF Bytes
  <2>6. stream' \in Bytes
    BY <2>3, <2>5, CatType DEF TypeInv
  <2>7. /\ sender' \in [pc : {"take", "write", "end"}, frame : Bytes, count : Nat]
        /\ sender'.pc = "write" => sender'.count < Len(sender'.frame)
        /\ sender'.pc # "write" => sender'.frame = <<>> /\ sender'.count = 0
    <3>1. CASE c + n < Len(f) /\ sender' = [sender EXCEPT !.count = @ + n]
      <4>1. /\ sender'.pc = "write" /\ sender'.count = c + n /\ sender'.frame = f
            /\ sender' \in [pc : {"take", "write", "end"}, frame : Bytes, count : Nat]
        <5>1. sender \in [pc : {"take", "write", "end"}, frame : Bytes, count : Nat]
          BY DEF TypeInv
        <5>2. c + n \in Nat
          BY <2>2, <2>4, SMT
        <5> QED BY <2>1, <3>1, <5>1, <5>2
      <4> QED BY <3>1, <4>1
    <3>2. CASE sender' = [pc |-> "take", frame |-> <<>>, count |-> 0]
      BY <1>0, <3>2
    <3> QED BY <2>3, <3>1, <3>2
  <2> QED BY <2>1, <2>6, <2>7 DEF TypeInv
<1>5. ASSUME SendDataFails PROVE TypeInv'
  <2>1. /\ sender' = [pc |-> "end", frame |-> <<>>, count |-> 0]
        /\ UNCHANGED <<outbound, stream, consumer, inbound, handler, state, group, sent, passed, delivered>>
    BY <1>5 DEF SendDataFails, inVars, history
  <2>2. /\ sender' \in [pc : {"take", "write", "end"}, frame : Bytes, count : Nat]
        /\ sender'.pc = "end" /\ sender'.frame = <<>> /\ sender'.count = 0
    BY <1>0, <2>1
  <2> QED BY <2>1, <2>2 DEF TypeInv
<1> DEFINE Fields == [pc : ConsumerPC, dataLength : Nat, msgCode : Nat, data : Bytes]
<1>6. ASSUME consumer' \in Fields, stream' \in Bytes,
             UNCHANGED <<outbound, sender, inbound, handler, state, group, sent, delivered>>,
             passed' = passed \/ (passed < Len(sent) /\ passed' = passed + 1)
      PROVE  TypeInv'
  <2>1. passed' \in 0 .. Len(sent')
    BY <1>0, <1>6, SMT DEF TypeInv
  <2> QED BY <1>6, <2>1 DEF TypeInv
<1>7. ASSUME NEW pc \in ConsumerPC PROVE Nothing(pc) \in Fields /\ [consumer EXCEPT !.pc = pc] \in Fields
  BY <1>0 DEF Nothing, TypeInv
<1>8. ASSUME checkState \/ readFull PROVE TypeInv'
  <2>1. /\ \E pc \in ConsumerPC : consumer' = [consumer EXCEPT !.pc = pc]
        /\ UNCHANGED <<outbound, sender, stream, inbound, handler, state, group, sent, passed, delivered>>
    <3>1. CASE checkState
      BY <3>1 DEF checkState, Go, ConsumerPC, outVars, history
    <3>2. CASE readFull
      BY <3>2 DEF readFull, Go, ConsumerPC, outVars, history
    <3> QED BY <1>8, <3>1, <3>2
  <2>2. stream' \in Bytes
    BY <2>1 DEF TypeInv
  <2> QED BY <1>6, <1>7, <2>1, <2>2
<1>9. ASSUME readHeader PROVE TypeInv'
  <2>1. /\ At("inHeader") /\ Len(stream) >= 6
        /\ consumer' = [pc |-> IF Minus2(Uint32(stream)) > 0 THEN "body" ELSE "filter",
                        dataLength |-> Minus2(Uint32(stream)),
                        msgCode |-> Uint16(SubSeq(stream, 5, 6)), data |-> <<>>]
        /\ stream' = SubSeq(stream, 6 + 1, Len(stream))
        /\ UNCHANGED <<outbound, sender, inbound, handler, state, group, sent, passed, delivered>>
    BY <1>9 DEF readHeader, Take, outVars, history
  <2>2. Minus2(Uint32(stream)) \in Nat /\ Uint16(SubSeq(stream, 5, 6)) \in Nat /\ stream' \in Bytes
    BY <2>1, HeaderRead, MessageType, SMT
  <2>3. consumer' \in Fields
    BY <1>0, <2>1, <2>2 DEF ConsumerPC
  <2> QED BY <1>6, <2>1, <2>2, <2>3
<1>10. ASSUME readBody PROVE TypeInv'
  <2>1. /\ At("inBody") /\ Len(stream) >= consumer.dataLength
        /\ consumer' = [consumer EXCEPT !.pc = "filter",
                                        !.data = SubSeq(stream, 1, consumer.dataLength)]
        /\ stream' = SubSeq(stream, consumer.dataLength + 1, Len(stream))
        /\ UNCHANGED <<outbound, sender, inbound, handler, state, group, sent, passed, delivered>>
    BY <1>10 DEF readBody, Take, outVars, history
  <2>2. SubSeq(stream, 1, consumer.dataLength) \in Bytes /\ stream' \in Bytes
    <3> DEFINE m == sent[passed + 1]
    <3>1. m \in Message /\ SubSeq(stream, 1, consumer.dataLength) = m.data /\ stream' \in Bytes
      BY <2>1, BodyRead
    <3> HIDE DEF m
    <3>2. m.data \in Bytes
      BY <3>1, MessageType, SMT
    <3> QED BY <3>1, <3>2
  <2>3. consumer' \in Fields
    BY <2>1, <2>2 DEF TypeInv, ConsumerPC
  <2> QED BY <1>6, <2>1, <2>2, <2>3
<1>11. ASSUME readFails PROVE TypeInv'
  <2>1. /\ consumer' = Nothing("end") /\ stream' = stream
        /\ UNCHANGED <<outbound, sender, inbound, handler, state, group, sent, passed, delivered>>
    BY <1>11 DEF readFails, outVars, history
  <2>2. "end" \in ConsumerPC /\ stream' \in Bytes
    BY <2>1 DEF ConsumerPC, TypeInv
  <2> QED BY <1>6, <1>7, <2>1, <2>2
<1>12. ASSUME filterMessage PROVE TypeInv'
  <2>1. /\ At("filter") /\ stream' = stream
        /\ UNCHANGED <<outbound, sender, inbound, handler, state, group, sent, delivered>>
        /\ \/ consumer' = Nothing("check") /\ passed' = passed + 1
           \/ consumer' = [consumer EXCEPT !.pc = "queue"] /\ passed' = passed
    BY <1>12 DEF filterMessage, Go, outVars
  <2>2. passed < Len(sent)
    BY <2>1 DEF StreamInv, Holding, At, Whole
  <2>3. "check" \in ConsumerPC /\ "queue" \in ConsumerPC /\ stream' \in Bytes
    BY <2>1 DEF ConsumerPC, TypeInv
  <2> QED BY <1>6, <1>7, <2>1, <2>2, <2>3
<1>13. ASSUME queueInboundMessage PROVE TypeInv'
  <2>1. /\ At("queue") /\ stream' = stream /\ consumer' = Nothing("check") /\ passed' = passed + 1
        /\ UNCHANGED <<outbound, sender, handler, state, group, sent>>
    BY <1>13 DEF queueInboundMessage, outVars
  <2>2. passed < Len(sent) /\ Current = sent[passed + 1]
    BY <2>1 DEF StreamInv, Holding, At, Whole
  <2>3. Current \in Message
    BY <1>0, <2>2, SMT DEF TypeInv
  <2>4. /\ inbound' \in Seq(Message) /\ Len(inbound') <= ChanSize
        /\ delivered' \in Seq(Message)
    <3>1. CASE /\ Len(inbound) < ChanSize /\ inbound' = Append(inbound, Current)
               /\ delivered' = Append(delivered, Current)
      <4> HIDE DEF Current
      <4>1. inbound' \in Seq(Message) /\ Len(inbound') = Len(inbound) + 1 /\ delivered' \in Seq(Message)
        BY <2>3, <3>1, AppendProperties, SMT DEF TypeInv
      <4> QED BY <3>1, <4>1, LenProperties, WireAssumption, SMT DEF TypeInv
    <3>2. CASE UNCHANGED <<inbound, delivered>>
      BY <3>2 DEF TypeInv
    <3> QED BY <1>13, <3>1, <3>2 DEF queueInboundMessage
  <2>5. consumer' \in Fields /\ passed' \in 0 .. Len(sent')
    <3>1. "check" \in ConsumerPC
      BY DEF ConsumerPC
    <3>2. consumer' \in Fields
      BY <1>7, <2>1, <3>1
    <3> QED BY <1>0, <2>1, <2>2, <3>2, SMT
  <2> QED BY <2>1, <2>4, <2>5 DEF TypeInv
<1>14. ASSUME handleMessage PROVE TypeInv'
  <2>1. UNCHANGED <<outbound, sender, stream, consumer, state, group, sent, passed, delivered>>
    BY <1>14 DEF handleMessage, outVars, history
  <2>2. handler' \in {"take", "verified", "end"}
    BY <1>14 DEF handleMessage
  <2>3. inbound' \in Seq(Message) /\ Len(inbound') <= ChanSize
    <3>1. CASE inbound # <<>> /\ inbound' = Tail(inbound)
      BY <3>1, HeadTailProperties, LenProperties, WireAssumption, SMT DEF TypeInv
    <3>2. CASE inbound' = inbound
      BY <3>2 DEF TypeInv
    <3> QED BY <1>14, <3>1, <3>2 DEF handleMessage
  <2> QED BY <2>1, <2>2, <2>3 DEF TypeInv
<1>15. ASSUME handleVerified PROVE TypeInv'
  <2>1. /\ handler' = "take" /\ state' = [state EXCEPT !["in"] = "connected"]
        /\ UNCHANGED <<outbound, sender, stream, consumer, inbound, group, sent, passed, delivered>>
    BY <1>15 DEF handleVerified, outVars, history
  <2> QED BY <2>1 DEF TypeInv
<1>16. ASSUME NEW s \in Side, Start(s) \/ Interrupt(s) \/ tearDown(s) PROVE TypeInv'
  <2>1. UNCHANGED <<outbound, sender, stream, consumer, inbound, handler, sent, passed, delivered>>
    BY <1>16 DEF Start, Interrupt, tearDown, outVars, inVars, history
  <2>2. /\ group' \in [Side -> 0 .. TornDown]
        /\ state' \in [Side -> {"handshake", "connected", "disconnected"}]
    <3>1. CASE Start(s)
      BY <3>1, SMT DEF Start, TypeInv, TornDown
    <3>2. CASE Interrupt(s)
      BY <3>2, SMT DEF Interrupt, TypeInv, TornDown
    <3>3. CASE tearDown(s)
      BY <3>3, SMT DEF tearDown, TypeInv, TornDown
    <3> QED BY <1>16, <3>1, <3>2, <3>3
  <2> QED BY <2>1, <2>2 DEF TypeInv
<1>17. CASE UNCHANGED vars
  BY <1>17 DEF vars, outVars, inVars, history, TypeInv
<1> QED
  BY <1>1, <1>2, <1>3, <1>4, <1>5, <1>8, <1>9, <1>10, <1>11, <1>12, <1>13, <1>14, <1>15, <1>16,
     <1>17 DEF Next, Sender, Consumer, Handler

-----------------------------------------------------------------------------
(* Steps of the sending end, of the network, of the handler and of the     *)
(* groups: what the consumer expects stays on its way.                     *)
LEMMA SenderFlow ==
    ASSUME TypeInv, networkSender, NEW e, Flow(e)
    PROVE  FlowNow(e)
<1> DEFINE disc == state["out"] = "disconnected"
           ob == Frames(outbound)
           ob2 == Frames(outbound')
<1>0. stream \in Bytes /\ outbound \in Seq(Message)
  BY DEF TypeInv
<1>1. FlowOf(stream, Cut, Unwritten, disc, ob, e)
  BY DEF Flow
<1>2. sender.pc = "take" /\ UNCHANGED <<stream, broken, state, group>>
  BY DEF networkSender
<1>3. Cut => Cut'
  BY <1>2 DEF Cut, connClosed
<1>4. Unwritten = <<>>
  <2>1. sender.frame = <<>> /\ sender.count = 0
    BY <1>2 DEF TypeInv
  <2> QED BY <2>1, SMT DEF Unwritten
<1>5. SUFFICES FlowOf(stream, Cut', Unwritten', disc, ob2, e)
  BY <1>2 DEF FlowNow
<1>6. CASE outbound # <<>> /\ outbound' = Tail(outbound) /\ sender' = sender /\ disc
  <2>1. Unwritten' = Unwritten
    BY <1>6 DEF Unwritten
  <2> HIDE DEF disc, ob, ob2
  <2>2. FlowOf(stream, Cut', Unwritten, disc, ob2, e)
    BY <1>1, <1>3, <1>6, FlowDiscard
  <2> QED BY <2>1, <2>2
<1>7. CASE /\ outbound # <<>> /\ outbound' = Tail(outbound) /\ ~disc
           /\ sender' = [pc |-> "write", frame |-> Frame(Head(outbound)), count |-> 0]
  <2> DEFINE m == Head(outbound)
             f == Frame(m)
  <2>1. outbound' \in Seq(Message) /\ m \in Message /\ outbound = <<m>> \o outbound'
    BY <1>0, <1>7, SMT
  <2>2. f \in Bytes /\ ob2 \in Bytes /\ Len(f) \in Nat
    BY <2>1, FrameType, FramesType
  <2>3. ob = f \o ob2
    BY <2>1, FramesCons
  <2>4. Unwritten' = f
    <3>1. sender'.frame = f /\ sender'.count = 0
      BY <1>7
    <3> HIDE DEF f
    <3>2. SubSeq(f, 0 + 1, Len(f)) = f
      BY <2>2, SubSeqFull, SMT DEF Bytes
    <3> QED BY <3>1, <3>2 DEF Unwritten
  <2> HIDE DEF disc, ob, ob2, f
  <2>5. FlowOf(stream, Cut, <<>>, disc, ob, e)
    BY <1>1, <1>4
  <2>6. FlowOf(stream, Cut', f, disc, ob2, e)
    BY <1>0, <1>3, <1>7, <2>2, <2>3, <2>5, FlowNext
  <2> QED BY <2>4, <2>6
<1>8. CASE outbound = <<>> /\ sender' = [sender EXCEPT !.pc = "end"]
  <2>1. Cut'
    <3>1. sender'.pc = "end"
      BY <1>8 DEF TypeInv
    <3> QED BY <3>1 DEF Cut
  <2> HIDE DEF disc, ob, ob2
  <2> QED BY <1>1, <2>1, FlowCut
<1> QED BY <1>6, <1>7, <1>8 DEF networkSender

LEMMA SendFailsFlow ==
    ASSUME TypeInv, SendDataFails, NEW e, Flow(e)
    PROVE  FlowNow(e)
<1>1. Cut'
  <2>1. sender'.pc = "end"
    BY DEF SendDataFails
  <2> QED BY <2>1 DEF Cut
<1>2. stream' = stream
  BY DEF SendDataFails
<1> QED BY <1>1, <1>2, FlowCut DEF Flow, FlowNow

LEMMA SendDataFlow ==
    ASSUME TypeInv, SendData, ~Crashed, NEW e, Flow(e)
    PROVE  FlowNow(e)
<1> DEFINE f == sender.frame
           c == sender.count
           disc == state["out"] = "disconnected"
           ob == Frames(outbound)
<1>0. /\ sender.pc = "write" /\ ~broken
      /\ UNCHANGED <<outbound, broken, state, group>>
  BY DEF SendData, CanWrite
<1>1. stream \in Bytes /\ f \in Bytes /\ c \in Nat /\ Len(f) \in Nat /\ c < Len(f)
  BY <1>0, LenProperties DEF TypeInv, Bytes
<1>2. FlowOf(stream, Cut, Unwritten, disc, ob, e)
  BY DEF Flow
<1>3. SUFFICES FlowOf(stream', Cut', Unwritten', disc, ob, e)
  BY <1>0 DEF FlowNow
<1>4. CASE connClosed("in")
  <2>1. stream' = stream
    BY <1>4 DEF SendData
  <2>2. Cut'
    BY <1>0, <1>4 DEF Cut, connClosed
  <2> HIDE DEF disc, ob
  <2>3. FlowOf(stream, Cut', Unwritten', disc, ob, e)
    BY <1>2, <2>2, FlowCut
  <2> QED BY <2>1, <2>3
<1>5. CASE ~connClosed("in")
  <2>1. PICK n \in Taken(Len(f) - c) :
          /\ stream' = stream \o SubSeq(f, c + 1, c + n)
          /\ sender' = IF c + n < Len(f) THEN [sender EXCEPT !.count = @ + n]
                       ELSE [pc |-> "take", frame |-> <<>>, count |-> 0]
    BY <1>5 DEF SendData
  <2>2. n \in 1 .. Len(f) - c
    BY <1>1, SMT DEF Taken
  <2> DEFINE a == SubSeq(f, c + 1, c + n)
             b == SubSeq(f, (c + n) + 1, Len(f))
  <2>3. a \in Bytes /\ b \in Bytes
    BY <1>1, <2>2, SMT DEF Bytes
  <2>4. a \o b = SubSeq(f, c + 1, Len(f))
    <3>1. f \in Seq(Byte) /\ c + 1 \in 1 .. Len(f) + 1 /\ c + n \in (c + 1) - 1 .. Len(f)
      BY <1>1, <2>2, SMT DEF Bytes
    <3>2. Len(f) \in (c + n) .. Len(f)
      BY <1>1, <2>2, SMT
    <3> HIDE DEF f, c
    <3> QED BY <3>1, <3>2, ConcatAdjacentSubSeq
  <2>5. Unwritten = a \o b
    BY <2>4 DEF Unwritten
  <2>6. Unwritten' = b
    <3>1. CASE c + n < Len(f)
      <4>1. sender' = [sender EXCEPT !.count = @ + n]
        BY <2>1, <3>1
      <4>2. sender'.frame = f /\ sender'.count = c + n
        BY <4>1 DEF TypeInv
      <4> QED BY <4>2 DEF Unwritten
    <3>2. CASE ~(c + n < Len(f))
      <4>1. sender'.frame = <<>> /\ sender'.count = 0
        BY <2>1, <3>2
      <4>2. Unwritten' = <<>>
        BY <4>1, SMT DEF Unwritten
      <4>3. b = <<>>
        <5>1. c + n = Len(f)
          BY <1>1, <2>2, <3>2, SMT
        <5> QED BY <1>1, <5>1, SMT DEF Bytes
      <4> QED BY <4>2, <4>3
    <3> QED BY <3>1, <3>2
  <2>7. ~Cut
    BY <1>0, <1>5 DEF Cut
  <2> HIDE DEF disc, ob, a, b
  <2>8. FlowOf(stream, Cut, a \o b, disc, ob, e)
    BY <1>2, <2>5
  <2>9. FlowOf(stream \o a, Cut', b, disc, ob, e)
    BY <1>1, <2>3, <2>7, <2>8, FlowWrite, SMT
  <2>10. stream' = stream \o a
    BY <2>1 DEF a
  <2> QED BY <2>6, <2>9, <2>10
<1> QED BY <1>4, <1>5

LEMMA BreakFlow ==
    ASSUME TypeInv, Break, NEW e, Flow(e)
    PROVE  FlowNow(e)
<1>1. PICK n \in {0} \cup Taken(Len(stream)) : stream' = SubSeq(stream, 1, n)
  BY DEF Break
<1>2. stream \in Bytes /\ Len(stream) \in Nat
  BY LenProperties DEF TypeInv, Bytes
<1>3. n \in 0 .. Len(stream)
  BY <1>2, SMT DEF Taken
<1> DEFINE b == SubSeq(stream, n + 1, Len(stream))
<1>4. stream' \in Bytes /\ b \in Bytes /\ stream = stream' \o b
  BY <1>1, <1>2, <1>3, CutBytes
<1>5. Cut'
  BY DEF Break, Cut
<1> HIDE DEF b
<1>6. FlowOf(stream' \o b, Cut, Unwritten, state["out"] = "disconnected", Frames(outbound), e)
  BY <1>4 DEF Flow
<1> QED BY <1>4, <1>5, <1>6, FlowLose DEF FlowNow

(* Steps that touch neither the stream nor the sending end. *)
LEMMA SameFlow ==
    ASSUME UNCHANGED <<stream, outbound, sender>>, NEW e, Flow(e), Cut => Cut',
           state["out"] = "disconnected" => state'["out"] = "disconnected"
    PROVE  FlowNow(e)
<1>1. stream' = stream /\ outbound' = outbound /\ sender' = sender
  OBVIOUS
<1>2. Unwritten' = Unwritten
  BY <1>1 DEF Unwritten
<1>3. FlowOf(stream, Cut', Unwritten, state'["out"] = "disconnected", Frames(outbound), e)
  BY FlowKept DEF Flow
<1> QED BY <1>1, <1>2, <1>3 DEF FlowNow

(* The groups and the handler. *)
LEMMA OtherFlow ==
    ASSUME TypeInv, NEW e, Flow(e),
           \/ handleMessage \/ handleVerified
           \/ \E s \in Side : Start(s) \/ Interrupt(s) \/ tearDown(s)
           \/ UNCHANGED vars
    PROVE  FlowNow(e)
<1> DEFINE Fine == /\ UNCHANGED <<stream, outbound, sender, broken>>
                   /\ group["in"] >= 5 => group'["in"] >= 5
                   /\ state["out"] = "disconnected" => state'["out"] = "disconnected"
<1>1. ASSUME handleMessage PROVE Fine
  <2>1. UNCHANGED <<stream, outbound, sender, broken, group, state>>
    BY <1>1 DEF handleMessage, outVars
  <2> QED BY <2>1
<1>2. ASSUME handleVerified PROVE Fine
  <2>1. UNCHANGED <<stream, outbound, sender, broken, group>>
    BY <1>2 DEF handleVerified, outVars
  <2>2. state'["out"] = state["out"]
    BY <1>2 DEF handleVerified, TypeInv, Side
  <2> QED BY <2>1, <2>2
<1>3. ASSUME NEW s \in Side, Start(s) \/ Interrupt(s) \/ tearDown(s) PROVE Fine
  <2>1. UNCHANGED <<stream, outbound, sender, broken>>
    BY <1>3 DEF Start, Interrupt, tearDown, outVars
  <2>2. CASE Start(s)
    <3>1. group["in"] >= 5 => group'["in"] >= 5
      BY <2>2, SMT DEF Start, TypeInv, Side
    <3>2. state' = state
      BY <2>2 DEF Start
    <3> QED BY <2>1, <3>1, <3>2
  <2>3. CASE Interrupt(s)
    <3>1. group["in"] >= 5 => group'["in"] >= 5
      BY <2>3, SMT DEF Interrupt, TypeInv, Side
    <3>2. state["out"] = "disconnected" => state'["out"] = "disconnected"
      BY <2>3 DEF Interrupt, TypeInv, Side
    <3> QED BY <2>1, <3>1, <3>2
  <2>4. CASE tearDown(s)
    <3>1. group["in"] >= 5 => group'["in"] >= 5
      BY <2>4, SMT DEF tearDown, TypeInv, Side, TornDown
    <3>2. state' = state
      BY <2>4 DEF tearDown
    <3> QED BY <2>1, <3>1, <3>2
  <2> QED BY <1>3, <2>2, <2>3, <2>4
<1>4. ASSUME UNCHANGED vars PROVE Fine
  <2>1. UNCHANGED <<stream, outbound, sender, broken, group, state>>
    BY <1>4 DEF vars, outVars
  <2> QED BY <2>1
<1>5. Fine
  BY <1>1, <1>2, <1>3, <1>4
<1>6. Cut => Cut'
  BY <1>5 DEF Cut, connClosed
<1>7. /\ UNCHANGED <<stream, outbound, sender>>
      /\ state["out"] = "disconnected" => state'["out"] = "disconnected"
  BY <1>5
<1> HIDE DEF Fine
<1> QED BY <1>6, <1>7, SameFlow

LEMMA StreamKept ==
    ASSUME StreamInv, UNCHANGED <<consumer, sent, passed>>,
           consumer.pc \notin {"end", "panic"} => FlowNow(Expected)
    PROVE  StreamInv'
<1>1. consumer' = consumer /\ sent' = sent /\ passed' = passed
  OBVIOUS
<1>2. Expected' = Expected
  BY <1>1 DEF Expected, Reading, Whole
<1>3. Holding' <=> Holding
  BY <1>1 DEF Holding, Reading, Whole, Current
<1>4. Flow(Expected)' <=> FlowNow(Expected)
  BY <1>2 DEF Flow, FlowNow
<1> QED BY <1>1, <1>3, <1>4 DEF StreamInv

(* A message is queued: its frame is the last of what is expected. *)
LEMMA SendStream ==
    ASSUME TypeInv, StreamInv, sendMessage
    PROVE  StreamInv'
<1> SUFFICES ASSUME consumer.pc \notin {"end", "panic"} PROVE Holding' /\ Flow(Expected)'
  BY DEF StreamInv, sendMessage, inVars
<1>1. PICK m \in Message : outbound' = Append(outbound, m) /\ sent' = Append(sent, m)
  BY DEF sendMessage
<1>2. UNCHANGED <<sender, stream, broken, consumer, state, group, passed>>
  BY DEF sendMessage, inVars
<1>3. /\ outbound \in Seq(Message) /\ sent \in Seq(Message) /\ stream \in Bytes
      /\ passed \in Nat /\ Len(sent) \in Nat /\ passed <= Len(sent)
  BY LenProperties, SMT DEF TypeInv
<1>4. /\ Len(sent') = Len(sent) + 1
      /\ \A i \in 1 .. Len(sent) : sent'[i] = sent[i]
  BY <1>1, <1>3, AppendProperties, SMT
<1> DEFINE f == Frame(m)
           k == passed + 1
<1>5. f \in Bytes
  BY FrameType
<1>6. Holding /\ Flow(Expected)
  BY DEF StreamInv
<1>7. Reading' = Reading /\ Whole' = Whole
  BY <1>2 DEF Reading, Whole
<1>8. Reading \/ Whole => k \in 1 .. Len(sent) /\ sent'[k] = sent[k] /\ sent[k] \in Message
  BY <1>3, <1>4, <1>6, SMT DEF Holding
<1>9. Holding'
  BY <1>2, <1>3, <1>4, <1>6, <1>7, <1>8, SMT DEF Holding, Current
<1>10. Expected' = Expected \o f
  <2> HIDE DEF f
  <2>1. ASSUME NEW j \in Nat \ {0}, j <= Len(sent) + 1
        PROVE  Frames(From(sent', j)) = Frames(From(sent, j)) \o f /\ Frames(From(sent, j)) \in Bytes
    BY <1>1, <1>3, <2>1, FromAppend, FromType DEF f
  <2>2. CASE ~Reading /\ ~Whole
    <3>1. Expected' = Frames(From(sent', k)) /\ Expected = Frames(From(sent, k))
      BY <1>2, <1>7, <2>2 DEF Expected
    <3>2. k \in Nat \ {0} /\ k <= Len(sent) + 1
      BY <1>3, SMT
    <3> HIDE DEF k
    <3> QED BY <2>1, <3>1, <3>2
  <2>3. CASE ~Reading /\ Whole
    <3>1. Expected' = Frames(From(sent', passed + 2)) /\ Expected = Frames(From(sent, passed + 2))
      BY <1>2, <1>7, <2>3 DEF Expected
    <3>2. passed + 2 \in Nat \ {0} /\ passed + 2 <= Len(sent) + 1
      BY <1>3, <1>8, <2>3, SMT
    <3> QED BY <2>1, <3>1, <3>2
  <2>4. CASE Reading
    <3> DEFINE d == sent[k].data
               a == Frames(From(sent, passed + 2))
    <3>1. /\ Expected' = sent'[k].data \o Frames(From(sent', passed + 2))
          /\ Expected = d \o a
      BY <1>2, <1>7, <2>4 DEF Expected
    <3>2. passed + 2 \in Nat \ {0} /\ passed + 2 <= Len(sent) + 1 /\ sent'[k] = sent[k]
      BY <1>3, <1>8, <2>4, SMT
    <3>3. Frames(From(sent', passed + 2)) = a \o f /\ a \in Bytes
      BY <2>1, <3>2
    <3>4. d \in Bytes
      <4> DEFINE x == sent[k]
      <4>1. x \in Message
        BY <1>8, <2>4
      <4> HIDE DEF x
      <4>2. x.data \in Bytes
        BY <4>1, MessageType, SMT
      <4> QED BY <4>2 DEF x
    <3>5. Expected' = d \o (a \o f)
      BY <3>1, <3>2, <3>3
    <3> HIDE DEF d, a
    <3>6. (d \o a) \o f = d \o (a \o f)
      BY <1>5, <3>3, <3>4, Assoc DEF f
    <3> QED BY <3>1, <3>5, <3>6
  <2> QED BY <2>2, <2>3, <2>4
<1>11. Frames(outbound') = Frames(outbound) \o f
  BY <1>1, <1>3, FramesAppend
<1>12. Cut' = Cut /\ Unwritten' = Unwritten
  BY <1>2 DEF Cut, Unwritten, connClosed
<1> DEFINE disc == state["out"] = "disconnected"
           ob == Frames(outbound)
           e == Expected
<1> HIDE DEF f, disc, ob, e
<1>13. FlowOf(stream, Cut, Unwritten, disc, ob \o f, e \o f)
  <2>1. FlowOf(stream, Cut, Unwritten, disc, ob, e)
    BY <1>6 DEF Flow, disc, ob, e
  <2>2. f \in Bytes
    BY <1>5 DEF f
  <2> QED BY <1>3, <2>1, <2>2, FlowSend
<1>14. FlowOf(stream', Cut', Unwritten', state'["out"] = "disconnected", Frames(outbound'), Expected')
  BY <1>2, <1>10, <1>11, <1>12, <1>13 DEF disc, ob, e, f
<1> QED BY <1>9, <1>14 DEF Flow

(* The consumer takes a header, a body, or passes its message on. *)
LEMMA ReadHeaderStream ==
    ASSUME TypeInv, StreamInv, readHeader
    PROVE  StreamInv'
<1> DEFINE m == sent[passed + 1]
           after == Frames(From(sent, passed + 2))
<1>1. /\ At("inHeader") /\ Len(stream) >= 6
      /\ consumer' = [pc |-> IF Minus2(Uint32(stream)) > 0 THEN "body" ELSE "filter",
                      dataLength |-> Minus2(Uint32(stream)),
                      msgCode |-> Uint16(SubSeq(stream, 5, 6)), data |-> <<>>]
      /\ stream' = SubSeq(stream, 6 + 1, Len(stream))
      /\ UNCHANGED <<outbound, sender, broken, state, group, sent, passed>>
  BY DEF readHeader, Take, outVars, history
<1>2. /\ passed < Len(sent) /\ m \in Message
      /\ Minus2(Uint32(stream)) = Len(m.data) /\ Uint16(SubSeq(stream, 5, 6)) = m.code
      /\ FlowOf(SubSeq(stream, 6 + 1, Len(stream)), Cut, Unwritten,
                state["out"] = "disconnected", Frames(outbound), m.data \o after)
  BY <1>1, HeaderRead
<1>3. consumer' = [pc |-> IF Len(m.data) > 0 THEN "body" ELSE "filter",
                   dataLength |-> Len(m.data), msgCode |-> m.code, data |-> <<>>]
  BY <1>1, <1>2
<1>4. Cut' = Cut /\ Unwritten' = Unwritten
  BY <1>1 DEF Cut, Unwritten, connClosed
<1>5. FlowNow(m.data \o after)
  BY <1>1, <1>2, <1>4 DEF FlowNow
<1>6. after \in Bytes /\ m.data \in Bytes /\ Len(m.data) \in Nat
      /\ m = [code |-> m.code, data |-> m.data]
  <2>1. passed + 2 \in Nat \ {0} /\ sent \in Seq(Message)
    BY SMT DEF TypeInv
  <2>2. after \in Bytes
    BY <2>1, FromType
  <2> HIDE DEF m
  <2>3. m.data \in Bytes /\ Len(m.data) \in Nat /\ m = [code |-> m.code, data |-> m.data]
    BY <1>2, MessageType, SMT
  <2> QED BY <2>2, <2>3
<1>7. sent'[passed' + 1] = m /\ Frames(From(sent', passed' + 2)) = after /\ passed' < Len(sent')
  BY <1>1, <1>2
<1> HIDE DEF m, after
<1>8. CASE Len(m.data) > 0
  <2>1. consumer'.pc = "body" /\ consumer'.dataLength = Len(m.data) /\ consumer'.msgCode = m.code
    BY <1>3, <1>8
  <2>2. Expected' = m.data \o after
    BY <1>7, <2>1 DEF Expected, Reading
  <2>3. Holding'
    BY <1>7, <2>1 DEF Holding, Reading, Whole
  <2> QED BY <1>5, <2>2, <2>3 DEF StreamInv, Flow, FlowNow
<1>9. CASE ~(Len(m.data) > 0)
  <2>1. consumer'.pc = "filter" /\ consumer'.data = <<>> /\ consumer'.msgCode = m.code
    BY <1>3, <1>9
  <2>2. m.data = <<>>
    BY <1>6, <1>9, EmptySeq, SMT DEF Bytes
  <2>3. Current' = m
    BY <1>6, <2>1, <2>2 DEF Current
  <2>4. Expected' = after
    BY <1>7, <2>1 DEF Expected, Reading, Whole
  <2>5. Holding'
    BY <1>7, <2>1, <2>3 DEF Holding, Reading, Whole
  <2>6. m.data \o after = after
    BY <1>6, <2>2, CatEmpty
  <2> QED BY <1>5, <2>4, <2>5, <2>6 DEF StreamInv, Flow, FlowNow
<1> QED BY <1>8, <1>9

LEMMA ReadBodyStream ==
    ASSUME TypeInv, StreamInv, readBody
    PROVE  StreamInv'
<1> DEFINE m == sent[passed + 1]
           after == Frames(From(sent, passed + 2))
<1>1. /\ At("inBody") /\ Len(stream) >= consumer.dataLength
      /\ consumer' = [consumer EXCEPT !.pc = "filter",
                                      !.data = SubSeq(stream, 1, consumer.dataLength)]
      /\ stream' = SubSeq(stream, consumer.dataLength + 1, Len(stream))
      /\ UNCHANGED <<outbound, sender, broken, state, group, sent, passed>>
  BY DEF readBody, Take, outVars, history
<1>2. /\ passed < Len(sent) /\ m \in Message /\ consumer.msgCode = m.code
      /\ SubSeq(stream, 1, consumer.dataLength) = m.data
      /\ FlowOf(SubSeq(stream, consumer.dataLength + 1, Len(stream)), Cut, Unwritten,
                state["out"] = "disconnected", Frames(outbound), after)
  BY <1>1, BodyRead
<1>3. Cut' = Cut /\ Unwritten' = Unwritten
  BY <1>1 DEF Cut, Unwritten, connClosed
<1>4. FlowNow(after)
  BY <1>1, <1>2, <1>3 DEF FlowNow
<1>5. sent'[passed' + 1] = m /\ Frames(From(sent', passed' + 2)) = after /\ passed' < Len(sent')
  BY <1>1, <1>2
<1>6. consumer'.pc = "filter" /\ consumer'.msgCode = consumer.msgCode
      /\ consumer'.data = SubSeq(stream, 1, consumer.dataLength)
  BY <1>1 DEF TypeInv
<1>7. m = [code |-> m.code, data |-> m.data]
  <2> HIDE DEF m
  <2> QED BY <1>2, MessageType, SMT
<1> HIDE DEF m, after
<1>8. Current' = m
  BY <1>2, <1>6, <1>7 DEF Current
<1>9. Expected' = after
  BY <1>5, <1>6 DEF Expected, Reading, Whole
<1>10. Holding'
  BY <1>5, <1>6, <1>8 DEF Holding, Reading, Whole
<1> QED BY <1>4, <1>9, <1>10 DEF StreamInv, Flow, FlowNow

LEMMA ConsumerStream ==
    ASSUME TypeInv, StreamInv,
           checkState \/ readFull \/ readFails \/ filterMessage \/ queueInboundMessage
    PROVE  StreamInv'
<1>1. /\ UNCHANGED <<stream, outbound, sender, broken, state, group, sent>>
      /\ consumer.pc \notin {"end", "panic"}
  <2>1. consumer.pc \in {"check", "header", "body", "inHeader", "inBody", "filter", "queue"}
    BY DEF checkState, readFull, readFails, filterMessage, queueInboundMessage, At
  <2>2. UNCHANGED <<stream, outbound, sender, broken, state, group, sent>>
    BY DEF checkState, readFull, readFails, filterMessage, queueInboundMessage, outVars, history
  <2> QED BY <2>1, <2>2
<1>2. Holding /\ Flow(Expected)
  BY <1>1 DEF StreamInv
<1>3. ASSUME NEW e, Flow(e) PROVE FlowNow(e)
  <2>1. Cut => Cut'
    BY <1>1 DEF Cut, connClosed
  <2> QED BY <1>1, <1>3, <2>1, SameFlow
<1>4. ASSUME Expected' = Expected, Holding' PROVE StreamInv'
  <2>1. FlowNow(Expected)
    BY <1>2, <1>3
  <2> QED BY <1>4, <2>1 DEF StreamInv, Flow, FlowNow
<1>5. CASE consumer'.pc \in {"end", "panic"}
  BY <1>5 DEF StreamInv
<1>6. CASE /\ consumer.pc \in {"check", "header", "body", "filter"} /\ passed' = passed
           /\ \E pc \in {"header", "inHeader", "inBody", "queue"} :
                 /\ consumer' = [consumer EXCEPT !.pc = pc]
                 /\ pc = "inBody" <=> consumer.pc = "body"
                 /\ pc = "queue" <=> consumer.pc = "filter"
  <2>1. PICK pc \in {"header", "inHeader", "inBody", "queue"} :
               /\ consumer' = [consumer EXCEPT !.pc = pc]
               /\ pc = "inBody" <=> consumer.pc = "body"
               /\ pc = "queue" <=> consumer.pc = "filter"
    BY <1>6
  <2>2. /\ consumer'.pc = pc /\ consumer'.msgCode = consumer.msgCode
        /\ consumer'.dataLength = consumer.dataLength /\ consumer'.data = consumer.data
    BY <2>1 DEF TypeInv
  <2>3. Reading' = Reading /\ Whole' = Whole
    BY <1>6, <2>1, <2>2, SMT DEF Reading, Whole
  <2>4. Current' = Current
    BY <2>2 DEF Current
  <2>5. Expected' = Expected
    BY <1>1, <1>6, <2>3 DEF Expected
  <2>6. Holding'
    BY <1>1, <1>2, <1>6, <2>2, <2>3, <2>4 DEF Holding
  <2> QED BY <1>4, <2>5, <2>6
<1>7. CASE consumer.pc \in {"filter", "queue"} /\ consumer' = Nothing("check") /\ passed' = passed + 1
  <2>1. Whole /\ ~Reading
    BY <1>7 DEF Whole, Reading
  <2>2. ~Whole' /\ ~Reading'
    BY <1>7 DEF Whole, Reading, Nothing
  <2>3. passed \in Nat
    BY SMT DEF TypeInv
  <2>4. passed' + 1 = passed + 2
    BY <1>7, <2>3, SMT
  <2>5. Expected' = Frames(From(sent', passed' + 1))
    BY <2>2 DEF Expected
  <2>6. Expected = Frames(From(sent, passed + 2))
    BY <2>1 DEF Expected
  <2>7. Expected' = Expected
    BY <1>1, <2>4, <2>5, <2>6
  <2>8. Holding'
    BY <2>2 DEF Holding
  <2> QED BY <1>4, <2>7, <2>8
<1>8. CASE checkState
  <2>1. /\ consumer.pc = "check" /\ passed' = passed
        /\ \/ consumer' = [consumer EXCEPT !.pc = "end"]
           \/ consumer' = [consumer EXCEPT !.pc = "header"]
    BY <1>8 DEF checkState, At, Go, history
  <2>2. CASE consumer' = [consumer EXCEPT !.pc = "end"]
    <3>1. consumer'.pc = "end"
      BY <2>2 DEF TypeInv
    <3> QED BY <1>5, <3>1
  <2>3. CASE consumer' = [consumer EXCEPT !.pc = "header"]
    BY <1>6, <2>1, <2>3
  <2> QED BY <2>1, <2>2, <2>3
<1>9. CASE readFull
  <2>1. /\ consumer.pc \in {"header", "body"} /\ passed' = passed
        /\ \/ consumer' = [consumer EXCEPT !.pc = "panic"]
           \/ consumer.pc = "header" /\ consumer' = [consumer EXCEPT !.pc = "inHeader"]
           \/ consumer.pc = "body" /\ consumer' = [consumer EXCEPT !.pc = "inBody"]
    BY <1>9 DEF readFull, At, Go, history
  <2>2. CASE consumer' = [consumer EXCEPT !.pc = "panic"]
    <3>1. consumer'.pc = "panic"
      BY <2>2 DEF TypeInv
    <3> QED BY <1>5, <3>1
  <2>3. CASE consumer.pc = "header" /\ consumer' = [consumer EXCEPT !.pc = "inHeader"]
    BY <1>6, <2>1, <2>3
  <2>4. CASE consumer.pc = "body" /\ consumer' = [consumer EXCEPT !.pc = "inBody"]
    BY <1>6, <2>1, <2>4
  <2> QED BY <2>1, <2>2, <2>3, <2>4
<1>10. CASE readFails
  <2>1. consumer'.pc = "end"
    BY <1>10 DEF readFails, Nothing
  <2> QED BY <1>5, <2>1
<1>11. CASE filterMessage
  <2>1. /\ consumer.pc = "filter"
        /\ \/ consumer' = Nothing("check") /\ passed' = passed + 1
           \/ consumer' = [consumer EXCEPT !.pc = "queue"] /\ passed' = passed
    BY <1>11 DEF filterMessage, At, Go
  <2>2. CASE consumer' = Nothing("check") /\ passed' = passed + 1
    BY <1>7, <2>1, <2>2
  <2>3. CASE consumer' = [consumer EXCEPT !.pc = "queue"] /\ passed' = passed
    BY <1>6, <2>1, <2>3
  <2> QED BY <2>1, <2>2, <2>3
<1>12. CASE queueInboundMessage
  BY <1>7, <1>12 DEF queueInboundMessage, At
<1> QED BY <1>8, <1>9, <1>10, <1>11, <1>12

(* Every step keeps the stream. *)
LEMMA StreamStep ==
    ASSUME TypeInv, StreamInv, [Next]_vars
    PROVE  StreamInv'
<1>1. ASSUME consumer.pc \notin {"end", "panic"} PROVE Flow(Expected)
  BY <1>1 DEF StreamInv
<1>2. CASE networkSender \/ SendData \/ SendDataFails \/ Break
  <2>1. UNCHANGED <<consumer, sent, passed>>
    BY <1>2 DEF networkSender, SendData, SendDataFails, Break, inVars, history
  <2>2. ASSUME consumer.pc \notin {"end", "panic"} PROVE FlowNow(Expected)
    <3>1. Flow(Expected) /\ ~Crashed
      BY <1>1, <2>2 DEF Crashed
    <3> QED BY <1>2, <3>1, SenderFlow, SendDataFlow, SendFailsFlow, BreakFlow
  <2> QED BY <2>1, <2>2, StreamKept
<1>3. CASE \/ handleMessage \/ handleVerified
           \/ \E s \in Side : Start(s) \/ Interrupt(s) \/ tearDown(s)
           \/ UNCHANGED vars
  <2>1. UNCHANGED <<consumer, sent, passed>>
    BY <1>3 DEF handleMessage, handleVerified, Start, Interrupt, tearDown, vars, inVars, history
  <2>2. ASSUME consumer.pc \notin {"end", "panic"} PROVE FlowNow(Expected)
    BY <1>1, <1>3, <2>2, OtherFlow
  <2> QED BY <2>1, <2>2, StreamKept
<1> QED BY <1>2, <1>3, SendStream, ReadHeaderStream, ReadBodyStream, ConsumerStream
        DEF Next, Sender, Consumer, Handler

(* Every step keeps what holds of the queue and the handler. *)
LEMMA QueueStep ==
    ASSUME TypeInv, StreamInv, QueueInv, [Next]_vars
    PROVE  QueueInv'
<1>0. /\ inbound \in Seq(Message) /\ delivered \in Seq(Message)
      /\ Len(inbound) \in Nat /\ Len(delivered) \in Nat
  BY LenProperties DEF TypeInv
<1>1. CASE queueInboundMessage
  <2>1. handler' = handler
    BY <1>1 DEF queueInboundMessage
  <2>2. CASE inbound' = Append(inbound, Current) /\ delivered' = Append(delivered, Current)
    <3> DEFINE c == Current
    <3>1. c \in Message
      <4>1. At("queue")
        BY <1>1 DEF queueInboundMessage
      <4>2. passed < Len(sent) /\ Current = sent[passed + 1]
        BY <4>1 DEF StreamInv, Holding, At, Whole
      <4> QED BY <4>2, LenProperties, SMT DEF TypeInv
    <3> HIDE DEF c
    <3>2. /\ Len(inbound') = Len(inbound) + 1 /\ inbound'[Len(inbound) + 1] = c
          /\ \A i \in 1 .. Len(inbound) : inbound'[i] = inbound[i]
          /\ Len(delivered') = Len(delivered) + 1 /\ delivered'[Len(delivered) + 1] = c
          /\ \A i \in 1 .. Len(delivered) : delivered'[i] = delivered[i]
      <4>1. inbound' = Append(inbound, c) /\ delivered' = Append(delivered, c)
        BY <2>2 DEF c
      <4> QED BY <1>0, <3>1, <4>1, AppendProperties, SMT
    <3>3. ASSUME NEW j \in 1 .. Len(delivered) PROVE j \in 1 .. Len(delivered') /\ delivered'[j] = delivered[j]
      BY <1>0, <3>2, SMT
    <3>4. ASSUME NEW i \in 1 .. Len(inbound') PROVE \E j \in 1 .. Len(delivered') : delivered'[j] = inbound'[i]
      <4>1. CASE i = Len(inbound) + 1
        <5>1. Len(delivered) + 1 \in 1 .. Len(delivered')
          BY <1>0, <3>2, SMT
        <5> QED BY <3>2, <4>1, <5>1
      <4>2. CASE i # Len(inbound) + 1
        <5>1. i \in 1 .. Len(inbound) /\ inbound'[i] = inbound[i]
          BY <1>0, <3>2, <4>2, SMT
        <5>2. PICK j \in 1 .. Len(delivered) : delivered[j] = inbound[i]
          BY <5>1 DEF QueueInv
        <5> QED BY <3>3, <5>1, <5>2
      <4> QED BY <4>1, <4>2
    <3>5. ASSUME handler' = "verified" PROVE \E j \in 1 .. Len(delivered') : Verify(delivered'[j])
      <4>1. PICK j \in 1 .. Len(delivered) : Verify(delivered[j])
        BY <2>1, <3>5 DEF QueueInv
      <4>2. j \in 1 .. Len(delivered') /\ delivered'[j] = delivered[j]
        BY <3>3
      <4> QED BY <4>1, <4>2
    <3> QED BY <3>4, <3>5 DEF QueueInv, Verify
  <2>3. CASE UNCHANGED <<inbound, delivered>>
    BY <2>1, <2>3 DEF QueueInv, Verify
  <2> QED BY <1>1, <2>2, <2>3 DEF queueInboundMessage
<1>2. CASE handleMessage
  <2>1. delivered' = delivered
    BY <1>2 DEF handleMessage, history
  <2>2. CASE inbound # <<>> /\ inbound' = Tail(inbound)
    <3>1. /\ 1 \in 1 .. Len(inbound) /\ inbound[1] = Head(inbound) /\ Len(inbound') = Len(inbound) - 1
          /\ \A i \in 1 .. Len(inbound) - 1 : inbound'[i] = inbound[i + 1]
      BY <1>0, <2>2, SMT
    <3>2. ASSUME NEW i \in 1 .. Len(inbound') PROVE \E j \in 1 .. Len(delivered') : delivered'[j] = inbound'[i]
      <4>1. i + 1 \in 1 .. Len(inbound) /\ inbound'[i] = inbound[i + 1]
        BY <1>0, <3>1, SMT
      <4>2. \E j \in 1 .. Len(delivered) : delivered[j] = inbound[i + 1]
        BY <4>1 DEF QueueInv
      <4> QED BY <2>1, <4>1, <4>2
    <3>3. ASSUME handler' = "verified" PROVE \E j \in 1 .. Len(delivered') : Verify(delivered'[j])
      <4>1. Head(inbound).code = MsgVERIFY
        <5>1. handler = "take" /\ handler' # "take" /\ "verified" # "end"
          BY <1>2, <3>3 DEF handleMessage
        <5>2. inbound # <<>>
          BY <2>2
        <5> QED BY <1>2, <5>1, <5>2 DEF handleMessage
      <4>2. Verify(inbound[1])
        BY <3>1, <4>1 DEF Verify
      <4>3. PICK j \in 1 .. Len(delivered) : delivered[j] = inbound[1]
        BY <3>1 DEF QueueInv
      <4> QED BY <2>1, <4>2, <4>3
    <3> QED BY <3>2, <3>3 DEF QueueInv, Verify
  <2>3. CASE inbound' = inbound /\ handler' = "end"
    BY <2>1, <2>3 DEF QueueInv
  <2> QED BY <1>2, <2>2, <2>3 DEF handleMessage
<1>3. CASE inbound' = inbound /\ delivered' = delivered /\ (handler' = handler \/ handler' = "take")
  <2>1. handler' = "verified" => handler = "verified"
    BY <1>3
  <2> QED BY <1>3, <2>1 DEF QueueInv, Verify
<1>4. CASE handleVerified
  BY <1>3, <1>4 DEF handleVerified, history
<1>5. CASE sendMessage \/ Break \/ Sender
  BY <1>3, <1>5 DEF sendMessage, Break, Sender, networkSender, SendData, SendDataFails, inVars, history
<1>6. CASE checkState \/ readFull \/ readHeader \/ readBody \/ readFails \/ filterMessage
  BY <1>3, <1>6 DEF checkState, readFull, readHeader, readBody, readFails, filterMessage, history
<1>7. CASE \E s \in Side : Start(s) \/ Interrupt(s) \/ tearDown(s)
  BY <1>3, <1>7 DEF Start, Interrupt, tearDown, inVars, history
<1>8. CASE UNCHANGED vars
  BY <1>3, <1>8 DEF vars, inVars, history
<1> QED BY <1>1, <1>2, <1>4, <1>5, <1>6, <1>7, <1>8 DEF Next, Consumer, Handler

(* Every step keeps what holds of the groups. *)
LEMMA DownStep ==
    ASSUME TypeInv, DownInv, [Next]_vars
    PROVE  DownInv'
<1> DEFINE Up == \E s \in Side : group[s] > 0
<1>0. /\ group \in [Side -> 0 .. TornDown]
      /\ state \in [Side -> {"handshake", "connected", "disconnected"}]
      /\ "in" \in Side /\ "out" \in Side
  BY DEF TypeInv, Side
<1>1. ASSUME \A s \in Side : group[s] > 0 => group'[s] > 0,
             \A s \in Side : state'[s] = "disconnected" => state[s] = "disconnected" \/ group'[s] > 0,
             broken => broken',
             sender'.pc = "end" => sender.pc = "end" \/ broken' \/ Up',
             consumer'.pc = "end" => consumer.pc = "end" \/ broken' \/ Up',
             consumer'.pc = "panic" => consumer.pc = "panic" \/ group'["in"] > 0,
             consumer'.pc = "queue" => Verify(Current') \/ state'["in"] = "connected" \/ group'["in"] > 0
      PROVE  DownInv'
  <2>1. \A s \in Side : state'[s] = "disconnected" => group'[s] > 0
    BY <1>1 DEF DownInv
  <2>2. Up => Up'
    BY <1>1
  <2>3. sender'.pc = "end" => broken' \/ Up'
    BY <1>1, <2>2 DEF DownInv
  <2>4. consumer'.pc = "end" => broken' \/ Up'
    BY <1>1, <2>2 DEF DownInv
  <2>5. consumer'.pc = "panic" => group'["in"] > 0
    BY <1>0, <1>1 DEF DownInv, Crashed
  <2> QED BY <1>1, <2>1, <2>3, <2>4, <2>5 DEF DownInv, Crashed, Verify, Current
<1>2. ASSUME UNCHANGED <<group, state, broken>>,
             sender'.pc = "end" => sender.pc = "end" \/ broken \/ Up,
             consumer'.pc = "end" => consumer.pc = "end" \/ broken \/ Up,
             consumer'.pc = "panic" => consumer.pc = "panic" \/ group["in"] > 0,
             consumer'.pc = "queue" => Verify(Current') \/ state["in"] = "connected" \/ group["in"] > 0
      PROVE  DownInv'
  BY <1>1, <1>2
<1>3. ASSUME UNCHANGED consumer, state'["in"] = state["in"] \/ state'["in"] = "connected" \/ group'["in"] > 0,
             group["in"] > 0 => group'["in"] > 0
      PROVE  consumer'.pc = "queue" => Verify(Current') \/ state'["in"] = "connected" \/ group'["in"] > 0
  <2>1. Current' = Current
    BY <1>3 DEF Current
  <2> QED BY <1>3, <2>1 DEF DownInv
<1>4. ASSUME UNCHANGED <<group, state, broken, sender, consumer>> PROVE DownInv'
  <2>1. consumer'.pc = "queue" => Verify(Current') \/ state["in"] = "connected" \/ group["in"] > 0
    BY <1>3, <1>4
  <2> QED BY <1>2, <1>4, <2>1
<1>5. CASE sendMessage \/ handleMessage \/ UNCHANGED vars
  BY <1>4, <1>5 DEF sendMessage, handleMessage, vars, outVars, inVars
<1>6. CASE Break
  <2>1. UNCHANGED <<group, state, sender, consumer>> /\ broken'
    BY <1>6 DEF Break, outVars, inVars
  <2>2. consumer'.pc = "queue" => Verify(Current') \/ state'["in"] = "connected" \/ group'["in"] > 0
    BY <1>3, <2>1
  <2> QED BY <1>1, <2>1, <2>2
<1>7. CASE Sender
  <2>1. UNCHANGED <<group, state, broken, consumer>>
    BY <1>7 DEF Sender, networkSender, SendData, SendDataFails, inVars
  <2>2. consumer'.pc = "queue" => Verify(Current') \/ state["in"] = "connected" \/ group["in"] > 0
    BY <1>3, <2>1
  <2>3. sender'.pc = "end" => sender.pc = "end" \/ broken \/ Up
    <3>1. CASE networkSender
      <4>1. \/ sender' = sender
            \/ sender' = [pc |-> "write", frame |-> Frame(Head(outbound)), count |-> 0]
            \/ outboundClosed
        BY <3>1 DEF networkSender
      <4>2. outboundClosed => Up
        BY <1>0, SMT DEF outboundClosed
      <4> QED BY <4>1, <4>2, SMT
    <3>2. CASE SendData
      <4>1. sender.pc = "write"
        BY <3>2 DEF SendData
      <4>2. \E n : \/ sender' = [sender EXCEPT !.count = @ + n]
                   \/ sender' = [pc |-> "take", frame |-> <<>>, count |-> 0]
        BY <3>2 DEF SendData
      <4> QED BY <4>1, <4>2, SMT DEF TypeInv
    <3>3. CASE SendDataFails
      <4>1. connClosed("out") \/ broken \/ connClosed("in") \/ Crashed
        BY <3>3 DEF SendDataFails, CanWrite
      <4>2. connClosed("out") \/ connClosed("in") => Up
        BY <1>0, SMT DEF connClosed
      <4>3. Crashed => Up
        BY <1>0 DEF DownInv
      <4> QED BY <4>1, <4>2, <4>3
    <3> QED BY <1>7, <3>1, <3>2, <3>3 DEF Sender
  <2> QED BY <1>2, <2>1, <2>2, <2>3
<1>8. CASE Consumer
  <2>1. UNCHANGED <<group, state, broken, sender>>
    BY <1>8 DEF Consumer, checkState, readFull, readHeader, readBody, readFails, filterMessage,
       queueInboundMessage, outVars
  <2>2. ASSUME consumer'.pc \in {"check", "header", "inHeader", "body", "inBody", "filter"}
        PROVE  DownInv'
    BY <1>2, <2>1, <2>2
  <2>3. CASE checkState
    <3>1. CASE state["in"] = "disconnected"
      <4>1. consumer' = [consumer EXCEPT !.pc = "end"]
        BY <2>3, <3>1 DEF checkState, Go
      <4>2. consumer'.pc = "end"
        BY <4>1 DEF TypeInv
      <4>3. Up
        BY <1>0, <3>1 DEF DownInv
      <4> QED BY <1>2, <2>1, <4>2, <4>3
    <3>2. CASE state["in"] # "disconnected"
      <4>1. consumer' = [consumer EXCEPT !.pc = "header"]
        BY <2>3, <3>2 DEF checkState, Go
      <4>2. consumer'.pc = "header"
        BY <4>1 DEF TypeInv
      <4> QED BY <2>2, <4>2
    <3> QED BY <3>1, <3>2
  <2>4. CASE readFull
    <3>1. CASE readerGone("in")
      <4>1. consumer' = [consumer EXCEPT !.pc = "panic"]
        BY <2>4, <3>1 DEF readFull, Go
      <4>2. consumer'.pc = "panic"
        BY <4>1 DEF TypeInv
      <4>3. group["in"] > 0
        BY <1>0, <3>1, SMT DEF readerGone
      <4> QED BY <1>2, <2>1, <4>2, <4>3
    <3>2. CASE ~readerGone("in")
      <4>1. \E pc \in {"inHeader", "inBody"} : consumer' = [consumer EXCEPT !.pc = pc]
        BY <2>4, <3>2 DEF readFull, Go
      <4>2. consumer'.pc \in {"inHeader", "inBody"}
        BY <4>1 DEF TypeInv
      <4> QED BY <2>2, <4>2
    <3> QED BY <3>1, <3>2
  <2>5. CASE readHeader
    <3>1. consumer'.pc \in {"body", "filter"}
      BY <2>5 DEF readHeader
    <3> QED BY <2>2, <3>1
  <2>6. CASE readBody
    <3>1. consumer'.pc = "filter"
      BY <2>6 DEF readBody, TypeInv
    <3> QED BY <2>2, <3>1
  <2>7. CASE readFails
    <3>1. consumer'.pc = "end"
      BY <2>7 DEF readFails, Nothing
    <3>2. connClosed("in") \/ broken \/ connClosed("out")
      BY <2>7 DEF readFails
    <3>3. broken \/ Up
      BY <1>0, <3>2, SMT DEF connClosed
    <3> QED BY <1>2, <2>1, <3>1, <3>3
  <2>8. CASE filterMessage
    <3>1. CASE Filtered \/ state["in"] = "disconnected"
      <4>1. consumer'.pc = "check"
        BY <2>8, <3>1, SMT DEF filterMessage, Nothing
      <4> QED BY <2>2, <4>1
    <3>2. CASE ~(Filtered \/ state["in"] = "disconnected")
      <4>1. consumer' = [consumer EXCEPT !.pc = "queue"]
        BY <2>8, <3>2 DEF filterMessage, Go
      <4>2. /\ consumer'.pc = "queue" /\ consumer'.msgCode = consumer.msgCode
            /\ consumer'.data = consumer.data
        BY <4>1 DEF TypeInv
      <4>3. Current' = Current
        BY <4>2 DEF Current
      <4>4. state["in"] = "connected" \/ state["in"] = "handshake"
        BY <1>0, <3>2
      <4>5. Verify(Current) \/ state["in"] = "connected"
        BY <3>2, <4>4 DEF Filtered
      <4>6. Verify(Current') \/ state["in"] = "connected"
        BY <4>3, <4>5
      <4> QED BY <1>2, <2>1, <4>2, <4>6
    <3> QED BY <3>1, <3>2
  <2>9. CASE queueInboundMessage
    <3>1. consumer'.pc = "check"
      BY <2>9 DEF queueInboundMessage, Nothing
    <3> QED BY <2>2, <3>1
  <2> QED BY <1>8, <2>3, <2>4, <2>5, <2>6, <2>7, <2>8, <2>9 DEF Consumer
<1>9. CASE handleVerified
  <2>1. UNCHANGED <<group, broken, sender, consumer>> /\ state' = [state EXCEPT !["in"] = "connected"]
    BY <1>9 DEF handleVerified, outVars
  <2>2. state'["in"] = "connected" /\ state'["out"] = state["out"]
    BY <1>0, <2>1
  <2>3. consumer'.pc = "queue" => Verify(Current') \/ state'["in"] = "connected" \/ group'["in"] > 0
    BY <2>2
  <2>4. \A s \in Side : state'[s] = "disconnected" => state[s] = "disconnected"
    BY <2>2 DEF Side
  <2> QED BY <1>1, <2>1, <2>3, <2>4
<1>10. ASSUME NEW s \in Side, Start(s) \/ Interrupt(s) \/ tearDown(s) PROVE DownInv'
  <2>1. UNCHANGED <<broken, sender, consumer>>
    BY <1>10 DEF Start, Interrupt, tearDown, outVars, inVars
  <2>2. \A t \in Side : group[t] > 0 => group'[t] > 0
    BY <1>0, <1>10, SMT DEF Start, Interrupt, tearDown, TornDown
  <2>3. \A t \in Side : state'[t] = state[t] \/ group'[t] > 0
    BY <1>0, <1>10, SMT DEF Start, Interrupt, tearDown
  <2>4. consumer'.pc = "queue" => Verify(Current') \/ state'["in"] = "connected" \/ group'["in"] > 0
    <3>1. state'["in"] = state["in"] \/ group'["in"] > 0
      BY <1>0, <2>3
    <3>2. group["in"] > 0 => group'["in"] > 0
      BY <1>0, <2>2
    <3> QED BY <1>3, <2>1, <3>1, <3>2
  <2>5. \A t \in Side : state'[t] = "disconnected" => state[t] = "disconnected" \/ group'[t] > 0
    BY <2>3
  <2> QED BY <1>1, <2>1, <2>2, <2>4, <2>5
<1> QED BY <1>5, <1>6, <1>7, <1>8, <1>9, <1>10 DEF Next, Handler

LEMMA WireStep == WireInv /\ [Next]_vars => WireInv'
BY TypeStep, StreamStep, QueueStep, DownStep DEF WireInv

LEMMA WireInvariant == Spec => []WireInv
BY InitInv, WireStep, PTL DEF Spec

(* Wire keeps its types: in particular neither queue grows beyond          *)
(* CHAN_SIZE, no write goes beyond its frame, and the consumer is never    *)
(* done with more messages than were queued.                               *)
THEOREM WireTypesHold == Spec => []TypeOK
<1>1. WireInv => TypeOK
  <2> SUFFICES ASSUME WireInv PROVE TypeOK
    OBVIOUS
  <2>1. TypeInv
    BY DEF WireInv
  <2>2. sender.pc \in {"take", "write", "end"} /\ sender.count \in 0 .. Len(sender.frame)
    <3>1. /\ sender.pc \in {"take", "write", "end"} /\ sender.frame \in Bytes /\ sender.count \in Nat
          /\ Len(sender.frame) \in Nat
      BY <2>1, LenProperties DEF TypeInv, Bytes
    <3>2. sender.pc = "write" => sender.count < Len(sender.frame)
      BY <2>1 DEF TypeInv
    <3>3. sender.pc # "write" => sender.count = 0
      BY <2>1 DEF TypeInv
    <3> QED BY <3>1, <3>2, <3>3, SMT
  <2>3. consumer.pc \in ConsumerPC
    BY <2>1 DEF TypeInv
  <2> QED BY <2>1, <2>2, <2>3 DEF TypeInv, TypeOK, ConsumerPC
<1> QED BY <1>1, WireInvariant, PTL

(* No byte is lost, added or moved between the queue of the sending end    *)
(* and that of the receiving end, however conn.Write and ReadFull split    *)
(* the frames, as long as both ends are up and the network works.          *)
THEOREM NothingLostHolds == Spec => []NothingLost
<1>1. WireInv => NothingLost
  <2> SUFFICES ASSUME WireInv, ~broken, ~Crashed, \A s \in Side : group[s] = 0
               PROVE  Held \o stream \o Unwritten \o Frames(outbound)
                         = Frames(SubSeq(sent, passed + 1, Len(sent)))
    BY DEF NothingLost
  <2>0. TypeInv /\ StreamInv /\ DownInv
    BY DEF WireInv
  <2>1. ~(\E s \in Side : group[s] > 0) /\ "in" \in Side /\ "out" \in Side
    BY SMT DEF Side
  <2>2. consumer.pc # "end" /\ sender.pc # "end" /\ state["out"] # "disconnected"
    BY <2>0, <2>1 DEF DownInv
  <2>3. ~Cut
    BY <2>1, <2>2, SMT DEF Cut, connClosed
  <2>4. Holding /\ Flow(Expected)
    BY <2>0, <2>2 DEF StreamInv, Crashed
  <2> DEFINE u == Unwritten
             ob == Frames(outbound)
             e == Expected
             h == Held
             s == stream
  <2>5. s \in Bytes /\ u \in Bytes /\ ob \in Bytes
    <3>1. s \in Bytes /\ sender.frame \in Bytes /\ sender.count \in Nat /\ outbound \in Seq(Message)
      BY <2>0 DEF TypeInv
    <3>2. u \in Bytes
      BY <3>1, LenProperties, SMT DEF Unwritten, Bytes
    <3> QED BY <3>1, <3>2, FramesType
  <2>6. s \o (u \o ob) = e
    BY <2>2, <2>3, <2>4 DEF Flow, FlowOf
  <2> DEFINE m == sent[passed + 1]
             after == Frames(From(sent, passed + 2))
             todo == Frames(From(sent, passed + 1))
  <2>7. ASSUME Reading \/ Whole
        PROVE  m \in Message /\ after \in Bytes /\ todo = Frame(m) \o after
    <3>1. sent \in Seq(Message) /\ Len(sent) \in Nat /\ passed \in Nat /\ passed < Len(sent)
      BY <2>0, <2>4, <2>7, LenProperties, SMT DEF TypeInv, Holding
    <3>2. passed + 1 \in 1 .. Len(sent) /\ passed + 2 \in Nat \ {0} /\ (passed + 1) + 1 = passed + 2
      BY <3>1, SMT
    <3>3. m \in Message /\ after \in Bytes
      <4>1. m \in Message
        BY <3>1, <3>2, SMT
      <4>2. after \in Bytes
        BY <3>1, <3>2, FromType
      <4> QED BY <4>1, <4>2
    <3>4. todo = Frame(m) \o Frames(From(sent, (passed + 1) + 1))
      <4> DEFINE k == passed + 1
      <4>1. k \in 1 .. Len(sent)
        BY <3>2
      <4> HIDE DEF k
      <4>2. Frames(From(sent, k)) = Frame(sent[k]) \o Frames(From(sent, k + 1))
        BY <3>1, <4>1, FromCons
      <4> QED BY <4>2 DEF k
    <3> QED BY <3>2, <3>3, <3>4
  <2>8. h \in Bytes /\ h \o e = todo
    <3>1. CASE Reading
      <4>1. h = PutUint32(consumer.dataLength + 2) \o PutUint16(consumer.msgCode)
        BY <3>1 DEF Reading, Held
      <4>2. consumer.msgCode = m.code /\ consumer.dataLength = Len(m.data)
        BY <2>4, <3>1 DEF Holding
      <4>3. h = Header(m)
        BY <4>1, <4>2 DEF Header
      <4>4. e = m.data \o after
        BY <3>1 DEF Expected
      <4>5. m \in Message /\ after \in Bytes /\ todo = Frame(m) \o after
        BY <2>7, <3>1
      <4> HIDE DEF m, after, todo, e, h
      <4> DEFINE d == m.data
                 g == Header(m)
      <4>6. d \in Bytes /\ g \in Bytes /\ Frame(m) = g \o d
        BY <4>5, MessageType, HeaderBytes, FrameType, SMT
      <4> HIDE DEF d, g
      <4>7. (g \o d) \o after = g \o (d \o after)
        BY <4>5, <4>6, Assoc
      <4> QED BY <4>3, <4>4, <4>5, <4>6, <4>7 DEF d, g
    <3>2. CASE Whole
      <4>1. ~Reading
        BY <3>2 DEF Reading, Whole
      <4>2. h = Frame(m)
        BY <2>4, <3>2, <4>1 DEF Held, Reading, Whole, Holding
      <4>3. e = after
        BY <3>2, <4>1 DEF Expected
      <4>4. m \in Message /\ after \in Bytes /\ todo = Frame(m) \o after
        BY <2>7, <3>2
      <4> HIDE DEF m, after, todo, e, h
      <4>5. Frame(m) \in Bytes
        BY <4>4, FrameType
      <4> QED BY <4>2, <4>3, <4>4, <4>5
    <3>3. CASE ~Reading /\ ~Whole
      <4>1. h = <<>>
        BY <3>3 DEF Held, Reading, Whole
      <4>2. e = todo
        BY <3>3 DEF Expected
      <4>3. todo \in Bytes /\ <<>> \in Bytes
        BY <2>0, FromType, SMT DEF TypeInv, Bytes
      <4> HIDE DEF todo, e, h
      <4>4. <<>> \o todo = todo
        BY <4>3, CatEmpty
      <4> QED BY <4>1, <4>2, <4>3, <4>4
    <3> QED BY <3>1, <3>2, <3>3
  <2>9. todo = Frames(SubSeq(sent, passed + 1, Len(sent)))
    BY DEF From
  <2> HIDE DEF h, s, u, ob, e, todo
  <2>10. ((h \o s) \o u) \o ob = h \o (s \o (u \o ob))
    <3> DEFINE x == u \o ob
               y == h \o s
    <3>1. x \in Bytes /\ y \in Bytes
      BY <2>5, <2>8, CatType
    <3> HIDE DEF x, y
    <3>2. (y \o u) \o ob = y \o (u \o ob)
      BY <2>5, <3>1, Assoc, SMT
    <3>3. (h \o s) \o x = h \o (s \o x)
      <4>1. h \in Bytes
        BY <2>8
      <4> QED BY <2>5, <3>1, <4>1, Assoc
    <3> QED BY <3>2, <3>3 DEF x, y
  <2>11. ((h \o s) \o u) \o ob = todo
    BY <2>6, <2>8, <2>10
  <2> QED BY <2>9, <2>11 DEF h, s, u, ob
<1> QED BY <1>1, WireInvariant, PTL

-----------------------------------------------------------------------------
(* The refinement: Ready and Closing stand for a Channel's verified and    *)
(* closing.                                                                *)
LEMMA ChannelInit == Init => Chan!Init
<1> SUFFICES ASSUME Init PROVE Chan!Init
  OBVIOUS
<1>1. "in" \in Side
  BY DEF Side
<1>2. state["in"] = "handshake" /\ group["in"] = 0
  BY <1>1 DEF Init
<1>3. sent = <<>> /\ passed = 0 /\ delivered = <<>>
  BY DEF Init
<1> QED BY <1>2, <1>3, SMT DEF Chan!Init

Ready == state["in"] = "connected" /\ group["in"] = 0
Closing == group["in"] > 0

LEMMA ChannelStep ==
    ASSUME WireInv, WireInv', [Next]_vars
    PROVE  [Chan!Next]_(Chan!vars)
<1>0. TypeInv /\ StreamInv /\ DownInv /\ QueueInv
  BY DEF WireInv
<1>1. ASSUME UNCHANGED <<sent, passed, delivered>>, Ready' = Ready, Closing' = Closing
      PROVE  [Chan!Next]_(Chan!vars)
  BY <1>1 DEF Chan!vars, Ready, Closing
<1>2. ASSUME UNCHANGED <<state, group>> PROVE Ready' = Ready /\ Closing' = Closing
  BY <1>2 DEF Ready, Closing
<1>3. CASE sendMessage
  <2>1. UNCHANGED <<passed, delivered, state, group>> /\ \E m \in Message : sent' = Append(sent, m)
    BY <1>3 DEF sendMessage
  <2>2. Ready' = Ready /\ Closing' = Closing
    BY <1>2, <2>1
  <2>3. Chan!Send
    BY <2>1, <2>2 DEF Chan!Send, Ready, Closing
  <2> QED BY <2>3 DEF Chan!Next
<1>4. CASE \/ Break \/ Sender \/ handleMessage \/ UNCHANGED vars
           \/ checkState \/ readFull \/ readHeader \/ readBody \/ readFails
  <2>1. UNCHANGED <<sent, passed, delivered, state, group>>
    BY <1>4 DEF Break, Sender, networkSender, SendData, SendDataFails, handleMessage, vars,
       checkState, readFull, readHeader, readBody, readFails, history
  <2> QED BY <1>1, <1>2, <2>1
<1>5. CASE filterMessage
  <2>1. UNCHANGED <<sent, delivered, state, group>>
    BY <1>5 DEF filterMessage
  <2>2. Ready' = Ready /\ Closing' = Closing
    BY <1>2, <2>1
  <2>3. CASE Filtered \/ state["in"] = "disconnected"
    <3>1. At("filter") /\ passed' = passed + 1
      BY <1>5, <2>3 DEF filterMessage
    <3>2. passed < Len(sent) /\ Current = sent[passed']
      BY <1>0, <3>1 DEF StreamInv, Holding, At, Whole
    <3>3. CASE Filtered
      <4>1. ~Ready /\ ~Verify(sent[passed'])
        BY <3>2, <3>3 DEF Filtered, Ready
      <4>2. Chan!Drop
        BY <2>1, <2>2, <3>1, <3>2, <4>1 DEF Chan!Drop, Ready, Closing
      <4> QED BY <4>2 DEF Chan!Next
    <3>4. CASE state["in"] = "disconnected"
      <4>1. Closing
        BY <1>0, <3>4 DEF DownInv, Side, Closing
      <4>2. Chan!Drop
        BY <2>1, <2>2, <3>1, <3>2, <4>1 DEF Chan!Drop, Ready, Closing
      <4> QED BY <4>2 DEF Chan!Next
    <3> QED BY <2>3, <3>3, <3>4
  <2>4. CASE ~(Filtered \/ state["in"] = "disconnected")
    <3>1. passed' = passed
      BY <1>5, <2>4 DEF filterMessage
    <3> QED BY <1>1, <2>1, <2>2, <3>1
  <2> QED BY <2>3, <2>4
<1>6. CASE queueInboundMessage
  <2>1. At("queue") /\ passed' = passed + 1 /\ UNCHANGED <<sent, state, group>>
    BY <1>6 DEF queueInboundMessage
  <2>2. Ready' = Ready /\ Closing' = Closing
    BY <1>2, <2>1
  <2>3. passed < Len(sent) /\ Current = sent[passed']
    BY <1>0, <2>1 DEF StreamInv, Holding, At, Whole
  <2>4. CASE delivered' = Append(delivered, Current)
    <3>1. Verify(Current) \/ state["in"] = "connected" \/ group["in"] > 0
      BY <1>0, <2>1 DEF DownInv, At
    <3>2. group["in"] = 0 \/ group["in"] > 0
      BY <1>0, SMT DEF TypeInv, Side
    <3>3. Ready \/ Closing \/ Verify(sent[passed'])
      BY <2>3, <3>1, <3>2 DEF Ready, Closing
    <3>4. Chan!Deliver
      BY <2>1, <2>2, <2>3, <2>4, <3>3 DEF Chan!Deliver, Ready, Closing
    <3> QED BY <3>4 DEF Chan!Next
  <2>5. CASE doneClosed("in") /\ delivered' = delivered
    <3>1. Closing
      BY <1>0, <2>5, SMT DEF doneClosed, Closing, TypeInv, Side
    <3>2. Chan!Drop
      BY <2>1, <2>2, <2>3, <2>5, <3>1 DEF Chan!Drop, Ready, Closing
    <3> QED BY <3>2 DEF Chan!Next
  <2> QED BY <1>6, <2>4, <2>5 DEF queueInboundMessage
<1>7. CASE handleVerified
  <2>1. /\ handler = "verified" /\ UNCHANGED <<sent, passed, delivered, group>>
        /\ state' = [state EXCEPT !["in"] = "connected"]
    BY <1>7 DEF handleVerified, history
  <2>2. state'["in"] = "connected"
    BY <1>0, <2>1 DEF TypeInv, Side
  <2>3. Closing' = Closing
    BY <2>1 DEF Closing
  <2>4. CASE group["in"] = 0
    <3>1. Ready' /\ ~Closing
      BY <2>1, <2>2, <2>4, SMT DEF Ready, Closing
    <3>2. \E i \in 1 .. Len(delivered) : Verify(delivered[i])
      BY <1>0, <2>1 DEF QueueInv
    <3>3. Chan!Verified
      BY <2>1, <2>3, <3>1, <3>2 DEF Chan!Verified, Ready, Closing
    <3> QED BY <3>3 DEF Chan!Next
  <2>5. CASE group["in"] # 0
    <3>1. Ready' = Ready
      BY <2>1, <2>5 DEF Ready
    <3> QED BY <1>1, <2>1, <2>3, <3>1
  <2> QED BY <2>4, <2>5
<1>8. ASSUME NEW s \in Side, Start(s) \/ Interrupt(s) \/ tearDown(s) PROVE [Chan!Next]_(Chan!vars)
  <2>0. /\ group \in [Side -> 0 .. TornDown] /\ "in" \in Side
        /\ state \in [Side -> {"handshake", "connected", "disconnected"}]
    BY <1>0 DEF TypeInv, Side
  <2>1. UNCHANGED <<sent, passed, delivered>>
    BY <1>8 DEF Start, Interrupt, tearDown, history
  <2>2. CASE group["in"] > 0
    <3>1. group'["in"] > 0
      BY <1>8, <2>0, <2>2, SMT DEF Start, Interrupt, tearDown, TornDown
    <3>2. ~Ready /\ ~Ready' /\ Closing /\ Closing'
      BY <2>0, <2>2, <3>1, SMT DEF Ready, Closing
    <3> QED BY <1>1, <2>1, <3>2 DEF Ready, Closing
  <2>3. CASE group["in"] = 0 /\ s = "in"
    <3>1. Start(s)
      BY <1>8, <2>3, SMT DEF Interrupt, tearDown
    <3>2. group'["in"] = 1
      BY <2>0, <2>3, <3>1 DEF Start
    <3>3. Closing' /\ ~Ready'
      BY <3>2, SMT DEF Closing, Ready
    <3>4. Chan!Close
      BY <2>1, <3>3 DEF Chan!Close, Ready, Closing
    <3> QED BY <3>4 DEF Chan!Next
  <2>4. CASE group["in"] = 0 /\ s = "out"
    <3>1. group'["in"] = group["in"]
      BY <1>8, <2>0, <2>4 DEF Start, Interrupt, tearDown
    <3>2. state'["in"] = state["in"]
      BY <1>8, <2>0, <2>4 DEF Start, Interrupt, tearDown
    <3>3. Ready' = Ready /\ Closing' = Closing
      BY <3>1, <3>2 DEF Ready, Closing
    <3> QED BY <1>1, <2>1, <3>3
  <2> QED BY <2>0, <2>2, <2>3, <2>4, SMT DEF Side
<1> QED BY <1>3, <1>4, <1>5, <1>6, <1>7, <1>8 DEF Next, Consumer, Handler

(* One direction of a connection is a Channel to the handlers: the         *)
(* messages decoded from the stream are the ones that were queued, whole,  *)
(* in order and at most once; only an end that has not verified its peer,  *)
(* or goes down, drops one.                                                *)
THEOREM ImplementsChannel == Spec => ChannelSpec
<1>1. WireInv /\ WireInv' /\ [Next]_vars => [Chan!Next]_(Chan!vars)
  BY ChannelStep
<1> QED BY <1>1, ChannelInit, WireInvariant, PTL DEF Spec, ChannelSpec

=============================================================================
