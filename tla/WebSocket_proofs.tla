-------------------------- MODULE WebSocket_proofs --------------------------
(***************************************************************************)
(* Proofs about WebSocket: for any frames, payloads and keys, and any      *)
(* number of frames of a peer.                                             *)
(***************************************************************************)
EXTENDS WebSocket, SequenceTheorems, TLAPS

\* A peer that does not mask keeps to lengths of one byte: the parser ends a
\* longer frame of it too early.
BareShort == \A sh \in BareShapes : sh.wide = 0

AllShapes == Shapes \cup BareShapes

\* Payloads are shorter than 2^32: writev writes no header for a longer one.
PayloadsSmall == \A sh \in AllShapes : Shifts(Len(sh.data))[4] = 0

-----------------------------------------------------------------------------
(* Lengths.                                                                *)

\* The shifts of a number are what its definition says.
LEMMA ShiftsAre ==
    ASSUME NEW n \in Nat
    PROVE  /\ Shifts(n) \in [0 .. 8 -> Nat] /\ Shifts(n)[0] = n
           /\ \A k \in 1 .. 8 : Shifts(n)[k] = Shifts(n)[k - 1] \div 256
<1> DEFINE Good(e) == e = [k \in 0 .. 8 |-> IF k = 0 THEN n ELSE e[k - 1] \div 256]
           D(x) == x \div 256
<1>0. \A x \in Nat : D(x) \in Nat
  OBVIOUS
<1>1. Shifts(n) = CHOOSE e : Good(e)
  BY DEF Shifts
<1>2. \E e : Good(e)
  <2> DEFINE g == [k \in 0 .. 8 |->
                     IF k = 0 THEN n ELSE IF k = 1 THEN D(n) ELSE IF k = 2 THEN D(D(n))
                     ELSE IF k = 3 THEN D(D(D(n))) ELSE IF k = 4 THEN D(D(D(D(n))))
                     ELSE IF k = 5 THEN D(D(D(D(D(n))))) ELSE IF k = 6 THEN D(D(D(D(D(D(n))))))
                     ELSE IF k = 7 THEN D(D(D(D(D(D(D(n)))))))
                     ELSE D(D(D(D(D(D(D(D(n))))))))]
  <2> HIDE DEF D
  <2>1. /\ g[0] = n /\ g[1] = D(g[0]) /\ g[2] = D(g[1]) /\ g[3] = D(g[2]) /\ g[4] = D(g[3])
        /\ g[5] = D(g[4]) /\ g[6] = D(g[5]) /\ g[7] = D(g[6]) /\ g[8] = D(g[7])
    OBVIOUS
  <2>2. g = [k \in 0 .. 8 |-> g[k]]
    OBVIOUS
  <2> HIDE DEF g
  <2>3. \A k \in 0 .. 8 : k = 0 \/ k = 1 \/ k = 2 \/ k = 3 \/ k = 4 \/ k = 5 \/ k = 6 \/ k = 7 \/ k = 8
    OBVIOUS
  <2>4. \A k \in 0 .. 8 : g[k] = IF k = 0 THEN n ELSE D(g[k - 1])
    BY <2>1, <2>3
  <2>5. g = [k \in 0 .. 8 |-> IF k = 0 THEN n ELSE D(g[k - 1])]
    BY <2>2, <2>4
  <2>6. Good(g)
    BY <2>5 DEF D
  <2> QED  BY <2>6
<1> DEFINE s == Shifts(n)
<1>3. Good(s)
  BY <1>1, <1>2
<1> HIDE DEF s
<1>4. /\ s = [k \in 0 .. 8 |-> s[k]] /\ s[0] = n
      /\ \A k \in 1 .. 8 : s[k] = D(s[k - 1])
  BY <1>3
<1> HIDE DEF D, Good
<1>5. \A k \in 1 .. 8 : s[k - 1] \in Nat => s[k] \in Nat
  BY <1>0, <1>4
<1>6. s[1] \in Nat /\ s[2] \in Nat /\ s[3] \in Nat /\ s[4] \in Nat
  BY <1>4, <1>5
<1>7. s[5] \in Nat /\ s[6] \in Nat /\ s[7] \in Nat /\ s[8] \in Nat
  BY <1>5, <1>6
<1>8. \A k \in 0 .. 8 : k = 0 \/ k = 1 \/ k = 2 \/ k = 3 \/ k = 4 \/ k = 5 \/ k = 6 \/ k = 7 \/ k = 8
  OBVIOUS
<1>9. \A k \in 0 .. 8 : s[k] \in Nat
  BY <1>4, <1>6, <1>7, <1>8
<1> QED  BY <1>4, <1>9 DEF s, D

\* A shift and the byte it drops.
LEMMA ByteSplits ==
    ASSUME NEW n \in Nat
    PROVE  256 * (n \div 256) + (n % 256) = n /\ n % 256 \in Bytes
BY DEF Bytes

\* The byte of a place, and the shifts on both sides of it.
LEMMA PlaceIs ==
    ASSUME NEW n \in Nat, NEW w \in {2, 8}, NEW i \in 1 .. w
    PROVE  /\ BigEndian(n, w)[i] \in Bytes
           /\ Wider(Shifts(n)[w - i + 1], BigEndian(n, w)[i]) = Shifts(n)[w - i]
<1>1. w - i \in 0 .. 8 /\ w - i + 1 \in 1 .. 8 /\ (w - i + 1) - 1 = w - i
  OBVIOUS
<1> DEFINE m == Shifts(n)[w - i]
<1>2. m \in Nat /\ Shifts(n)[w - i + 1] = m \div 256 /\ BigEndian(n, w)[i] = m % 256
  BY <1>1, ShiftsAre DEF BigEndian
<1> HIDE DEF m
<1> QED  BY <1>2, ByteSplits DEF m, Wider

\* The same for every place at once.
LEMMA PlacesAre ==
    ASSUME NEW n \in Nat
    PROVE  LET s == Shifts(n) b == BigEndian(n, 2) c == BigEndian(n, 8)
           IN  /\ Wider(s[2], b[1]) = s[1] /\ Wider(s[1], b[2]) = s[0]
               /\ Wider(s[8], c[1]) = s[7] /\ Wider(s[7], c[2]) = s[6] /\ Wider(s[6], c[3]) = s[5]
               /\ Wider(s[5], c[4]) = s[4] /\ Wider(s[4], c[5]) = s[3] /\ Wider(s[3], c[6]) = s[2]
               /\ Wider(s[2], c[7]) = s[1] /\ Wider(s[1], c[8]) = s[0]
               /\ \A i \in 1 .. 2 : b[i] \in Bytes
               /\ \A i \in 1 .. 8 : c[i] \in Bytes
<1> DEFINE s == Shifts(n)
           b == BigEndian(n, 2)
           c == BigEndian(n, 8)
<1>1. \A i \in 1 .. 2 : b[i] \in Bytes /\ Wider(s[2 - i + 1], b[i]) = s[2 - i]
  BY PlaceIs
<1>2. \A i \in 1 .. 8 : c[i] \in Bytes /\ Wider(s[8 - i + 1], c[i]) = s[8 - i]
  BY PlaceIs
<1> HIDE DEF s, b, c
<1>3. Wider(s[2], b[1]) = s[1] /\ Wider(s[1], b[2]) = s[0]
  BY <1>1
<1>4. Wider(s[8], c[1]) = s[7] /\ Wider(s[7], c[2]) = s[6] /\ Wider(s[6], c[3]) = s[5]
  BY <1>2
<1>5. Wider(s[5], c[4]) = s[4] /\ Wider(s[4], c[5]) = s[3] /\ Wider(s[3], c[6]) = s[2]
  BY <1>2
<1>6. Wider(s[2], c[7]) = s[1] /\ Wider(s[1], c[8]) = s[0]
  BY <1>2
<1> QED  BY <1>1, <1>2, <1>3, <1>4, <1>5, <1>6 DEF s, b, c

\* The bytes of a length make a sequence.
LEMMA BigEndianSeq ==
    ASSUME NEW n \in Nat, NEW w \in {0, 2, 8}
    PROVE  /\ BigEndian(n, w) \in Seq(Bytes) /\ BigEndian(n, w) \in Seq(Int)
           /\ Len(BigEndian(n, w)) = w
<1>1. \A i \in 1 .. w : Shifts(n)[w - i] % 256 \in Bytes
  <2>0. w \in Nat /\ w <= 8
    OBVIOUS
  <2>1. \A i \in 1 .. w : w - i \in 0 .. 8
    BY <2>0
  <2>2. \A i \in 1 .. w : Shifts(n)[w - i] \in Nat
    <3>1. Shifts(n) \in [0 .. 8 -> Nat]
      BY ShiftsAre
    <3> QED  BY <2>1, <3>1
  <2> QED  BY <2>2, ByteSplits
<1>2. BigEndian(n, w) \in [1 .. w -> Bytes]
  BY <1>1 DEF BigEndian
<1>3. BigEndian(n, w) \in [1 .. w -> Int] /\ w \in Nat
  <2>1. Bytes \subseteq Int
    BY DEF Bytes
  <2>2. BigEndian(n, w) \in [1 .. w -> Int]
    BY <1>2, <2>1
  <2>3. w \in Nat
    OBVIOUS
  <2> QED  BY <2>2, <2>3
<1> QED  BY <1>2, <1>3, SeqDef, LenProperties

\* A header of two bytes and a length behind them
Headed(x, y, t, h) ==
    /\ h \in Seq(Int) /\ Len(h) = 2 + Len(t) /\ h[1] = x /\ h[2] = y
    /\ \A i \in 1 .. Len(t) : h[i + 2] = t[i]

\* That is what <<x, y>> \o t is.
LEMMA HeadWith ==
    ASSUME NEW x \in Int, NEW y \in Int, NEW t \in Seq(Int), NEW h, h = <<x, y>> \o t
    PROVE  Headed(x, y, t, h)
<1> DEFINE u == <<x, y>>
<1>1. u \in Seq(Int) /\ Len(u) = 2 /\ u[1] = x /\ u[2] = y /\ Len(t) \in Nat
  BY LenProperties
<1> HIDE DEF u
<1>2. /\ h \in Seq(Int) /\ Len(h) = 2 + Len(t)
      /\ \A i \in 1 .. 2 + Len(t) : h[i] = IF i <= 2 THEN u[i] ELSE t[i - 2]
  <2>1. h = u \o t
    BY DEF u
  <2> QED  BY <1>1, <2>1, ConcatProperties
<1>3. h[1] = x /\ h[2] = y
  BY <1>1, <1>2
<1>4. ASSUME NEW i \in 1 .. Len(t)  PROVE h[i + 2] = t[i]
  <2>1. i + 2 \in 1 .. 2 + Len(t) /\ ~(i + 2 <= 2) /\ (i + 2) - 2 = i
    BY <1>1
  <2> QED  BY <1>2, <2>1
<1> QED  BY <1>2, <1>3, <1>4 DEF Headed

\* The peer reads in payload_head the operation and the length that were
\* written.
LEMMA HeadIs ==
    ASSUME NEW op \in {1, Pong}, NEW n \in Nat
    PROVE  /\ PayloadHead(op, n) \in Seq(Int)
           /\ Shifts(n)[4] = 0 => HeadSays(PayloadHead(op, n), op, n)
<1>0. 128 + op \in Int /\ 126 \in Int /\ 127 \in Int
  BY DEF Pong
<1> DEFINE s == Shifts(n)
           b == BigEndian(n, 2)
           c == BigEndian(n, 8)
           h == PayloadHead(op, n)
<1>1. /\ s[0] = n /\ s[1] = n \div 256 /\ s[2] = s[1] \div 256 /\ s[1] \in Nat
      /\ \A k \in 1 .. 8 : s[k] = s[k - 1] \div 256
  BY ShiftsAre
<1>2. /\ b \in Seq(Int) /\ c \in Seq(Int) /\ Len(b) = 2 /\ Len(c) = 8
  <2>1. 2 \in {0, 2, 8} /\ 8 \in {0, 2, 8}
    OBVIOUS
  <2> QED  BY <2>1, BigEndianSeq, Zenon
<1>3. /\ Wider(s[2], b[1]) = s[1] /\ Wider(s[1], b[2]) = s[0]
      /\ Wider(s[8], c[1]) = s[7] /\ Wider(s[7], c[2]) = s[6] /\ Wider(s[6], c[3]) = s[5]
      /\ Wider(s[5], c[4]) = s[4] /\ Wider(s[4], c[5]) = s[3] /\ Wider(s[3], c[6]) = s[2]
      /\ Wider(s[2], c[7]) = s[1] /\ Wider(s[1], c[8]) = s[0]
      /\ b[1] \in Bytes /\ c[1] \in Bytes
  <2>1. 1 \in 1 .. 2 /\ 1 \in 1 .. 8
    OBVIOUS
  <2> QED  BY <2>1, PlacesAre, Zenon
<1> HIDE DEF s, b, c
<1>4. CASE n <= 125
  <2>1. h = <<128 + op, n>>
    BY <1>4 DEF PayloadHead
  <2> HIDE DEF h
  <2>2. h \in Seq(Int) /\ Len(h) = 2 /\ h[1] = 128 + op /\ h[2] = n
    <3> DEFINE x == 128 + op
    <3>1. x \in Int /\ n \in Int /\ h = <<x, n>>
      BY <1>0, <2>1
    <3> HIDE DEF x
    <3>2. h \in Seq(Int) /\ Len(h) = 2 /\ h[1] = x /\ h[2] = n
      BY <3>1
    <3> QED  BY <3>2 DEF x
  <2>3. HeadSays(h, op, n)
    BY <1>4, <2>2 DEF HeadSays
  <2> QED  BY <2>2, <2>3 DEF h
<1>5. CASE n > 125 /\ n <= 65535
  <2>1. h = <<128 + op, 126>> \o b
    BY <1>5 DEF PayloadHead, b
  <2> HIDE DEF h
  <2>2. /\ h \in Seq(Int) /\ Len(h) = 2 + Len(b) /\ h[1] = 128 + op /\ h[2] = 126
        /\ \A i \in 1 .. Len(b) : h[i + 2] = b[i]
    <3>1. Headed(128 + op, 126, b, h)
      BY <1>0, <1>2, <2>1, HeadWith, Zenon
    <3> QED  BY <3>1 DEF Headed
  <2>3. Len(h) = 4 /\ h[1 + 2] = b[1] /\ h[2 + 2] = b[2]
    BY <1>2, <2>2
  <2>4. s[2] = 0
    BY <1>1, <1>5
  <2>5. s[1] = b[1]
    BY <1>3, <2>4 DEF Wider, Bytes
  <2>6. n = Wider(h[3], h[4])
    BY <1>1, <1>3, <2>3, <2>5
  <2>7. HeadSays(h, op, n)
    BY <2>2, <2>3, <2>6 DEF HeadSays
  <2> QED  BY <2>2, <2>7 DEF h
<1>6. CASE n > 65535 /\ s[4] = 0
  <2>1. h = <<128 + op, 127>> \o c
    BY <1>6 DEF PayloadHead, c, s
  <2> HIDE DEF h
  <2>2. /\ h \in Seq(Int) /\ Len(h) = 2 + Len(c) /\ h[1] = 128 + op /\ h[2] = 127
        /\ \A i \in 1 .. Len(c) : h[i + 2] = c[i]
    <3>1. Headed(128 + op, 127, c, h)
      BY <1>0, <1>2, <2>1, HeadWith, Zenon
    <3> QED  BY <3>1 DEF Headed
  <2>3. /\ Len(h) = 10
        /\ h[1 + 2] = c[1] /\ h[2 + 2] = c[2] /\ h[3 + 2] = c[3] /\ h[4 + 2] = c[4]
        /\ h[5 + 2] = c[5] /\ h[6 + 2] = c[6] /\ h[7 + 2] = c[7] /\ h[8 + 2] = c[8]
    BY <1>2, <2>2
  <2>4. s[8] = 0
    <3>1. \A k \in 1 .. 8 : s[k - 1] = 0 => s[k] = 0
      BY <1>1
    <3>2. s[5] = 0 /\ s[6] = 0
      BY <1>6, <3>1
    <3> QED  BY <3>1, <3>2
  <2>5. s[7] = c[1]
    BY <1>3, <2>4 DEF Wider, Bytes
  <2>6. n = Wider(Wider(Wider(Wider(Wider(Wider(Wider(c[1], c[2]), c[3]), c[4]), c[5]),
                                         c[6]), c[7]), c[8])
    BY <1>1, <1>3, <2>5
  <2>7. HeadSays(h, op, n)
    <3>1. /\ h[3] = c[1] /\ h[4] = c[2] /\ h[5] = c[3] /\ h[6] = c[4]
          /\ h[7] = c[5] /\ h[8] = c[6] /\ h[9] = c[7] /\ h[10] = c[8]
      BY <2>3
    <3>2. n = Wider(Wider(Wider(Wider(Wider(Wider(Wider(h[3], h[4]), h[5]), h[6]), h[7]),
                                         h[8]), h[9]), h[10])
      BY <2>6, <3>1, Zenon
    <3>3. h[1] = 128 + op /\ h[2] = 127 /\ Len(h) = 10
      BY <2>2, <2>3
    <3> QED  BY <3>2, <3>3, Zenon DEF HeadSays
  <2> QED  BY <2>2, <2>7 DEF h
<1>7. CASE n > 65535 /\ s[4] # 0
  <2>1. h = <<>>
    BY <1>7 DEF PayloadHead, s
  <2>2. <<>> \in Seq(Int)
    BY EmptySeq
  <2> QED  BY <1>7, <2>1, <2>2 DEF s
<1> QED  BY <1>4, <1>5, <1>6, <1>7

-----------------------------------------------------------------------------
(* The bytes of a frame.                                                   *)

Header(sh)  == (IF sh.fin THEN 128 ELSE 0) + sh.op
Second(sh)  == (IF masks THEN 128 ELSE 0) + LengthByte(sh)
KeyAt(sh)   == 2 + sh.wide
DataAt(sh)  == KeyAt(sh) + (IF masks THEN 4 ELSE 0)
FrameLen(sh) == DataAt(sh) + Len(sh.data)

\* What is in which place
Placed(sh, key, f) ==
    /\ f \in Seq(Bytes) /\ Len(f) = FrameLen(sh) /\ f[1] = Header(sh) /\ f[2] = Second(sh)
    /\ \A i \in 1 .. sh.wide : f[2 + i] = BigEndian(Len(sh.data), sh.wide)[i]
    /\ masks => \A i \in 1 .. 4 : f[KeyAt(sh) + i] = key[i - 1]
    /\ \A i \in 1 .. Len(sh.data) :
         f[DataAt(sh) + i] = IF masks THEN ByteXor(sh.data[i], key[(i - 1) % 4]) ELSE sh.data[i]

\* u is t behind s
Joined(s, t, u) ==
    /\ u \in Seq(Bytes) /\ Len(u) = Len(s) + Len(t)
    /\ \A i \in 1 .. Len(s) : u[i] = s[i]
    /\ \A i \in 1 .. Len(t) : u[Len(s) + i] = t[i]

\* What s \o t is.
LEMMA JoinIs ==
    ASSUME NEW s \in Seq(Bytes), NEW t \in Seq(Bytes), NEW u, u = s \o t
    PROVE  Joined(s, t, u)
<1>1. Len(s) \in Nat /\ Len(t) \in Nat
  BY LenProperties
<1>2. /\ u \in Seq(Bytes) /\ Len(u) = Len(s) + Len(t)
      /\ \A i \in 1 .. Len(s) + Len(t) : u[i] = IF i <= Len(s) THEN s[i] ELSE t[i - Len(s)]
  BY ConcatProperties
<1>3. ASSUME NEW i \in 1 .. Len(s)  PROVE u[i] = s[i]
  <2>1. i \in 1 .. Len(s) + Len(t) /\ i <= Len(s)
    BY <1>1
  <2> QED  BY <1>2, <2>1
<1>4. ASSUME NEW i \in 1 .. Len(t)  PROVE u[Len(s) + i] = t[i]
  <2>1. Len(s) + i \in 1 .. Len(s) + Len(t) /\ ~(Len(s) + i <= Len(s)) /\ (Len(s) + i) - Len(s) = i
    BY <1>1
  <2> QED  BY <1>2, <2>1
<1> QED  BY <1>2, <1>3, <1>4 DEF Joined

\* What is known of the frames a peer may send.
LEMMA ShapeIs ==
    ASSUME NEW sh \in AllShapes
    PROVE  /\ sh.op \in 0 .. 15 /\ sh.fin \in BOOLEAN /\ sh.data \in Seq(Bytes)
           /\ sh.wide \in {0, 2, 8} /\ Len(sh.data) \in Nat
           /\ sh.wide = 0 => Len(sh.data) < 126
           /\ sh.wide # 0 => Shifts(Len(sh.data))[sh.wide] = 0
           /\ Header(sh) \in Bytes /\ Header(sh) % 16 = sh.op
           /\ sh.fin <=> Header(sh) \div 16 = 8
<1>1. /\ sh.op \in 0 .. 15 /\ sh.fin \in BOOLEAN /\ sh.data \in Seq(Bytes)
      /\ sh.wide \in {0, 2, 8} /\ Fits(sh)
  BY WebSocketAssumption DEF AllShapes
<1>2. Len(sh.data) \in Nat
  BY <1>1, LenProperties
<1>3. (sh.wide = 0 => Len(sh.data) < 126) /\ (sh.wide # 0 => Shifts(Len(sh.data))[sh.wide] = 0)
  BY <1>1 DEF Fits
<1>4. CASE sh.fin
  <2>1. Header(sh) = 128 + sh.op
    BY <1>4 DEF Header
  <2>2. Header(sh) \in Bytes /\ Header(sh) % 16 = sh.op /\ Header(sh) \div 16 = 8
    BY <1>1, <2>1 DEF Bytes
  <2> QED  BY <1>1, <1>2, <1>3, <1>4, <2>2, Zenon
<1>5. CASE ~sh.fin
  <2>1. Header(sh) = sh.op
    BY <1>1, <1>5 DEF Header
  <2>2. Header(sh) \in Bytes /\ Header(sh) % 16 = sh.op /\ ~(Header(sh) \div 16 = 8)
    BY <1>1, <2>1 DEF Bytes
  <2> QED  BY <1>1, <1>2, <1>3, <1>5, <2>2, Zenon
<1> QED  BY <1>1, <1>4, <1>5, Zenon

\* The second byte tells the form of the length and the mask.
LEMMA SecondIs ==
    ASSUME NEW sh \in AllShapes, masks \in BOOLEAN
    PROVE  /\ Second(sh) \in Bytes /\ (masks <=> Second(sh) >= 128)
           /\ Second(sh) % 128 = LengthByte(sh)
           /\ sh.wide = 0 => LengthByte(sh) = Len(sh.data)
           /\ sh.wide = 2 => LengthByte(sh) = 126
           /\ sh.wide = 8 => LengthByte(sh) = 127
<1>1. LengthByte(sh) \in 0 .. 127
  <2> DEFINE n == Len(sh.data)
  <2>1. n \in Nat /\ (sh.wide = 0 => n < 126)
    BY ShapeIs
  <2>2. LengthByte(sh) = IF sh.wide = 0 THEN n ELSE IF sh.wide = 2 THEN 126 ELSE 127
    BY DEF LengthByte
  <2> HIDE DEF n
  <2>3. CASE sh.wide = 0
    BY <2>1, <2>2, <2>3
  <2>4. CASE sh.wide # 0
    <3>1. LengthByte(sh) = 126 \/ LengthByte(sh) = 127
      BY <2>2, <2>4
    <3> QED  BY <3>1
  <2> QED  BY <2>3, <2>4
<1>2. CASE masks
  <2>1. Second(sh) = 128 + LengthByte(sh)
    BY <1>2 DEF Second
  <2>2. Second(sh) \in Bytes /\ Second(sh) >= 128 /\ Second(sh) % 128 = LengthByte(sh)
    BY <1>1, <2>1 DEF Bytes
  <2> QED  BY <1>2, <2>2 DEF LengthByte
<1>3. CASE ~masks
  <2>1. Second(sh) = 0 + LengthByte(sh)
    BY <1>3 DEF Second
  <2>2. Second(sh) \in Bytes /\ ~(Second(sh) >= 128) /\ Second(sh) % 128 = LengthByte(sh)
    BY <1>1, <2>1 DEF Bytes
  <2> QED  BY <1>3, <2>2 DEF LengthByte
<1> QED  BY <1>2, <1>3

\* The bytes of a frame are in their places.
LEMMA FrameIs ==
    ASSUME NEW sh \in AllShapes, NEW key \in Keys, masks \in BOOLEAN
    PROVE  Placed(sh, key, FrameBytes(sh, key))
<1> DEFINE n == Len(sh.data)
           A == <<Header(sh), Second(sh)>>
           B == BigEndian(n, sh.wide)
           C == IF masks THEN [i \in 1 .. 4 |-> key[i - 1]] ELSE <<>>
           D == [i \in 1 .. n |-> IF masks THEN ByteXor(sh.data[i], key[(i - 1) % 4]) ELSE sh.data[i]]
           k == IF masks THEN 4 ELSE 0
           u == A \o B
           v == u \o C
           f == v \o D
<1>0. key \in [0 .. 3 -> Bytes]
  BY WebSocketAssumption
<1>1. A \in Seq(Bytes) /\ Len(A) = 2 /\ A[1] = Header(sh) /\ A[2] = Second(sh)
  BY ShapeIs, SecondIs
<1>2. B \in Seq(Bytes) /\ Len(B) = sh.wide /\ n \in Nat /\ sh.wide \in Nat
  <2>1. n \in Nat /\ sh.wide \in {0, 2, 8}
    BY ShapeIs
  <2>2. B \in Seq(Bytes) /\ Len(B) = sh.wide
    BY <2>1, BigEndianSeq, Zenon
  <2> QED  BY <2>1, <2>2
<1>3. C \in Seq(Bytes) /\ Len(C) = k /\ (masks => \A i \in 1 .. 4 : C[i] = key[i - 1])
  <2>1. CASE masks
    <3>1. C = [i \in 1 .. 4 |-> key[i - 1]] /\ \A i \in 1 .. 4 : i - 1 \in 0 .. 3
      BY <2>1
    <3>2. C \in [1 .. 4 -> Bytes]
      BY <1>0, <3>1
    <3>3. C \in Seq(Bytes) /\ Len(C) = 4
      BY <3>2, SeqDef, LenProperties
    <3> QED  BY <2>1, <3>1, <3>3
  <2>2. CASE ~masks
    BY <2>2
  <2> QED  BY <2>1, <2>2
<1>4. /\ D \in Seq(Bytes) /\ Len(D) = n
      /\ \A i \in 1 .. n : D[i] = IF masks THEN ByteXor(sh.data[i], key[(i - 1) % 4]) ELSE sh.data[i]
  <2>1. ASSUME NEW i \in 1 .. n  PROVE sh.data[i] \in Bytes /\ key[(i - 1) % 4] \in Bytes
    <3>1. (i - 1) % 4 \in 0 .. 3
      BY <1>2
    <3> QED  BY <1>0, <3>1, ShapeIs, ElementOfSeq
  <2>2. \A i \in 1 .. n : (IF masks THEN ByteXor(sh.data[i], key[(i - 1) % 4]) ELSE sh.data[i]) \in Bytes
    BY <2>1, XorAssumption
  <2>3. D \in [1 .. n -> Bytes]
    BY <2>2
  <2>4. \A i \in 1 .. n : D[i] = IF masks THEN ByteXor(sh.data[i], key[(i - 1) % 4]) ELSE sh.data[i]
    OBVIOUS
  <2> HIDE DEF D, n
  <2>5. D \in Seq(Bytes) /\ Len(D) = n
    BY <1>2, <2>3, SeqDef, LenProperties
  <2> QED  BY <2>4, <2>5
<1>5. FrameBytes(sh, key) = f
  BY DEF FrameBytes, Header, Second
<1>6. k \in Nat /\ DataAt(sh) = 2 + sh.wide + k /\ KeyAt(sh) = 2 + sh.wide
  BY <1>2 DEF DataAt, KeyAt
<1> HIDE DEF A, B, C, D, k, n
<1>7. Joined(A, B, u)
  BY <1>1, <1>2, JoinIs
<1> HIDE DEF u
<1>8. Joined(u, C, v)
  <2>1. u \in Seq(Bytes) /\ C \in Seq(Bytes)
    BY <1>3, <1>7 DEF Joined
  <2> QED  BY <2>1, JoinIs, Zenon
<1> HIDE DEF v
<1>9. Joined(v, D, f)
  <2>1. v \in Seq(Bytes) /\ D \in Seq(Bytes)
    BY <1>4, <1>8 DEF Joined
  <2> QED  BY <2>1, JoinIs, Zenon
<1> HIDE DEF f
<1>10. /\ Len(u) = 2 + sh.wide /\ Len(v) = 2 + sh.wide + k /\ Len(f) = 2 + sh.wide + k + n
       /\ f \in Seq(Bytes)
  BY <1>1, <1>2, <1>3, <1>4, <1>6, <1>7, <1>8, <1>9 DEF Joined
<1>11. \A i \in 1 .. n : f[DataAt(sh) + i] = D[i]
  BY <1>4, <1>6, <1>9, <1>10 DEF Joined
<1>12. ASSUME masks, NEW i \in 1 .. 4  PROVE f[KeyAt(sh) + i] = key[i - 1]
  <2>1. k = 4 /\ KeyAt(sh) + i \in 1 .. Len(v) /\ KeyAt(sh) = Len(u)
    <3>1. k = 4
      BY <1>12 DEF k
    <3>2. Len(u) \in Nat /\ Len(v) = Len(u) + 4 /\ KeyAt(sh) = Len(u)
      BY <1>2, <1>6, <1>10, <3>1
    <3>3. Len(u) + i \in 1 .. Len(u) + 4
      BY <3>2
    <3> QED  BY <3>1, <3>2, <3>3
  <2>2. f[KeyAt(sh) + i] = v[KeyAt(sh) + i]
    BY <1>9, <2>1 DEF Joined
  <2>3. v[Len(u) + i] = C[i]
    BY <1>3, <1>8, <2>1 DEF Joined
  <2> QED  BY <1>3, <1>12, <2>1, <2>2, <2>3
<1>13. ASSUME NEW i \in 1 .. 2 + sh.wide  PROVE f[i] = u[i]
  <2>1. i \in 1 .. Len(v) /\ i \in 1 .. Len(u)
    BY <1>2, <1>6, <1>10
  <2> QED  BY <1>8, <1>9, <2>1 DEF Joined
<1>14. f[1] = Header(sh) /\ f[2] = Second(sh)
  <2>1. 1 \in 1 .. 2 + sh.wide /\ 2 \in 1 .. 2 + sh.wide /\ 1 \in 1 .. 2 /\ 2 \in 1 .. 2
    BY <1>2
  <2>2. u[1] = A[1] /\ u[2] = A[2]
    BY <1>1, <1>7, <2>1 DEF Joined
  <2> QED  BY <1>1, <1>13, <2>1, <2>2
<1>15. ASSUME NEW i \in 1 .. sh.wide  PROVE f[2 + i] = B[i]
  <2>1. 2 + i \in 1 .. 2 + sh.wide
    BY <1>2
  <2>2. u[2 + i] = B[i]
    BY <1>1, <1>2, <1>7 DEF Joined
  <2> QED  BY <1>13, <2>1, <2>2
<1>16. Len(f) = FrameLen(sh)
  BY <1>6, <1>10 DEF FrameLen, n
<1> QED  BY <1>4, <1>5, <1>10, <1>11, <1>12, <1>14, <1>15, <1>16 DEF Placed, B, n

-----------------------------------------------------------------------------
(* The invariant: where parser and peer are in the frame between them.     *)

PeerShapes == IF masks THEN Shapes ELSE BareShapes

KeyType == [0 .. 3 -> Bytes]
BufType == Seq(Bytes)

PType ==
    [step : {"start", "length", "short", "extended", "key", "data"}, header : Bytes,
     lenPos : 0 .. 7, length : Nat, masking : BOOLEAN, key : KeyType,
     pos : 0 .. 3, inkey : 0 .. 3, buf : BufType]

\* s is what is left of f behind its first n bytes
Rest(s, f, n) ==
    /\ s \in Seq(Bytes) /\ n \in Nat /\ Len(s) = Len(f) - n
    /\ \A i \in 1 .. Len(s) : s[i] = f[n + i]

\* Nothing of the payload has been read
Unread == p.header = Header(cur) /\ p.inkey = 0 /\ p.buf = <<>>

AtStart(n) == n = 0 /\ p.step = "start"

AtLength(n) ==
    /\ n = 1 /\ p.step = "length" /\ Unread
    /\ p.lenPos = 0 /\ p.length = 0 /\ p.pos = 0

AtLengthByte(n) ==
    /\ masks /\ p.masking /\ cur.wide # 0 /\ n \in 2 .. 1 + cur.wide
    /\ p.step = (IF cur.wide = 2 THEN "short" ELSE "extended") /\ Unread
    /\ p.lenPos = n - 2 /\ p.length = Shifts(Len(cur.data))[cur.wide - (n - 2)] /\ p.pos = 0

AtKey(n, key) ==
    /\ masks /\ n \in KeyAt(cur) .. KeyAt(cur) + 3 /\ p.step = "key" /\ Unread
    /\ p.length = Len(cur.data) /\ p.pos = n - KeyAt(cur)
    /\ \A j \in 0 .. 3 : j < p.pos => p.key[j] = key[j]

AtData(n, key) ==
    /\ n \in DataAt(cur) .. FrameLen(cur) - 1 /\ p.step = "data" /\ p.header = Header(cur)
    /\ p.length = Len(cur.data) /\ Len(p.buf) = n - DataAt(cur) /\ p.inkey = Len(p.buf) % 4
    /\ \A i \in 1 .. Len(p.buf) : p.buf[i] = cur.data[i]
    /\ masks => p.key = key

Phase(n, key) ==
    AtStart(n) \/ AtLength(n) \/ AtLengthByte(n) \/ AtKey(n, key) \/ AtData(n, key)

\* Parser and peer are at the same byte of the same frame
FrameInv ==
    /\ in = <<>> => p.step = "start"
    /\ in # <<>> =>
         /\ cur \in PeerShapes
         /\ \E key \in Keys, n \in Nat : Rest(in, FrameBytes(cur, key), n) /\ Phase(n, key)

ParserInv ==
    /\ p \in PType /\ in \in Seq(Bytes) /\ masks \in BOOLEAN
    /\ ~masks => \A j \in 0 .. 3 : p.key[j] = 0

EntryType == [frame : AllShapes, answer : {"none", "echo", "fail"}]
LogType   == [data : Seq(Bytes), state : {"finish", "continue", "start"}]
OutType   == [head : Seq(Int), data : Seq(Bytes)]

\* What has come of the frames received in full
HistoryInv ==
    /\ done \in Seq(EntryType)
    /\ log \in Seq(LogType)
    /\ out \in Seq(OutType)
    /\ closed \in BOOLEAN /\ (closed <=> \E i \in DOMAIN done : Ends(done[i]))
    /\ Delivered /\ (PayloadsSmall => RepliesRight) /\ ClosedOnce

WsInv == ParserInv /\ FrameInv /\ HistoryInv

-----------------------------------------------------------------------------
(* One byte.                                                               *)

\* Taking a byte of what is left.
LEMMA RestNext ==
    ASSUME NEW f \in Seq(Bytes), NEW s, NEW n, Rest(s, f, n), s # <<>>
    PROVE  /\ n \in Nat /\ n + 1 \in 1 .. Len(f) /\ Head(s) = f[n + 1] /\ Head(s) \in Bytes
           /\ Rest(Tail(s), f, n + 1)
           /\ Tail(s) = <<>> <=> n + 1 = Len(f)
<1>1. /\ s \in Seq(Bytes) /\ n \in Nat /\ Len(s) = Len(f) - n /\ Len(f) \in Nat /\ Len(s) \in Nat
      /\ \A i \in 1 .. Len(s) : s[i] = f[n + i]
  BY LenProperties DEF Rest
<1>2. /\ Len(s) # 0 /\ Tail(s) \in Seq(Bytes) /\ Len(Tail(s)) = Len(s) - 1
      /\ \A i \in 1 .. Len(Tail(s)) : Tail(s)[i] = s[i + 1]
  BY <1>1, EmptySeq, HeadTailProperties
<1>3. Head(s) = s[1] /\ s[1] \in Bytes
  <2>1. Head(s) = s[1]
    BY <1>1, <1>2
  <2> QED  BY <1>1, <1>2, <2>1, ElementOfSeq
<1>4. n + 1 \in 1 .. Len(f) /\ s[1] = f[n + 1]
  BY <1>1, <1>2
<1>5. ASSUME NEW i \in 1 .. Len(s) - 1  PROVE s[i + 1] = f[(n + 1) + i]
  <2>1. i + 1 \in 1 .. Len(s) /\ n + (i + 1) = (n + 1) + i
    BY <1>1
  <2> QED  BY <1>1, <2>1
<1>6. Rest(Tail(s), f, n + 1)
  <2>1. n + 1 \in Nat /\ Len(s) - 1 = Len(f) - (n + 1)
    BY <1>1
  <2> DEFINE t == Tail(s)
  <2>2. t \in Seq(Bytes) /\ Len(t) = Len(s) - 1 /\ \A i \in 1 .. Len(t) : t[i] = s[i + 1]
    BY <1>2
  <2> HIDE DEF t
  <2>3. \A i \in 1 .. Len(t) : t[i] = f[(n + 1) + i]
    BY <1>5, <2>2
  <2>4. Rest(t, f, n + 1)
    BY <2>1, <2>2, <2>3 DEF Rest
  <2> QED  BY <2>4 DEF t
<1>7. Tail(s) = <<>> <=> Len(Tail(s)) = 0
  BY <1>2, EmptySeq
<1>8. Len(Tail(s)) = 0 <=> n + 1 = Len(f)
  <2> DEFINE l == Len(Tail(s))
             m == Len(f)
  <2>1. l = (m - n) - 1 /\ m \in Nat /\ n \in Nat
    BY <1>1, <1>2
  <2> HIDE DEF l, m
  <2>2. l = 0 <=> n + 1 = m
    BY <2>1
  <2> QED  BY <2>2 DEF l, m
<1> QED  BY <1>1, <1>3, <1>4, <1>6, <1>7, <1>8, Zenon

\* The parser takes byte b, the byte behind the first n of a frame.
Here(n, key, b) ==
    /\ ParserInv /\ cur \in PeerShapes /\ key \in Keys /\ n \in Nat
    /\ n + 1 <= FrameLen(cur) /\ b \in Bytes /\ b = FrameBytes(cur, key)[n + 1]
    /\ cur' = cur /\ masks' = masks

Steps(b, answer) ==
    \/ StepStart(b) \/ StepLength(b, answer) \/ StepLengthByte(b)
    \/ StepKey(b, answer) \/ StepData(b, answer)

\* The keys of a peer that does not mask
NoKey(q) == ~masks => \A j \in 0 .. 3 : q.key[j] = 0

\* It stands behind the byte, or the frame is complete and ends
Onward(n, key) ==
    /\ n + 1 < FrameLen(cur) /\ UNCHANGED <<closed, shut, out, log>>
    /\ p' \in PType /\ NoKey(p') /\ Phase(n + 1, key)'

Ended(n, q, answer) ==
    /\ n + 1 = FrameLen(cur) /\ q \in PType /\ NoKey(q)
    /\ q.header = Header(cur) /\ q.buf = cur.data /\ EndMessage(q, answer)

Taken(n, key, answer) == Onward(n, key) \/ \E q \in PType : Ended(n, q, answer)

\* Where the frame's parts are.
LEMMA PlacesOf ==
    ASSUME masks \in BOOLEAN, cur \in PeerShapes, NEW key \in Keys
    PROVE  /\ cur \in AllShapes /\ cur.wide \in {0, 2, 8} /\ Len(cur.data) \in Nat
           /\ KeyAt(cur) \in Nat /\ KeyAt(cur) = 2 + cur.wide
           /\ DataAt(cur) = KeyAt(cur) + (IF masks THEN 4 ELSE 0)
           /\ FrameLen(cur) = DataAt(cur) + Len(cur.data)
           /\ DataAt(cur) \in Nat /\ FrameLen(cur) \in Nat
           /\ Placed(cur, key, FrameBytes(cur, key))
<1>1. cur \in AllShapes
  BY DEF PeerShapes, AllShapes
<1>2. cur.wide \in {0, 2, 8} /\ Len(cur.data) \in Nat
  BY <1>1, ShapeIs
<1>3. KeyAt(cur) \in Nat /\ KeyAt(cur) = 2 + cur.wide
  <2>1. cur.wide \in Nat
    BY <1>2
  <2> QED  BY <2>1 DEF KeyAt
<1>4. /\ DataAt(cur) = KeyAt(cur) + (IF masks THEN 4 ELSE 0)
      /\ FrameLen(cur) = DataAt(cur) + Len(cur.data)
  BY DEF DataAt, FrameLen
<1>5. DataAt(cur) \in Nat
  BY <1>3, <1>4
<1>6. FrameLen(cur) \in Nat
  BY <1>2, <1>4, <1>5
<1>7. Placed(cur, key, FrameBytes(cur, key))
  BY <1>1, FrameIs
<1> QED  BY <1>1, <1>2, <1>3, <1>4, <1>5, <1>6, <1>7

\* The first byte.
LEMMA FromStart ==
    ASSUME NEW n, NEW key, NEW b, NEW answer, Here(n, key, b), AtStart(n), Steps(b, answer)
    PROVE  Taken(n, key, answer)
<1>1. StepStart(b)
  BY DEF AtStart, Steps, StepStart, StepLength, StepLengthByte, StepKey, StepData
<1>2. /\ p \in PType /\ b \in Bytes /\ key \in Keys /\ NoKey(p)
      /\ n = 0 /\ cur' = cur /\ masks' = masks /\ masks \in BOOLEAN /\ cur \in PeerShapes
  BY DEF Here, ParserInv, AtStart, NoKey
<1>3. /\ p' = [p EXCEPT !.header = b, !.step = "length", !.inkey = 0, !.pos = 0,
                        !.lenPos = 0, !.length = 0, !.buf = <<>>]
      /\ UNCHANGED <<closed, shut, out, log>>
  BY <1>1 DEF StepStart, Goes
<1>4. /\ p' \in PType /\ p'.header = b /\ p'.step = "length" /\ p'.inkey = 0 /\ p'.pos = 0
      /\ p'.lenPos = 0 /\ p'.length = 0 /\ p'.buf = <<>> /\ p'.key = p.key
  <2>1. <<>> \in BufType
    BY DEF BufType
  <2>2. p' \in PType
    <3>1. p' = [step |-> "length", header |-> b, lenPos |-> 0, length |-> 0,
                masking |-> p.masking, key |-> p.key, pos |-> 0, inkey |-> 0, buf |-> <<>>]
      BY <1>2, <1>3 DEF PType
    <3> QED  BY <1>2, <2>1, <3>1 DEF PType
  <2>3. /\ p'.header = b /\ p'.step = "length" /\ p'.inkey = 0 /\ p'.pos = 0
        /\ p'.lenPos = 0 /\ p'.length = 0 /\ p'.buf = <<>> /\ p'.key = p.key
    BY <1>2, <1>3 DEF PType
  <2> QED  BY <2>2, <2>3
<1>5. b = Header(cur) /\ n + 1 < FrameLen(cur)
  <2>1. Placed(cur, key, FrameBytes(cur, key)) /\ FrameLen(cur) >= 2
    <3>1. KeyAt(cur) >= 2 /\ DataAt(cur) >= KeyAt(cur) /\ FrameLen(cur) >= DataAt(cur)
      <4>1. cur.wide \in Nat
        BY <1>2, PlacesOf
      <4>2. /\ KeyAt(cur) = 2 + cur.wide /\ DataAt(cur) = KeyAt(cur) + (IF masks THEN 4 ELSE 0)
            /\ FrameLen(cur) = DataAt(cur) + Len(cur.data) /\ Len(cur.data) \in Nat
        BY <1>2, PlacesOf
      <4>3. KeyAt(cur) >= 2 /\ KeyAt(cur) \in Nat
        BY <4>1, <4>2
      <4>4. DataAt(cur) >= KeyAt(cur) /\ DataAt(cur) \in Nat
        BY <4>2, <4>3
      <4> QED  BY <4>2, <4>3, <4>4
    <3> QED  BY <1>2, <3>1, PlacesOf
  <2>2. b = FrameBytes(cur, key)[1]
    BY <1>2 DEF Here
  <2> QED  BY <1>2, <2>1, <2>2 DEF Placed
<1>6. AtLength(n + 1)'
  <2>1. Header(cur)' = Header(cur)
    BY <1>2 DEF Header
  <2> QED  BY <1>2, <1>4, <1>5, <2>1 DEF AtLength, Unread
<1> QED  BY <1>2, <1>3, <1>4, <1>5, <1>6 DEF Taken, Onward, Phase, NoKey

\* The parser at its second byte, with the mask and a length.
LEMMA LengthGiven ==
    ASSUME NEW q \in PType, NEW v, NEW w, q.step = "length", q.lenPos = 0, q.length = 0,
           q.pos = 0, q.inkey = 0, q.buf = <<>>,
           NEW e, e = [[q EXCEPT !.masking = v] EXCEPT !.length = w]
    PROVE  e = [step |-> "length", header |-> q.header, lenPos |-> 0, length |-> w,
                masking |-> v, key |-> q.key, pos |-> 0, inkey |-> 0, buf |-> <<>>]
BY DEF PType

\* The second byte: the mask, and the length or the form it comes in.
LEMMA FromLength ==
    ASSUME BareShort, NEW n, NEW key, NEW b, NEW answer, Here(n, key, b), AtLength(n), Steps(b, answer)
    PROVE  Taken(n, key, answer)
<1>1. StepLength(b, answer)
  BY DEF AtLength, Steps, StepStart, StepLength, StepLengthByte, StepKey, StepData
<1>2. /\ p \in PType /\ b \in Bytes /\ key \in Keys /\ NoKey(p)
      /\ n = 1 /\ cur' = cur /\ masks' = masks /\ masks \in BOOLEAN /\ cur \in PeerShapes
  BY DEF Here, ParserInv, AtLength, NoKey
<1>3. /\ p.header = Header(cur) /\ p.inkey = 0 /\ p.buf = <<>> /\ p.lenPos = 0
      /\ p.length = 0 /\ p.pos = 0 /\ p.step = "length"
  BY DEF AtLength, Unread
<1>4. cur \in AllShapes /\ cur.wide \in {0, 2, 8} /\ Placed(cur, key, FrameBytes(cur, key))
  BY <1>2, PlacesOf
<1>5. b = Second(cur)
  <2>1. b = FrameBytes(cur, key)[2]
    BY <1>2 DEF Here
  <2> QED  BY <1>4, <2>1 DEF Placed
<1>6. /\ masks <=> b >= 128
      /\ b % 128 = LengthByte(cur)
      /\ cur.wide = 0 => LengthByte(cur) = Len(cur.data)
      /\ cur.wide = 2 => LengthByte(cur) = 126
      /\ cur.wide = 8 => LengthByte(cur) = 127
  BY <1>2, <1>4, <1>5, SecondIs
<1>7. p.key \in KeyType /\ p.header \in Bytes /\ <<>> \in BufType
  BY <1>2 DEF PType, BufType
<1>8. cur.wide # 0 => masks
  BY <1>2 DEF PeerShapes, BareShort
<1>9. Header(cur)' = Header(cur) /\ KeyAt(cur)' = KeyAt(cur) /\ DataAt(cur)' = DataAt(cur)
      /\ FrameLen(cur)' = FrameLen(cur)
  BY <1>2 DEF Header, KeyAt, DataAt, FrameLen
<1> DEFINE Q(st, l) == [step |-> st, header |-> p.header, lenPos |-> 0, length |-> l,
                        masking |-> b >= 128, key |-> p.key, pos |-> 0, inkey |-> 0,
                        buf |-> <<>>]
<1>10. ASSUME NEW st \in {"short", "extended", "key", "data"}, NEW l \in Nat
       PROVE  Q(st, l) \in PType
  BY <1>7 DEF PType
<1>11. CASE cur.wide # 0
  <2> DEFINE st == IF cur.wide = 2 THEN "short" ELSE "extended"
  <2>1. p' = Q(st, 0) /\ UNCHANGED <<closed, shut, out, log>>
    <3>1. b >= 128
      BY <1>6, <1>8, <1>11
    <3>2. CASE cur.wide = 2
      <4>1. b % 128 = 126
        BY <1>6, <3>2
      <4>2. Goes([[p EXCEPT !.masking = b >= 128] EXCEPT !.step = "short"])
        <5>1. [[p EXCEPT !.masking = b >= 128] EXCEPT !.step = "short"].masking
          BY <1>2, <3>1 DEF PType
        <5> QED  BY <1>1, <4>1, <5>1 DEF StepLength
      <4> QED  BY <1>2, <1>3, <3>2, <4>2 DEF PType, Goes
    <3>3. CASE cur.wide = 8
      <4>1. b % 128 = 127
        BY <1>6, <3>3
      <4>2. Goes([[p EXCEPT !.masking = b >= 128] EXCEPT !.step = "extended"])
        <5>1. [[p EXCEPT !.masking = b >= 128] EXCEPT !.step = "extended"].masking
          BY <1>2, <3>1 DEF PType
        <5> QED  BY <1>1, <4>1, <5>1 DEF StepLength
      <4>3. st = "extended"
        BY <3>3
      <4> HIDE DEF st
      <4> QED  BY <1>2, <1>3, <4>2, <4>3 DEF PType, Goes
    <3> QED  BY <1>4, <1>11, <3>2, <3>3
  <2>2. /\ p'.step = st /\ p'.header = Header(cur) /\ p'.lenPos = 0 /\ p'.length = 0
        /\ p'.pos = 0 /\ p'.inkey = 0 /\ p'.buf = <<>> /\ p'.key = p.key /\ p'.masking
    BY <1>3, <1>6, <1>8, <1>11, <2>1
  <2>3. p' \in PType
    <3>1. st \in {"short", "extended", "key", "data"} /\ 0 \in Nat
      OBVIOUS
    <3> QED  BY <1>10, <2>1, <3>1
  <2>4. n + 1 \in 2 .. 1 + cur.wide /\ n + 1 < FrameLen(cur) /\ (n + 1) - 2 = 0
    <3>1. cur.wide \in Nat /\ cur.wide >= 2
      BY <1>4, <1>11
    <3>2. FrameLen(cur) = ((2 + cur.wide) + (IF masks THEN 4 ELSE 0)) + Len(cur.data) /\ Len(cur.data) \in Nat
      BY <1>2, PlacesOf
    <3>3. FrameLen(cur) = ((2 + cur.wide) + 4) + Len(cur.data)
      BY <1>8, <1>11, <3>2
    <3> QED  BY <1>2, <3>1, <3>2, <3>3
  <2>5. Shifts(Len(cur.data))[cur.wide - ((n + 1) - 2)] = 0
    <3>1. cur.wide - ((n + 1) - 2) = cur.wide
      BY <1>4, <2>4
    <3> QED  BY <1>4, <1>11, <3>1, ShapeIs
  <2>6. AtLengthByte(n + 1)'
    BY <1>2, <1>8, <1>9, <1>11, <2>2, <2>4, <2>5 DEF AtLengthByte, Unread
  <2> QED  BY <1>2, <2>1, <2>2, <2>3, <2>4, <2>6 DEF Taken, Onward, Phase, NoKey
<1>12. CASE cur.wide = 0
  <2> DEFINE l == Len(cur.data)
             st == IF masks THEN "key" ELSE "data"
             q == Q(st, l)
  <2>1. b % 128 = l /\ l \in Nat /\ l < 126
    BY <1>4, <1>6, <1>12, ShapeIs
  <2>2. IF ~q.masking /\ q.length = 0 THEN EndMessage(q, answer) ELSE Goes(q)
    <3> HIDE DEF l
    <3> DEFINE a == AfterLength([[p EXCEPT !.masking = b >= 128] EXCEPT !.length = b % 128])
    <3>1. a = q
      <4> DEFINE e == [[p EXCEPT !.masking = b >= 128] EXCEPT !.length = b % 128]
      <4>1. e = Q("length", l)
        <5> DEFINE v == b >= 128
        <5>1. e = [[p EXCEPT !.masking = v] EXCEPT !.length = l]
          BY <2>1
        <5> HIDE DEF e, v
        <5>2. e = [step |-> "length", header |-> p.header, lenPos |-> 0, length |-> l,
                   masking |-> v, key |-> p.key, pos |-> 0, inkey |-> 0, buf |-> <<>>]
          BY <1>2, <1>3, <5>1, LengthGiven, Zenon
        <5> QED  BY <5>2 DEF v
      <4>2. e.masking <=> masks
        BY <1>6, <4>1
      <4> HIDE DEF e
      <4>3. a = [e EXCEPT !.step = IF e.masking THEN "key" ELSE "data"]
        BY DEF AfterLength, e
      <4>4. a = [e EXCEPT !.step = st]
        BY <4>2, <4>3
      <4> QED  BY <4>1, <4>4
    <3>2. b % 128 # 126 /\ b % 128 # 127
      BY <2>1
    <3>3. IF ~a.masking /\ a.length = 0 THEN EndMessage(a, answer) ELSE Goes(a)
      BY <1>1, <3>2 DEF StepLength
    <3> QED  BY <3>1, <3>3
  <2>3. /\ q.step = st /\ q.header = Header(cur) /\ q.lenPos = 0 /\ q.length = l
        /\ q.pos = 0 /\ q.inkey = 0 /\ q.buf = <<>> /\ q.key = p.key /\ (q.masking <=> masks)
    BY <1>3, <1>6
  <2>4. q \in PType
    <3>1. st \in {"short", "extended", "key", "data"}
      OBVIOUS
    <3> QED  BY <1>10, <2>1, <3>1
  <2>5. /\ KeyAt(cur) = 2 /\ DataAt(cur) = 2 + (IF masks THEN 4 ELSE 0)
        /\ FrameLen(cur) = DataAt(cur) + l
    BY <1>2, <1>12, PlacesOf
  <2>6. NoKey(q)
    BY <1>2, <2>3 DEF NoKey
  <2> HIDE DEF q, Q
  <2>7. CASE ~masks /\ l = 0
    <3>1. EndMessage(q, answer)
      BY <2>2, <2>3, <2>7
    <3>2. n + 1 = FrameLen(cur)
      BY <1>2, <2>5, <2>7
    <3>3. q.buf = cur.data
      <4>1. cur.data \in Seq(Bytes)
        BY <1>4, ShapeIs
      <4> QED  BY <2>3, <2>7, <4>1, EmptySeq
    <3> QED  BY <2>3, <2>4, <2>6, <3>1, <3>2, <3>3 DEF Taken, Ended
  <2>8. CASE masks
    <3>1. p' = q /\ UNCHANGED <<closed, shut, out, log>>
      BY <2>2, <2>3, <2>8 DEF Goes
    <3>2. n + 1 < FrameLen(cur) /\ n + 1 \in KeyAt(cur) .. KeyAt(cur) + 3 /\ (n + 1) - KeyAt(cur) = 0
      <4> HIDE DEF l
      <4>1. FrameLen(cur) = 6 + l
        BY <2>5, <2>8
      <4> QED  BY <1>2, <2>1, <2>5, <4>1
    <3>3. AtKey(n + 1, key)'
      <4>1. \A j \in 0 .. 3 : ~(j < 0)
        OBVIOUS
      <4>2. p'.step = "key"
        BY <2>3, <2>8, <3>1
      <4> QED  BY <1>2, <1>9, <2>3, <2>8, <3>1, <3>2, <4>1, <4>2 DEF AtKey, Unread
    <3>4. NoKey(p')
      BY <2>6, <3>1
    <3> QED  BY <2>4, <3>1, <3>2, <3>3, <3>4 DEF Taken, Onward, Phase
  <2>9. CASE ~masks /\ l # 0
    <3>1. p' = q /\ UNCHANGED <<closed, shut, out, log>>
      BY <2>2, <2>3, <2>9 DEF Goes
    <3>2. n + 1 < FrameLen(cur) /\ n + 1 \in DataAt(cur) .. FrameLen(cur) - 1 /\ (n + 1) - DataAt(cur) = 0
      <4> HIDE DEF l
      <4>1. DataAt(cur) = 2 /\ FrameLen(cur) = 2 + l
        BY <2>5, <2>9
      <4> QED  BY <1>2, <2>1, <2>9, <4>1
    <3>3. AtData(n + 1, key)'
      <4>1. Len(<<>>) = 0 /\ 0 % 4 = 0 /\ \A i \in 1 .. 0 : FALSE
        OBVIOUS
      <4>2. p'.step = "data" /\ p'.buf = <<>>
        BY <2>3, <2>9, <3>1
      <4>3. Len(p'.buf) = 0 /\ \A i \in 1 .. Len(p'.buf) : p'.buf[i] = cur.data[i]
        BY <4>1, <4>2
      <4> QED  BY <1>2, <1>9, <2>3, <2>9, <3>1, <3>2, <4>1, <4>2, <4>3 DEF AtData
    <3>4. NoKey(p')
      BY <2>6, <3>1
    <3> QED  BY <2>4, <3>1, <3>2, <3>3, <3>4 DEF Taken, Onward, Phase
  <2> QED  BY <1>2, <2>7, <2>8, <2>9
<1> QED  BY <1>11, <1>12

\* A byte of an extended length: the shift it makes is one byte shorter.
LEMMA LengthByteIs ==
    ASSUME NEW n, NEW key, NEW b, Here(n, key, b), AtLengthByte(n)
    PROVE  /\ Wider(p.length, b) = Shifts(Len(cur.data))[cur.wide - (n - 1)]
           /\ Wider(p.length, b) \in Nat
           /\ n = 1 + cur.wide => Wider(p.length, b) = Len(cur.data)
<1> DEFINE w == cur.wide
           L == Len(cur.data)
           i == n - 1
<1>1. /\ cur \in PeerShapes /\ masks \in BOOLEAN /\ key \in Keys
      /\ b = FrameBytes(cur, key)[n + 1]
  BY DEF Here, ParserInv
<1>2. /\ w \in {0, 2, 8} /\ L \in Nat /\ Placed(cur, key, FrameBytes(cur, key))
  BY <1>1, PlacesOf
<1>3. w # 0 /\ n \in 2 .. 1 + w /\ p.length = Shifts(L)[w - (n - 2)]
  BY DEF AtLengthByte
<1>4. \A j \in 1 .. w : FrameBytes(cur, key)[2 + j] = BigEndian(L, w)[j]
  BY <1>2 DEF Placed
<1> HIDE DEF w, L
<1>5. w \in {2, 8} /\ w \in Nat
  BY <1>2, <1>3
<1>6. i \in 1 .. w /\ 2 + i = n + 1 /\ (w - i) + 1 = w - (n - 2) /\ w - i \in 0 .. 8
  BY <1>3, <1>5
<1>7. b = BigEndian(L, w)[i]
  BY <1>1, <1>4, <1>6
<1>8. Wider(Shifts(L)[w - i + 1], BigEndian(L, w)[i]) = Shifts(L)[w - i]
  BY <1>2, <1>5, <1>6, PlaceIs
<1>9. Wider(p.length, b) = Shifts(L)[w - i]
  BY <1>3, <1>6, <1>7, <1>8
<1>10. Shifts(L) \in [0 .. 8 -> Nat] /\ Shifts(L)[0] = L
  BY <1>2, ShiftsAre
<1>11. Shifts(L)[w - i] \in Nat
  BY <1>6, <1>10
<1>12. n = 1 + w => w - i = 0
  BY <1>5
<1> QED  BY <1>9, <1>10, <1>11, <1>12 DEF w, L

\* The step over a byte of an extended length.
LEMMA FromLengthByte ==
    ASSUME NEW n, NEW key, NEW b, NEW answer, Here(n, key, b), AtLengthByte(n), Steps(b, answer)
    PROVE  Taken(n, key, answer)
<1>1. StepLengthByte(b)
  <2>1. p.step \in {"short", "extended"}
    BY DEF AtLengthByte
  <2> QED  BY <2>1 DEF Steps, StepStart, StepLength, StepLengthByte, StepKey, StepData
<1>2. /\ p \in PType /\ b \in Bytes /\ key \in Keys /\ n \in Nat /\ NoKey(p)
      /\ cur' = cur /\ masks' = masks /\ masks \in BOOLEAN /\ cur \in PeerShapes
  BY DEF Here, ParserInv, NoKey
<1>3. /\ masks /\ p.masking /\ cur.wide # 0 /\ n \in 2 .. 1 + cur.wide
      /\ p.step = (IF cur.wide = 2 THEN "short" ELSE "extended")
      /\ p.header = Header(cur) /\ p.inkey = 0 /\ p.buf = <<>>
      /\ p.lenPos = n - 2 /\ p.pos = 0
  BY DEF AtLengthByte, Unread
<1>4. cur.wide \in {2, 8} /\ KeyAt(cur) = 2 + cur.wide /\ Len(cur.data) \in Nat
      /\ FrameLen(cur) = (KeyAt(cur) + 4) + Len(cur.data)
  BY <1>2, <1>3, PlacesOf
<1>5. Header(cur)' = Header(cur) /\ KeyAt(cur)' = KeyAt(cur)
  BY <1>2 DEF Header, KeyAt
<1> DEFINE x == Wider(p.length, b)
           q == [p EXCEPT !.length = x]
<1>6. /\ x = Shifts(Len(cur.data))[cur.wide - (n - 1)] /\ x \in Nat
      /\ n = 1 + cur.wide => x = Len(cur.data)
  BY LengthByteIs
<1>7. IF p.lenPos = LengthBytes(p.step) - 1 THEN Goes(AfterLength(q))
      ELSE Goes([q EXCEPT !.lenPos = @ + 1])
  BY <1>1 DEF StepLengthByte
<1>8. LengthBytes(p.step) = cur.wide
  BY <1>3, <1>4 DEF LengthBytes
<1>9. n + 1 < FrameLen(cur) /\ cur.wide \in Nat
  <2>1. cur.wide \in Nat
    BY <1>4
  <2> QED  BY <1>2, <1>3, <1>4, <2>1
<1> HIDE DEF x
<1>10. /\ q \in PType /\ q.masking /\ q.step = p.step /\ q.header = p.header
       /\ q.lenPos = p.lenPos /\ q.length = x /\ q.key = p.key /\ q.pos = 0
       /\ q.inkey = 0 /\ q.buf = <<>>
  BY <1>2, <1>3, <1>6 DEF PType
<1> HIDE DEF q
<1>11. CASE n = 1 + cur.wide
  <2>1. Goes(AfterLength(q))
    <3>1. p.lenPos = cur.wide - 1
      BY <1>3, <1>9, <1>11
    <3> QED  BY <1>7, <1>8, <3>1
  <2>2. p' = [q EXCEPT !.step = "key"] /\ UNCHANGED <<closed, shut, out, log>>
    BY <1>10, <2>1 DEF Goes, AfterLength
  <2>3. /\ p' \in PType /\ p'.step = "key" /\ p'.header = q.header /\ p'.length = q.length
        /\ p'.key = q.key /\ p'.pos = q.pos /\ p'.inkey = q.inkey /\ p'.buf = q.buf
    BY <1>10, <2>2 DEF PType
  <2>4. n + 1 \in KeyAt(cur) .. KeyAt(cur) + 3 /\ (n + 1) - KeyAt(cur) = 0
    BY <1>4, <1>9, <1>11
  <2>5. AtKey(n + 1, key)'
    <3>1. \A j \in 0 .. 3 : ~(j < 0)
      OBVIOUS
    <3>2. p'.length = Len(cur.data) /\ p'.header = Header(cur) /\ p'.pos = 0 /\ p'.inkey = 0
          /\ p'.buf = <<>>
      BY <1>3, <1>6, <1>10, <1>11, <2>3
    <3> QED  BY <1>2, <1>3, <1>5, <2>3, <2>4, <3>1, <3>2 DEF AtKey, Unread
  <2>6. NoKey(p')
    BY <1>3 DEF NoKey
  <2> QED  BY <1>9, <2>2, <2>3, <2>5, <2>6 DEF Taken, Onward, Phase
<1>12. CASE n # 1 + cur.wide
  <2>1. Goes([q EXCEPT !.lenPos = @ + 1])
    <3>1. p.lenPos # cur.wide - 1
      BY <1>2, <1>3, <1>9, <1>12
    <3> QED  BY <1>7, <1>8, <3>1
  <2>2. p' = [q EXCEPT !.lenPos = n - 1] /\ UNCHANGED <<closed, shut, out, log>>
    <3>1. q.lenPos + 1 = n - 1
      BY <1>2, <1>3, <1>10
    <3>2. p' = [q EXCEPT !.lenPos = q.lenPos + 1]
      BY <2>1 DEF Goes
    <3> QED  BY <2>1, <3>1, <3>2 DEF Goes
  <2>3. n - 1 \in 0 .. 7 /\ n + 1 \in 2 .. 1 + cur.wide /\ (n + 1) - 2 = n - 1
    <3>1. cur.wide <= 8
      BY <1>4
    <3> QED  BY <1>2, <1>3, <1>9, <1>12, <3>1
  <2>4. /\ p' \in PType /\ p'.step = q.step /\ p'.header = q.header /\ p'.length = q.length
        /\ p'.lenPos = n - 1 /\ p'.masking = q.masking
        /\ p'.key = q.key /\ p'.pos = q.pos /\ p'.inkey = q.inkey /\ p'.buf = q.buf
    BY <1>10, <2>2, <2>3 DEF PType
  <2>5. AtLengthByte(n + 1)'
    <3>1. p'.step = (IF cur.wide = 2 THEN "short" ELSE "extended")
      BY <1>3, <1>10, <2>4
    <3>2. /\ p'.length = Shifts(Len(cur.data))[cur.wide - ((n + 1) - 2)] /\ p'.header = Header(cur)
          /\ p'.pos = 0 /\ p'.inkey = 0 /\ p'.buf = <<>> /\ p'.masking /\ p'.lenPos = (n + 1) - 2
      BY <1>3, <1>6, <1>10, <2>3, <2>4
    <3> QED  BY <1>2, <1>3, <1>5, <2>3, <3>1, <3>2 DEF AtLengthByte, Unread
  <2>6. NoKey(p')
    BY <1>3 DEF NoKey
  <2> QED  BY <1>9, <2>2, <2>4, <2>5, <2>6 DEF Taken, Onward, Phase
<1> QED  BY <1>11, <1>12

\* A byte of the key.
LEMMA FromKey ==
    ASSUME NEW n, NEW key, NEW b, NEW answer, Here(n, key, b), AtKey(n, key), Steps(b, answer)
    PROVE  Taken(n, key, answer)
<1>1. StepKey(b, answer)
  BY DEF AtKey, Steps, StepStart, StepLength, StepLengthByte, StepKey, StepData
<1>2. /\ p \in PType /\ b \in Bytes /\ key \in Keys /\ n \in Nat /\ key \in KeyType
      /\ cur' = cur /\ masks' = masks /\ masks \in BOOLEAN /\ cur \in PeerShapes
      /\ b = FrameBytes(cur, key)[n + 1]
  BY WebSocketAssumption DEF Here, ParserInv, KeyType
<1>3. /\ masks /\ n \in KeyAt(cur) .. KeyAt(cur) + 3
      /\ p.header = Header(cur) /\ p.inkey = 0 /\ p.buf = <<>>
      /\ p.length = Len(cur.data) /\ p.pos = n - KeyAt(cur)
      /\ \A j \in 0 .. 3 : j < p.pos => p.key[j] = key[j]
  BY DEF AtKey, Unread
<1>4. /\ KeyAt(cur) \in Nat /\ Len(cur.data) \in Nat /\ Placed(cur, key, FrameBytes(cur, key))
      /\ DataAt(cur) = KeyAt(cur) + 4 /\ FrameLen(cur) = DataAt(cur) + Len(cur.data)
  BY <1>2, <1>3, PlacesOf
<1>5. Header(cur)' = Header(cur) /\ KeyAt(cur)' = KeyAt(cur) /\ DataAt(cur)' = DataAt(cur)
      /\ FrameLen(cur)' = FrameLen(cur)
  BY <1>2 DEF Header, KeyAt, DataAt, FrameLen
<1> DEFINE i == p.pos
           q == [p EXCEPT !.key[i] = b]
<1>6. i \in 0 .. 3 /\ i = n - KeyAt(cur) /\ n = KeyAt(cur) + i
  BY <1>2, <1>3, <1>4
<1>7. b = key[i]
  <2>1. i + 1 \in 1 .. 4 /\ (i + 1) - 1 = i /\ KeyAt(cur) + (i + 1) = n + 1
    BY <1>2, <1>4, <1>6
  <2>2. FrameBytes(cur, key)[KeyAt(cur) + (i + 1)] = key[(i + 1) - 1]
    BY <1>3, <1>4, <2>1 DEF Placed
  <2> QED  BY <1>2, <2>1, <2>2
<1>8. IF i < 3 THEN Goes([q EXCEPT !.pos = @ + 1])
      ELSE IF p.length = 0 THEN EndMessage([q EXCEPT !.step = "data"], answer)
      ELSE Goes([q EXCEPT !.step = "data"])
  BY <1>1 DEF StepKey
<1>9. /\ q.key = [p.key EXCEPT ![i] = b] /\ q.step = p.step /\ q.header = p.header
      /\ q.lenPos = p.lenPos /\ q.length = p.length /\ q.masking = p.masking /\ q.pos = i
      /\ q.inkey = p.inkey /\ q.buf = p.buf
  BY <1>2 DEF PType
<1>10. p.key \in KeyType
  BY <1>2 DEF PType
<1>11. q.key \in KeyType /\ \A j \in 0 .. 3 : j < i + 1 => q.key[j] = key[j]
  <2>1. q.key \in KeyType
    BY <1>2, <1>6, <1>9, <1>10 DEF KeyType
  <2>2. ASSUME NEW j \in 0 .. 3, j < i + 1  PROVE q.key[j] = key[j]
    <3>1. j = i \/ (j < i /\ j # i)
      BY <1>6, <2>2
    <3>2. j = i => q.key[j] = b
      BY <1>6, <1>9, <1>10 DEF KeyType
    <3>3. j # i => q.key[j] = p.key[j]
      BY <1>6, <1>9, <1>10 DEF KeyType
    <3> QED  BY <1>3, <1>7, <3>1, <3>2, <3>3
  <2> QED  BY <2>1, <2>2
<1>12. q \in PType
  <2>1. q = [step |-> p.step, header |-> p.header, lenPos |-> p.lenPos, length |-> p.length,
             masking |-> p.masking, key |-> [p.key EXCEPT ![i] = b], pos |-> p.pos,
             inkey |-> p.inkey, buf |-> p.buf]
    BY <1>2 DEF PType
  <2>2. [p.key EXCEPT ![i] = b] \in KeyType
    BY <1>9, <1>11
  <2> HIDE DEF q
  <2> QED  BY <1>2, <2>1, <2>2 DEF PType
<1> HIDE DEF q
<1>13. CASE i < 3
  <2>1. p' = [q EXCEPT !.pos = i + 1] /\ UNCHANGED <<closed, shut, out, log>>
    <3>1. Goes([q EXCEPT !.pos = q.pos + 1])
      BY <1>8, <1>13
    <3> QED  BY <1>9, <3>1 DEF Goes
  <2>2. i + 1 \in 0 .. 3 /\ n + 1 \in KeyAt(cur) .. KeyAt(cur) + 3 /\ (n + 1) - KeyAt(cur) = i + 1
        /\ n + 1 < FrameLen(cur)
    BY <1>2, <1>4, <1>6, <1>13
  <2>3. /\ p' \in PType /\ p'.step = q.step /\ p'.header = q.header /\ p'.length = q.length
        /\ p'.key = q.key /\ p'.pos = i + 1 /\ p'.inkey = q.inkey /\ p'.buf = q.buf
    BY <1>12, <2>1, <2>2 DEF PType
  <2>4. AtKey(n + 1, key)'
    <3>1. /\ p'.step = "key" /\ p'.header = Header(cur) /\ p'.inkey = 0 /\ p'.buf = <<>>
          /\ p'.length = Len(cur.data) /\ p'.pos = (n + 1) - KeyAt(cur)
      BY <1>1, <1>3, <1>9, <2>2, <2>3 DEF StepKey
    <3>2. \A j \in 0 .. 3 : j < p'.pos => p'.key[j] = key[j]
      BY <1>11, <2>3
    <3> QED  BY <1>2, <1>3, <1>5, <2>2, <3>1, <3>2 DEF AtKey, Unread
  <2>5. NoKey(p')
    BY <1>3 DEF NoKey
  <2> QED  BY <2>1, <2>2, <2>3, <2>4, <2>5 DEF Taken, Onward, Phase
<1>14. CASE i = 3
  <2> DEFINE r == [q EXCEPT !.step = "data"]
  <2>1. IF p.length = 0 THEN EndMessage(r, answer) ELSE Goes(r)
    BY <1>8, <1>14
  <2>2. /\ r \in PType /\ r.step = "data" /\ r.header = q.header /\ r.length = q.length
        /\ r.key = q.key /\ r.inkey = q.inkey /\ r.buf = q.buf
    BY <1>12 DEF PType
  <2> HIDE DEF r
  <2>3. r.header = Header(cur) /\ r.buf = <<>> /\ r.inkey = 0 /\ r.length = Len(cur.data) /\ NoKey(r)
    BY <1>3, <1>9, <2>2 DEF NoKey
  <2>4. r.key = key
    <3>1. \A j \in 0 .. 3 : r.key[j] = key[j]
      BY <1>11, <1>14, <2>2
    <3> QED  BY <1>2, <1>11, <2>2, <3>1 DEF KeyType
  <2>5. n + 1 = DataAt(cur) /\ DataAt(cur) \in Nat
    BY <1>2, <1>4, <1>6, <1>14
  <2>6. CASE p.length = 0
    <3>1. r.buf = cur.data
      <4>1. cur.data \in Seq(Bytes) /\ Len(cur.data) = 0
        BY <1>2, <1>3, <2>6, PlacesOf, ShapeIs
      <4> QED  BY <2>3, <4>1, EmptySeq
    <3>2. n + 1 = FrameLen(cur)
      BY <1>3, <1>4, <2>5, <2>6
    <3> QED  BY <2>1, <2>2, <2>3, <2>6, <3>1, <3>2 DEF Taken, Ended
  <2>7. CASE p.length # 0
    <3>1. p' = r /\ UNCHANGED <<closed, shut, out, log>>
      BY <2>1, <2>7 DEF Goes
    <3>2. n + 1 < FrameLen(cur) /\ n + 1 \in DataAt(cur) .. FrameLen(cur) - 1 /\ (n + 1) - DataAt(cur) = 0
      BY <1>3, <1>4, <2>5, <2>7
    <3>3. AtData(n + 1, key)'
      <4>1. Len(<<>>) = 0 /\ 0 % 4 = 0 /\ \A j \in 1 .. 0 : FALSE
        OBVIOUS
      <4>2. Len(p'.buf) = 0 /\ \A j \in 1 .. Len(p'.buf) : p'.buf[j] = cur.data[j]
        BY <2>3, <3>1, <4>1
      <4>3. p'.step = "data" /\ p'.header = Header(cur) /\ p'.length = Len(cur.data)
            /\ p'.inkey = 0 /\ p'.key = key
        BY <2>2, <2>3, <2>4, <3>1
      <4> QED  BY <1>2, <1>5, <3>2, <4>1, <4>2, <4>3 DEF AtData
    <3>4. p' \in PType /\ NoKey(p')
      BY <2>2, <2>3, <3>1
    <3> QED  BY <3>1, <3>2, <3>3, <3>4 DEF Taken, Onward, Phase
  <2> QED  BY <2>6, <2>7
<1> QED  BY <1>6, <1>13, <1>14

\* A byte of the payload: the parser takes the mask off.
LEMMA DataByteIs ==
    ASSUME NEW n, NEW key, NEW b, Here(n, key, b), AtData(n, key)
    PROVE  /\ Len(p.buf) + 1 \in 1 .. Len(cur.data) /\ Len(p.buf) \in Nat
           /\ ByteXor(b, p.key[p.inkey]) = cur.data[Len(p.buf) + 1]
           /\ cur.data[Len(p.buf) + 1] \in Bytes
<1> DEFINE i == Len(p.buf)
           L == Len(cur.data)
           d == cur.data[i + 1]
<1>1. /\ p \in PType /\ b \in Bytes /\ key \in Keys /\ n \in Nat /\ key \in KeyType
      /\ masks \in BOOLEAN /\ cur \in PeerShapes /\ b = FrameBytes(cur, key)[n + 1]
      /\ ~masks => \A j \in 0 .. 3 : p.key[j] = 0
  BY WebSocketAssumption DEF Here, ParserInv, KeyType
<1>2. /\ n \in DataAt(cur) .. FrameLen(cur) - 1
      /\ i = n - DataAt(cur) /\ p.inkey = i % 4 /\ (masks => p.key = key)
  BY DEF AtData
<1>3. /\ cur \in AllShapes /\ L \in Nat /\ DataAt(cur) \in Nat /\ FrameLen(cur) = DataAt(cur) + L
      /\ Placed(cur, key, FrameBytes(cur, key))
  BY <1>1, PlacesOf
<1>4. \A j \in 1 .. L : FrameBytes(cur, key)[DataAt(cur) + j] =
                          IF masks THEN ByteXor(cur.data[j], key[(j - 1) % 4]) ELSE cur.data[j]
  BY <1>3 DEF Placed
<1>5. cur.data \in Seq(Bytes)
  BY <1>3, ShapeIs
<1> HIDE DEF i, L
<1>6. i \in Nat /\ i + 1 \in 1 .. L /\ DataAt(cur) + (i + 1) = n + 1 /\ (i + 1) - 1 = i
  BY <1>1, <1>2, <1>3
<1>7. d \in Bytes
  BY <1>5, <1>6, ElementOfSeq DEF L
<1>8. b = IF masks THEN ByteXor(d, key[i % 4]) ELSE d
  BY <1>1, <1>4, <1>6
<1>9. i % 4 \in 0 .. 3
  BY <1>6
<1>10. key[i % 4] \in Bytes
  BY <1>1, <1>9 DEF KeyType
<1> HIDE DEF d
<1>11. CASE masks
  <2>1. ByteXor(b, p.key[p.inkey]) = ByteXor(ByteXor(d, key[i % 4]), key[i % 4])
    BY <1>2, <1>8, <1>11
  <2>2. ByteXor(ByteXor(d, key[i % 4]), key[i % 4]) = d
    BY <1>7, <1>10, XorAssumption, Zenon
  <2> QED  BY <1>6, <1>7, <2>1, <2>2 DEF d, i, L
<1>12. CASE ~masks
  <2>1. p.key[p.inkey] = 0 /\ b = d
    BY <1>1, <1>2, <1>8, <1>9, <1>12
  <2>2. ByteXor(d, 0) = d
    BY <1>7, XorAssumption, Zenon
  <2> QED  BY <1>6, <1>7, <2>1, <2>2 DEF d, i, L
<1> QED  BY <1>1, <1>11, <1>12

\* The step over a byte of the payload.
LEMMA FromData ==
    ASSUME NEW n, NEW key, NEW b, NEW answer, Here(n, key, b), AtData(n, key), Steps(b, answer)
    PROVE  Taken(n, key, answer)
<1>1. StepData(b, answer)
  BY DEF AtData, Steps, StepStart, StepLength, StepLengthByte, StepKey, StepData
<1>2. /\ p \in PType /\ key \in Keys /\ n \in Nat /\ NoKey(p)
      /\ cur' = cur /\ masks' = masks /\ masks \in BOOLEAN /\ cur \in PeerShapes
  BY DEF Here, ParserInv, NoKey
<1> DEFINE i == Len(p.buf)
           L == Len(cur.data)
           d == cur.data[i + 1]
           s == Append(p.buf, d)
           q == [p EXCEPT !.buf = s]
<1>3. /\ n \in DataAt(cur) .. FrameLen(cur) - 1 /\ p.step = "data" /\ p.header = Header(cur)
      /\ p.length = L /\ i = n - DataAt(cur) /\ p.inkey = i % 4
      /\ \A j \in 1 .. i : p.buf[j] = cur.data[j]
      /\ masks => p.key = key
  BY DEF AtData
<1>4. /\ cur.data \in Seq(Bytes) /\ L \in Nat /\ DataAt(cur) \in Nat
      /\ FrameLen(cur) = DataAt(cur) + L
  BY <1>2, PlacesOf, ShapeIs
<1>5. i + 1 \in 1 .. L /\ i \in Nat /\ ByteXor(b, p.key[p.inkey]) = d /\ d \in Bytes
  BY DataByteIs
<1>6. IF Len(q.buf) = p.length THEN EndMessage(q, answer)
      ELSE Goes([q EXCEPT !.inkey = (@ + 1) % 4])
  <2> DEFINE y == ByteXor(b, p.key[p.inkey])
  <2>1. IF Len([p EXCEPT !.buf = Append(p.buf, y)].buf) = p.length
        THEN EndMessage([p EXCEPT !.buf = Append(p.buf, y)], answer)
        ELSE Goes([[p EXCEPT !.buf = Append(p.buf, y)] EXCEPT !.inkey = (@ + 1) % 4])
    BY <1>1 DEF StepData
  <2>2. y = d
    BY <1>5
  <2> HIDE DEF y, d
  <2> QED  BY <2>1, <2>2
<1>7. p.buf \in Seq(Bytes)
  BY <1>2 DEF PType, BufType
<1> HIDE DEF d
<1>8. /\ s \in Seq(Bytes) /\ Len(s) = i + 1 /\ s[i + 1] = d
      /\ \A j \in 1 .. i : s[j] = p.buf[j]
  BY <1>5, <1>7, AppendProperties
<1>9. \A j \in 1 .. i + 1 : s[j] = cur.data[j]
  <2>1. \A j \in 1 .. i + 1 : j \in 1 .. i \/ j = i + 1
    BY <1>5
  <2> QED  BY <1>3, <1>8, <2>1 DEF d
<1> HIDE DEF s, i
<1>10. /\ q.buf = s /\ q.header = p.header /\ q.length = p.length /\ q.inkey = p.inkey
       /\ q.key = p.key /\ q.step = p.step
  BY <1>2 DEF PType
<1>11. q \in PType
  BY <1>2, <1>8 DEF PType, BufType
<1> HIDE DEF q
<1>12. NoKey(q)
  BY <1>2, <1>10 DEF NoKey
<1>13. CASE i + 1 = L
  <2>1. EndMessage(q, answer)
    BY <1>3, <1>6, <1>8, <1>10, <1>13
  <2>2. q.buf = cur.data
    <3>1. \A j \in 1 .. Len(s) : s[j] = cur.data[j]
      BY <1>8, <1>9
    <3>2. Len(s) = Len(cur.data)
      BY <1>8, <1>13
    <3> QED  BY <1>4, <1>8, <1>10, <3>1, <3>2, SeqEqual
  <2>3. n + 1 = FrameLen(cur)
    BY <1>2, <1>3, <1>4, <1>13
  <2> QED  BY <1>3, <1>10, <1>11, <1>12, <2>1, <2>2, <2>3 DEF Taken, Ended
<1>14. CASE i + 1 # L
  <2> DEFINE m == (i + 1) % 4
  <2>1. p' = [q EXCEPT !.inkey = m] /\ UNCHANGED <<closed, shut, out, log>>
    <3>1. Goes([q EXCEPT !.inkey = (q.inkey + 1) % 4])
      BY <1>3, <1>6, <1>8, <1>10, <1>14
    <3>2. (q.inkey + 1) % 4 = m
      <4>1. q.inkey = i % 4
        BY <1>3, <1>10
      <4> QED  BY <1>5, <4>1
    <3> QED  BY <3>1, <3>2 DEF Goes
  <2>2. m \in 0 .. 3
    BY <1>5
  <2> HIDE DEF m
  <2>3. /\ p' \in PType /\ p'.step = q.step /\ p'.header = q.header /\ p'.length = q.length
        /\ p'.key = q.key /\ p'.inkey = m /\ p'.buf = q.buf
    BY <1>11, <2>1, <2>2 DEF PType
  <2>4. /\ n + 1 < FrameLen(cur) /\ n + 1 \in DataAt(cur) .. FrameLen(cur) - 1
        /\ i + 1 = (n + 1) - DataAt(cur)
    <3> HIDE DEF L
    <3> DEFINE a == DataAt(cur)
    <3>1. a \in Nat /\ L \in Nat /\ n \in Nat /\ i \in Nat /\ i = n - a /\ i + 1 < L
      BY <1>2, <1>3, <1>4, <1>5, <1>14
    <3>2. FrameLen(cur) = a + L
      BY <1>4
    <3> HIDE DEF a
    <3>3. n + 1 < a + L /\ n + 1 \in a .. (a + L) - 1 /\ i + 1 = (n + 1) - a
      BY <3>1
    <3> QED  BY <3>2, <3>3 DEF a
  <2>5. Header(cur)' = Header(cur) /\ DataAt(cur)' = DataAt(cur) /\ FrameLen(cur)' = FrameLen(cur)
    BY <1>2 DEF Header, KeyAt, DataAt, FrameLen
  <2>6. AtData(n + 1, key)'
    <3>1. Len(p'.buf) = i + 1 /\ \A j \in 1 .. Len(p'.buf) : p'.buf[j] = cur.data[j]
      BY <1>8, <1>9, <1>10, <2>3
    <3>2. p'.step = "data" /\ p'.header = Header(cur) /\ p'.length = L /\ (masks => p'.key = key)
          /\ p'.inkey = Len(p'.buf) % 4
      BY <1>3, <1>10, <2>3, <3>1 DEF m
    <3> QED  BY <1>2, <2>4, <2>5, <3>1, <3>2 DEF AtData
  <2>7. NoKey(p')
    BY <1>12, <2>3 DEF NoKey
  <2> QED  BY <2>1, <2>3, <2>4, <2>6, <2>7 DEF Taken, Onward, Phase
<1> QED  BY <1>13, <1>14

-----------------------------------------------------------------------------
(* What comes of a frame received in full.                                 *)

\* The list f of the k numbers of I, with m + 1 behind them
Continued(I, m, k, f) ==
    \E g \in Ascending(I \cup {m + 1}, k + 1) :
        g[k + 1] = m + 1 /\ \A a \in 1 .. k : g[a] = f[a]

\* One more number, above those of the list, goes to its end.
LEMMA AscendingMore ==
    ASSUME NEW m \in Nat, NEW I, I \subseteq 1 .. m, NEW k \in Nat, NEW f \in Ascending(I, k)
    PROVE  Continued(I, m, k, f)
<1> DEFINE J == I \cup {m + 1}
           g == [a \in 1 .. k + 1 |-> IF a = k + 1 THEN m + 1 ELSE f[a]]
<1>1. /\ f \in [1 .. k -> I] /\ (\A a, b \in 1 .. k : a < b => f[a] < f[b])
      /\ \A i \in I : \E a \in 1 .. k : f[a] = i
  BY DEF Ascending
<1>2. \A a \in 1 .. k + 1 : a = k + 1 \/ (a \in 1 .. k /\ a # k + 1)
  OBVIOUS
<1>3. \A a \in 1 .. k : a \in 1 .. k + 1 /\ a # k + 1
  OBVIOUS
<1>4. k + 1 \in 1 .. k + 1
  OBVIOUS
<1>5. g[k + 1] = m + 1 /\ \A a \in 1 .. k : g[a] = f[a] /\ f[a] \in I
  BY <1>1, <1>3, <1>4
<1>6. g \in [1 .. k + 1 -> J]
  BY <1>1, <1>2
<1> HIDE DEF g
<1>7. ASSUME NEW a \in 1 .. k + 1, NEW b \in 1 .. k + 1, a < b  PROVE g[a] < g[b]
  <2>1. a \in 1 .. k
    BY <1>7
  <2>2. CASE b = k + 1
    <3>1. g[a] \in 1 .. m /\ g[b] = m + 1
      BY <1>5, <2>1, <2>2
    <3> QED  BY <3>1
  <2>3. CASE b \in 1 .. k
    BY <1>1, <1>5, <1>7, <2>1, <2>3
  <2> QED  BY <1>2, <2>2, <2>3
<1>8. ASSUME NEW i \in J  PROVE \E a \in 1 .. k + 1 : g[a] = i
  <2>1. CASE i = m + 1
    BY <1>4, <1>5, <2>1
  <2>2. CASE i \in I
    BY <1>1, <1>3, <1>5, <2>2
  <2> QED  BY <2>1, <2>2
<1>9. g \in Ascending(J, k + 1)
  BY <1>6, <1>7, <1>8 DEF Ascending
<1> QED  BY <1>5, <1>9 DEF Continued

\* A frame with the application's answer
Entry(answer) == [frame |-> cur, answer |-> answer]

\* What the end of the frame should do
Outcome(answer) ==
    LET d == Entry(answer)
    IN  /\ done' = Append(done, d)
        /\ log' = IF cur.op \in Data THEN Append(log, MessageOf(cur)) ELSE log
        /\ out' = IF Replies(d) /\ ~closed
                  THEN Append(out, [head |-> PayloadHead(IF cur.op = Ping THEN Pong ELSE 1, Len(cur.data)),
                                    data |-> cur.data])
                  ELSE out
        /\ IF Ends(d) THEN closed' = TRUE /\ shut' = (IF closed THEN shut ELSE shut + 1)
           ELSE UNCHANGED <<closed, shut>>
        /\ Replies(d) => ~Ends(d)

\* end_message does it, by the header and the payload of the parser.
LEMMA EndMessageIs ==
    ASSUME NEW q, NEW answer \in {"none", "echo", "fail"}, cur \in AllShapes,
           answer # "none" => cur.op \in Data,
           q.header = Header(cur), q.buf = cur.data, EndMessage(q, answer),
           done' = Append(done, Entry(answer))
    PROVE  Outcome(answer)
<1> DEFINE d == Entry(answer)
<1>1. q.header % 16 = cur.op /\ (cur.fin <=> q.header \div 16 = 8) /\ cur.op \in 0 .. 15
  BY ShapeIs
<1>2. (Ends(d) <=> cur.op = Close \/ answer = "fail") /\ (Replies(d) <=> cur.op = Ping \/ answer = "echo")
  BY DEF Ends, Replies, Entry
<1>3. /\ ~(cur.op \in Data /\ cur.op = Close) /\ ~(cur.op \in Data /\ cur.op = Ping)
      /\ ~(cur.op = Close /\ cur.op = Ping)
  BY DEF Data, Close, Ping
<1>4. Replies(d) => ~Ends(d)
  BY <1>2, <1>3
<1>5. \/ cur.op \in Data /\ OnMessage(q, answer)
      \/ cur.op = Close /\ ClientClose /\ UNCHANGED log
      \/ cur.op = Ping /\ out' = Written(Pong, q.buf) /\ UNCHANGED <<closed, shut, log>>
      \/ cur.op \notin Data \cup {Close, Ping} /\ UNCHANGED <<closed, shut, out, log>>
  BY <1>1 DEF EndMessage
<1>6. [data |-> q.buf, state |-> FrameState(q)] = MessageOf(cur)
  BY <1>1 DEF FrameState, MessageOf
<1> HIDE DEF d
<1>7. CASE cur.op \in Data /\ OnMessage(q, answer)
  <2>1. log' = Append(log, MessageOf(cur))
    BY <1>6, <1>7 DEF OnMessage
  <2>2. \/ answer = "none" /\ UNCHANGED <<closed, shut, out>>
        \/ answer = "echo" /\ out' = Written(1, q.buf) /\ UNCHANGED <<closed, shut>>
        \/ answer = "fail" /\ ClientClose
    BY <1>7 DEF OnMessage
  <2>3. CASE answer = "none"
    BY <1>2, <1>3, <1>4, <1>7, <2>1, <2>2, <2>3 DEF Outcome, d
  <2>4. CASE answer = "echo"
    BY <1>2, <1>3, <1>4, <1>7, <2>1, <2>2, <2>4 DEF Outcome, Written, d
  <2>5. CASE answer = "fail"
    BY <1>2, <1>3, <1>4, <1>7, <2>1, <2>2, <2>5 DEF Outcome, ClientClose, d
  <2> QED  BY <2>3, <2>4, <2>5
<1>8. CASE cur.op = Close /\ ClientClose /\ UNCHANGED log
  BY <1>2, <1>3, <1>4, <1>8 DEF Outcome, ClientClose, d
<1>9. CASE cur.op = Ping /\ out' = Written(Pong, q.buf) /\ UNCHANGED <<closed, shut, log>>
  BY <1>2, <1>3, <1>4, <1>9 DEF Outcome, Written, d
<1>10. CASE cur.op \notin Data \cup {Close, Ping} /\ UNCHANGED <<closed, shut, out, log>>
  BY <1>2, <1>3, <1>4, <1>10 DEF Outcome, d
<1> QED  BY <1>5, <1>7, <1>8, <1>9, <1>10

\* The frames received before, and the new one behind them
Grown(answer) ==
    LET m == Len(done)
    IN  /\ m \in Nat /\ DOMAIN done = 1 .. m /\ DOMAIN done' = 1 .. m + 1
        /\ (\A i \in 1 .. m : done'[i] = done[i]) /\ done'[m + 1] = Entry(answer)

\* The frame goes behind the others.
LEMMA DoneGrows ==
    ASSUME NEW answer \in {"none", "echo", "fail"}, cur \in AllShapes, done \in Seq(EntryType),
           done' = Append(done, Entry(answer))
    PROVE  Grown(answer) /\ done' \in Seq(EntryType)
<1>1. Entry(answer) \in EntryType
  BY DEF Entry, EntryType
<1> DEFINE d == Entry(answer)
<1> HIDE DEF d
<1>2. /\ done' \in Seq(EntryType) /\ Len(done') = Len(done) + 1 /\ done'[Len(done) + 1] = d
      /\ \A i \in 1 .. Len(done) : done'[i] = done[i]
  BY <1>1, AppendProperties DEF d
<1>3. Len(done) \in Nat /\ DOMAIN done = 1 .. Len(done) /\ DOMAIN done' = 1 .. Len(done')
  BY <1>2, LenProperties
<1> QED  BY <1>2, <1>3 DEF Grown, d

\* A list with one element more.
Longer(s, e, t) ==
    /\ Len(s) \in Nat /\ DOMAIN s = 1 .. Len(s) /\ Len(t) = Len(s) + 1 /\ DOMAIN t = 1 .. Len(s) + 1
    /\ (\A j \in 1 .. Len(s) : t[j] = s[j]) /\ t[Len(s) + 1] = e

\* What Append makes.
LEMMA LongerIs ==
    ASSUME NEW S, NEW s \in Seq(S), NEW e \in S, NEW t, t = Append(s, e)
    PROVE  Longer(s, e, t) /\ t \in Seq(S)
<1>1. /\ t \in Seq(S) /\ Len(t) = Len(s) + 1 /\ t[Len(s) + 1] = e
      /\ \A i \in 1 .. Len(s) : t[i] = s[i]
  BY AppendProperties
<1>2. Len(s) \in Nat /\ DOMAIN s = 1 .. Len(s) /\ DOMAIN t = 1 .. Len(t)
  BY <1>1, LenProperties
<1> QED  BY <1>1, <1>2 DEF Longer

\* The messages delivered stay those of the data frames.
LEMMA DeliveredKept ==
    ASSUME NEW answer, Outcome(answer), Grown(answer), cur \in AllShapes, log \in Seq(LogType), Delivered
    PROVE  Delivered' /\ log' \in Seq(LogType)
<1> DEFINE m == Len(done)
           k == Len(log)
<1>1. /\ m \in Nat /\ DOMAIN done = 1 .. m /\ DOMAIN done' = 1 .. m + 1
      /\ (\A i \in 1 .. m : done'[i] = done[i]) /\ done'[m + 1] = Entry(answer)
  BY DEF Grown
<1>2. PICK f \in Ascending(DataFrames, k) : \A j \in DOMAIN log : log[j] = MessageOf(done[f[j]].frame)
  BY DEF Delivered
<1>3. k \in Nat /\ DOMAIN log = 1 .. k
  BY LenProperties
<1>4. DataFrames \subseteq 1 .. m
  BY <1>1 DEF DataFrames
<1>5. Entry(answer).frame = cur
  BY DEF Entry
<1> HIDE DEF m, k
<1>6. \A i : i \in 1 .. m + 1 <=> i \in 1 .. m \/ i = m + 1
  BY <1>1
<1>7. f \in [1 .. k -> DataFrames]
  BY <1>2 DEF Ascending
<1>8. \A j \in 1 .. k : f[j] \in 1 .. m /\ log[j] = MessageOf(done'[f[j]].frame)
  BY <1>1, <1>2, <1>3, <1>4, <1>7
<1>9. CASE cur.op \in Data
  <2>1. log' = Append(log, MessageOf(cur))
    BY <1>9 DEF Outcome
  <2>2. MessageOf(cur) \in LogType
    <3>1. cur.data \in Seq(Bytes)
      BY ShapeIs
    <3> QED  BY <3>1 DEF MessageOf, LogType
  <2>3. Longer(log, MessageOf(cur), log') /\ log' \in Seq(LogType)
    BY <2>1, <2>2, LongerIs, Zenon
  <2>4. DataFrames' = DataFrames \cup {m + 1}
    <3>1. \A i : i \in DataFrames' <=> i \in 1 .. m + 1 /\ done'[i].frame.op \in Data
      BY <1>1 DEF DataFrames, Data
    <3>2. \A i : i \in DataFrames <=> i \in 1 .. m /\ done[i].frame.op \in Data
      BY <1>1 DEF DataFrames
    <3>3. done'[m + 1].frame.op \in Data
      BY <1>1, <1>5, <1>9
    <3> QED  BY <1>1, <1>6, <3>1, <3>2, <3>3
  <2>5. PICK g \in Ascending(DataFrames \cup {m + 1}, k + 1) :
             g[k + 1] = m + 1 /\ \A a \in 1 .. k : g[a] = f[a]
    <3> DEFINE I == DataFrames
    <3>1. I \subseteq 1 .. m /\ f \in Ascending(I, k) /\ m \in Nat /\ k \in Nat
      BY <1>1, <1>2, <1>3, <1>4
    <3> HIDE DEF I
    <3>2. Continued(I, m, k, f)
      BY <3>1, AscendingMore, Zenon
    <3> QED  BY <3>2 DEF I, Continued
  <2>6. Len(log') = k + 1 /\ DOMAIN log' = 1 .. k + 1 /\ log'[k + 1] = MessageOf(cur)
        /\ \A j \in 1 .. k : log'[j] = log[j]
    BY <2>3 DEF Longer, k
  <2>7. \A j \in 1 .. k + 1 : j \in 1 .. k \/ j = k + 1
    BY <1>3
  <2>8. \A j \in 1 .. k + 1 : log'[j] = MessageOf(done'[g[j]].frame)
    BY <1>1, <1>5, <1>8, <2>5, <2>6, <2>7
  <2>9. g \in Ascending(DataFrames', Len(log'))
    BY <2>4, <2>5, <2>6
  <2>10. \A j \in DOMAIN log' : log'[j] = MessageOf(done'[g[j]].frame)
    BY <2>6, <2>8
  <2> QED  BY <2>3, <2>9, <2>10 DEF Delivered, Ascending, MessageOf
<1>10. CASE cur.op \notin Data
  <2>1. log' = log
    BY <1>10 DEF Outcome
  <2>2. DataFrames' = DataFrames
    <3>1. \A i : i \in DataFrames' <=> i \in 1 .. m + 1 /\ done'[i].frame.op \in Data
      BY <1>1 DEF DataFrames, Data
    <3>2. \A i : i \in DataFrames <=> i \in 1 .. m /\ done[i].frame.op \in Data
      BY <1>1 DEF DataFrames
    <3>3. done'[m + 1].frame.op \notin Data
      BY <1>1, <1>5, <1>10
    <3> QED  BY <1>1, <1>6, <3>1, <3>2, <3>3
  <2>3. f \in Ascending(DataFrames', Len(log'))
    BY <1>2, <2>1, <2>2 DEF k
  <2>4. \A j \in DOMAIN log' : log'[j] = MessageOf(done'[f[j]].frame)
    BY <1>3, <1>8, <2>1
  <2> QED  BY <2>1, <2>3, <2>4 DEF Delivered, Ascending, MessageOf
<1> QED  BY <1>9, <1>10

\* A reply to frame d
ReplyIs(o, d) ==
    o.data = d.data /\ HeadSays(o.head, IF d.op = Ping THEN Pong ELSE 1, Len(d.data))

ReplyTo(d) ==
    [head |-> PayloadHead(IF d.op = Ping THEN Pong ELSE 1, Len(d.data)), data |-> d.data]

\* The peer reads a reply as the answer to its frame.
LEMMA ReplyToIs ==
    ASSUME NEW sh \in AllShapes
    PROVE  ReplyTo(sh) \in OutType /\ (PayloadsSmall => ReplyIs(ReplyTo(sh), sh))
<1> DEFINE o == IF sh.op = Ping THEN Pong ELSE 1
           n == Len(sh.data)
           h == PayloadHead(o, n)
<1>1. o \in {1, Pong} /\ n \in Nat /\ (PayloadsSmall => Shifts(n)[4] = 0) /\ sh.data \in Seq(Bytes)
  BY ShapeIs DEF PayloadsSmall
<1> HIDE DEF o, n
<1>2. h \in Seq(Int) /\ (Shifts(n)[4] = 0 => HeadSays(h, o, n))
  BY <1>1, HeadIs, Zenon
<1> HIDE DEF h
<1>3. ReplyTo(sh) = [head |-> h, data |-> sh.data]
  BY DEF ReplyTo, h, o, n
<1>4. ReplyTo(sh) \in OutType /\ ReplyTo(sh).head = h /\ ReplyTo(sh).data = sh.data
  BY <1>1, <1>2, <1>3 DEF OutType
<1> QED  BY <1>1, <1>2, <1>4 DEF ReplyIs, o, n

\* Frames are written at the end.
LEMMA OutGrows ==
    ASSUME NEW answer, Outcome(answer), cur \in AllShapes, out \in Seq(OutType)
    PROVE  out' \in Seq(OutType)
<1>1. out' = out \/ out' = Append(out, ReplyTo(cur))
  BY DEF Outcome, ReplyTo
<1>2. ReplyTo(cur) \in OutType
  BY ReplyToIs
<1> QED  BY <1>1, <1>2, AppendProperties

\* The frames written stay those to be written: what was received last is
\* answered unless the connection was closed before.
LEMMA RepliesKept ==
    ASSUME NEW answer, Outcome(answer), Grown(answer), cur \in AllShapes, out \in Seq(OutType),
           closed <=> \E i \in DOMAIN done : Ends(done[i]), RepliesRight, PayloadsSmall
    PROVE  RepliesRight'
<1> DEFINE m == Len(done)
           k == Len(out)
           d == Entry(answer)
<1>1. /\ m \in Nat /\ DOMAIN done = 1 .. m /\ DOMAIN done' = 1 .. m + 1
      /\ (\A i \in 1 .. m : done'[i] = done[i]) /\ done'[m + 1] = d
  BY DEF Grown
<1>2. PICK f \in Ascending(Answered, k) : \A j \in DOMAIN out : ReplyIs(out[j], done[f[j]].frame)
  BY DEF RepliesRight, ReplyIs
<1>3. k \in Nat /\ DOMAIN out = 1 .. k
  BY LenProperties
<1>4. Answered \subseteq 1 .. m
  BY <1>1 DEF Answered
<1>5. d.frame = cur
  BY DEF Entry
<1>6. /\ out' = IF Replies(d) /\ ~closed THEN Append(out, ReplyTo(cur)) ELSE out
      /\ Replies(d) => ~Ends(d)
  BY DEF Outcome, ReplyTo
<1> HIDE DEF m, k, d
<1>7. \A i : i \in 1 .. m + 1 <=> i \in 1 .. m \/ i = m + 1
  BY <1>1
<1>8. f \in [1 .. k -> Answered]
  BY <1>2 DEF Ascending
<1>9. \A j \in 1 .. k : f[j] \in 1 .. m /\ ReplyIs(out[j], done'[f[j]].frame)
  BY <1>1, <1>2, <1>3, <1>4, <1>8
<1>10. \A i : i \in Answered' <=> i \in 1 .. m + 1 /\ Replies(done'[i]) /\ \A j \in 1 .. i : ~Ends(done'[j])
  BY <1>1 DEF Answered, Replies, Ends, Ping, Close
<1>11. \A i : i \in Answered <=> i \in 1 .. m /\ Replies(done[i]) /\ \A j \in 1 .. i : ~Ends(done[j])
  BY <1>1 DEF Answered
<1>12. \A i \in 1 .. m : \A j \in 1 .. i : j \in 1 .. m
  BY <1>1
<1>13. \A i \in 1 .. m : i \in Answered' <=> i \in Answered
  BY <1>1, <1>7, <1>10, <1>11, <1>12
<1>14. m + 1 \in Answered' <=> Replies(d) /\ ~closed
  <2>1. closed <=> \E i \in 1 .. m : Ends(done[i])
    BY <1>1
  <2>2. (\A j \in 1 .. m + 1 : ~Ends(done'[j])) <=> ~closed /\ ~Ends(d)
    BY <1>1, <1>7, <2>1
  <2> QED  BY <1>1, <1>6, <1>7, <1>10, <2>2
<1>15. CASE Replies(d) /\ ~closed
  <2>1. out' = Append(out, ReplyTo(cur))
    BY <1>6, <1>15
  <2>2. ReplyTo(cur) \in OutType /\ ReplyIs(ReplyTo(cur), cur)
    BY ReplyToIs
  <2>3. Longer(out, ReplyTo(cur), out') /\ out' \in Seq(OutType)
    BY <2>1, <2>2, LongerIs, Zenon
  <2>4. Answered' = Answered \cup {m + 1}
    <3>1. \A i : i \in Answered' => i \in Answered \/ i = m + 1
      BY <1>7, <1>10, <1>13
    <3>2. \A i : i \in Answered => i \in Answered'
      BY <1>4, <1>13
    <3> QED  BY <1>14, <1>15, <3>1, <3>2
  <2>5. PICK g \in Ascending(Answered \cup {m + 1}, k + 1) :
             g[k + 1] = m + 1 /\ \A a \in 1 .. k : g[a] = f[a]
    <3> DEFINE I == Answered
    <3>1. I \subseteq 1 .. m /\ f \in Ascending(I, k) /\ m \in Nat /\ k \in Nat
      BY <1>1, <1>2, <1>3, <1>4
    <3> HIDE DEF I
    <3>2. Continued(I, m, k, f)
      BY <3>1, AscendingMore, Zenon
    <3> QED  BY <3>2 DEF I, Continued
  <2>6. /\ Len(out') = k + 1 /\ DOMAIN out' = 1 .. k + 1 /\ out'[k + 1] = ReplyTo(cur)
        /\ \A j \in 1 .. k : out'[j] = out[j]
    BY <2>3 DEF Longer, k
  <2>7. \A j \in 1 .. k + 1 : j \in 1 .. k \/ j = k + 1
    BY <1>3
  <2>8. \A j \in 1 .. k + 1 : ReplyIs(out'[j], done'[g[j]].frame)
    BY <1>1, <1>5, <1>9, <2>2, <2>5, <2>6, <2>7
  <2>9. g \in Ascending(Answered', Len(out'))
    BY <2>4, <2>5, <2>6
  <2>10. \A j \in DOMAIN out' : ReplyIs(out'[j], done'[g[j]].frame)
    BY <2>6, <2>8
  <2>11. \E h \in Ascending(Answered', Len(out')) : \A j \in DOMAIN out' : ReplyIs(out'[j], done'[h[j]].frame)
    BY <2>9, <2>10
  <2> QED  BY <2>3, <2>11 DEF RepliesRight, ReplyIs
<1>16. CASE ~(Replies(d) /\ ~closed)
  <2>1. out' = out
    BY <1>6, <1>16
  <2>2. Answered' = Answered
    <3>1. \A i : i \in Answered' => i \in Answered
      BY <1>7, <1>10, <1>13, <1>14, <1>16
    <3>2. \A i : i \in Answered => i \in Answered'
      BY <1>4, <1>13
    <3> QED  BY <3>1, <3>2
  <2>3. f \in Ascending(Answered', Len(out'))
    BY <1>2, <2>1, <2>2 DEF k
  <2>4. \A j \in DOMAIN out' : ReplyIs(out'[j], done'[f[j]].frame)
    BY <1>3, <1>9, <2>1
  <2>5. \E h \in Ascending(Answered', Len(out')) : \A j \in DOMAIN out' : ReplyIs(out'[j], done'[h[j]].frame)
    BY <2>3, <2>4
  <2> QED  BY <2>1, <2>5 DEF RepliesRight, ReplyIs
<1> QED  BY <1>15, <1>16

\* The connection is closed, and was shut down once, as soon as a frame or an
\* answer ended it.
LEMMA ClosedKept ==
    ASSUME NEW answer, Outcome(answer), Grown(answer), closed \in BOOLEAN,
           closed <=> \E i \in DOMAIN done : Ends(done[i]), ClosedOnce
    PROVE  /\ closed' \in BOOLEAN /\ (closed' <=> \E i \in DOMAIN done' : Ends(done'[i]))
           /\ ClosedOnce'
<1> DEFINE m == Len(done)
           d == Entry(answer)
           some == \E i \in DOMAIN done' : Ends(done'[i])
<1>1. /\ m \in Nat /\ DOMAIN done = 1 .. m /\ DOMAIN done' = 1 .. m + 1
      /\ (\A i \in 1 .. m : done'[i] = done[i]) /\ done'[m + 1] = d
  BY DEF Grown
<1>2. IF Ends(d) THEN closed' = TRUE /\ shut' = (IF closed THEN shut ELSE shut + 1)
      ELSE UNCHANGED <<closed, shut>>
  BY DEF Outcome
<1> HIDE DEF m, d
<1>3. \A i : i \in 1 .. m + 1 <=> i \in 1 .. m \/ i = m + 1
  BY <1>1
<1>4. some <=> closed \/ Ends(d)
  BY <1>1, <1>3, Zenon
<1>5. shut = IF closed THEN 1 ELSE 0
  BY DEF ClosedOnce
<1>6. ClosedOnce' <=> shut' = IF some THEN 1 ELSE 0
  BY DEF ClosedOnce, Ends, Close
<1> HIDE DEF some
<1>7. CASE Ends(d)
  <2>1. shut' = 1 /\ closed' = TRUE
    BY <1>2, <1>5, <1>7
  <2> QED  BY <1>4, <1>6, <1>7, <2>1 DEF some
<1>8. CASE ~Ends(d)
  <2>1. shut' = (IF closed THEN 1 ELSE 0) /\ closed' = closed
    BY <1>2, <1>5, <1>8
  <2> QED  BY <1>4, <1>6, <1>8, <2>1 DEF some
<1> QED  BY <1>7, <1>8

-----------------------------------------------------------------------------
(* The invariant holds.                                                    *)

\* Nothing of the history changes, and nothing of what it says.
LEMMA HistorySame ==
    ASSUME HistoryInv, UNCHANGED <<closed, shut, out, log, done>>
    PROVE  HistoryInv'
<1>1. Delivered'
  <2>1. DataFrames' = DataFrames
    BY DEF DataFrames, Data
  <2>2. PICK f \in Ascending(DataFrames, Len(log)) : \A j \in DOMAIN log : log[j] = MessageOf(done[f[j]].frame)
    BY DEF HistoryInv, Delivered
  <2>3. \E h \in Ascending(DataFrames', Len(log')) : \A j \in DOMAIN log' : log'[j] = MessageOf(done'[h[j]].frame)
    BY <2>1, <2>2
  <2> QED  BY <2>3 DEF Delivered, MessageOf
<1>2. ASSUME PayloadsSmall  PROVE RepliesRight'
  <2>1. Answered' = Answered
    BY DEF Answered, Replies, Ends, Ping, Close
  <2>2. PICK f \in Ascending(Answered, Len(out)) : \A j \in DOMAIN out : ReplyIs(out[j], done[f[j]].frame)
    BY <1>2 DEF HistoryInv, RepliesRight, ReplyIs
  <2>3. /\ f \in Ascending(Answered', Len(out'))
        /\ \A j \in DOMAIN out' : ReplyIs(out'[j], done'[f[j]].frame)
    BY <2>1, <2>2
  <2>4. \E h \in Ascending(Answered', Len(out')) : \A j \in DOMAIN out' : ReplyIs(out'[j], done'[h[j]].frame)
    BY <2>3
  <2> QED  BY <2>4 DEF RepliesRight, ReplyIs
<1>3. ClosedOnce' /\ (closed' <=> \E i \in DOMAIN done' : Ends(done'[i]))
  BY DEF HistoryInv, ClosedOnce, Ends, Close
<1> QED  BY <1>1, <1>2, <1>3 DEF HistoryInv

\* The end of a frame.
LEMMA HistoryEnds ==
    ASSUME HistoryInv, NEW q, NEW answer \in {"none", "echo", "fail"}, cur \in AllShapes,
           answer # "none" => cur.op \in Data,
           q.header = Header(cur), q.buf = cur.data, EndMessage(q, answer),
           done' = Append(done, Entry(answer))
    PROVE  HistoryInv'
<1>1. Outcome(answer)
  BY EndMessageIs
<1>2. /\ done \in Seq(EntryType) /\ log \in Seq(LogType) /\ out \in Seq(OutType)
      /\ closed \in BOOLEAN /\ (closed <=> \E i \in DOMAIN done : Ends(done[i]))
      /\ Delivered /\ (PayloadsSmall => RepliesRight) /\ ClosedOnce
  BY DEF HistoryInv
<1>3. Grown(answer) /\ done' \in Seq(EntryType)
  BY <1>2, DoneGrows
<1>4. Delivered' /\ log' \in Seq(LogType)
  BY <1>1, <1>2, <1>3, DeliveredKept
<1>5. out' \in Seq(OutType) /\ (PayloadsSmall => RepliesRight')
  <2>1. out' \in Seq(OutType)
    BY <1>1, <1>2, OutGrows
  <2>2. PayloadsSmall => RepliesRight'
    BY <1>1, <1>2, <1>3, RepliesKept
  <2> QED  BY <2>1, <2>2
<1>6. /\ closed' \in BOOLEAN /\ (closed' <=> \E i \in DOMAIN done' : Ends(done'[i]))
      /\ ClosedOnce'
  BY <1>1, <1>2, <1>3, ClosedKept
<1> QED  BY <1>3, <1>4, <1>5, <1>6 DEF HistoryInv, Ends, Close

\* The parser takes a byte.
LEMMA ByteKeeps ==
    ASSUME BareShort, WsInv, NEW answer \in Answers, ProcessByte(answer)
    PROVE  WsInv'
<1>1. ParserInv /\ FrameInv /\ HistoryInv
  BY DEF WsInv
<1>2. /\ in # <<>> /\ in' = Tail(in) /\ Steps(Head(in), answer) /\ cur' = cur /\ masks' = masks
      /\ done' = IF in' = <<>> THEN Append(done, Entry(answer)) ELSE done
  BY DEF ProcessByte, Steps, Entry
<1>3. /\ p \in PType /\ in \in Seq(Bytes) /\ masks \in BOOLEAN /\ cur \in PeerShapes
  BY <1>1, <1>2 DEF ParserInv, FrameInv
<1>4. PICK key \in Keys, n \in Nat : Rest(in, FrameBytes(cur, key), n) /\ Phase(n, key)
  BY <1>1, <1>2 DEF FrameInv
<1> DEFINE f == FrameBytes(cur, key)
           b == Head(in)
<1>5. cur \in AllShapes /\ f \in Seq(Bytes) /\ Len(f) = FrameLen(cur)
  BY <1>3, PlacesOf DEF Placed
<1>6. f' = f
  BY <1>2 DEF FrameBytes
<1> HIDE DEF f
<1>7. /\ n \in Nat /\ n + 1 \in 1 .. Len(f) /\ b = f[n + 1] /\ b \in Bytes
      /\ Rest(Tail(in), f, n + 1) /\ (Tail(in) = <<>> <=> n + 1 = Len(f))
  <2>1. Rest(in, f, n)
    BY <1>4 DEF f
  <2> QED  BY <1>2, <1>5, <2>1, RestNext, Zenon
<1>8. Here(n, key, b)
  <2>1. n + 1 <= FrameLen(cur)
    BY <1>5, <1>7
  <2> QED  BY <1>1, <1>2, <1>3, <1>7, <2>1 DEF Here, f
<1>9. Taken(n, key, answer)
  <2>1. CASE AtStart(n)
    BY <1>2, <1>8, <2>1, FromStart
  <2>2. CASE AtLength(n)
    BY <1>2, <1>8, <2>2, FromLength
  <2>3. CASE AtLengthByte(n)
    BY <1>2, <1>8, <2>3, FromLengthByte
  <2>4. CASE AtKey(n, key)
    BY <1>2, <1>8, <2>4, FromKey
  <2>5. CASE AtData(n, key)
    BY <1>2, <1>8, <2>5, FromData
  <2> QED  BY <1>4, <2>1, <2>2, <2>3, <2>4, <2>5 DEF Phase
<1>10. in' \in Seq(Bytes) /\ Rest(in', f', n + 1) /\ cur' \in PeerShapes'
  <2>1. PeerShapes' = PeerShapes
    BY <1>2 DEF PeerShapes
  <2> QED  BY <1>2, <1>3, <1>6, <1>7, <2>1 DEF Rest
<1>11. CASE Onward(n, key)
  <2>1. /\ n + 1 < FrameLen(cur) /\ UNCHANGED <<closed, shut, out, log>>
        /\ p' \in PType /\ NoKey(p') /\ Phase(n + 1, key)'
    BY <1>11 DEF Onward
  <2>2. in' # <<>>
    <3>1. n + 1 # Len(f)
      BY <1>5, <1>7, <2>1
    <3> QED  BY <1>2, <1>7, <3>1
  <2>3. HistoryInv'
    BY <1>1, <1>2, <2>1, <2>2, HistorySame
  <2>4. FrameInv'
    <3>1. n + 1 \in Nat
      BY <1>7
    <3>2. \E k \in Keys, j \in Nat : Rest(in', FrameBytes(cur, k)', j) /\ Phase(j, k)'
      BY <1>10, <2>1, <3>1 DEF f
    <3> QED  BY <1>10, <2>2, <3>2 DEF FrameInv
  <2>5. ParserInv'
    BY <1>2, <1>3, <1>10, <2>1 DEF ParserInv, NoKey
  <2> QED  BY <2>3, <2>4, <2>5 DEF WsInv
<1>12. CASE \E q \in PType : Ended(n, q, answer)
  <2>1. PICK q \in PType : Ended(n, q, answer)
    BY <1>12
  <2>2. /\ n + 1 = FrameLen(cur) /\ NoKey(q)
        /\ q.header = Header(cur) /\ q.buf = cur.data /\ EndMessage(q, answer)
    BY <2>1 DEF Ended
  <2>3. in' = <<>>
    BY <1>2, <1>5, <1>7, <2>2
  <2>4. /\ p' \in PType /\ p'.step = "start" /\ p'.key = q.key
    <3>1. p' = [q EXCEPT !.step = "start"]
      BY <2>2 DEF EndMessage
    <3> QED  BY <3>1 DEF PType
  <2>5. HistoryInv'
    <3>1. answer \in {"none", "echo", "fail"} /\ (answer # "none" => cur.op \in Data)
      BY DEF Answers
    <3>2. done' = Append(done, Entry(answer))
      BY <1>2, <2>3
    <3> QED  BY <1>1, <1>5, <2>2, <3>1, <3>2, HistoryEnds
  <2>6. FrameInv'
    BY <2>3, <2>4 DEF FrameInv
  <2>7. ParserInv'
    BY <1>2, <1>3, <1>10, <2>2, <2>4 DEF ParserInv, NoKey
  <2> QED  BY <2>5, <2>6, <2>7 DEF WsInv
<1> QED  BY <1>9, <1>11, <1>12 DEF Taken

\* The peer starts a frame, with the parser between two.
LEMMA PeerKeeps ==
    ASSUME WsInv, PeerSends
    PROVE  WsInv'
<1>1. ParserInv /\ FrameInv /\ HistoryInv /\ in = <<>>
      /\ UNCHANGED <<p, closed, shut, out, log, masks, done>>
  BY DEF WsInv, PeerSends
<1>2. PICK sh \in PeerShapes, key \in Keys : cur' = sh /\ in' = FrameBytes(sh, key)
  BY DEF PeerSends, PeerShapes
<1> DEFINE f == FrameBytes(sh, key)
<1>3. sh \in AllShapes /\ masks \in BOOLEAN
  BY <1>1 DEF PeerShapes, AllShapes, ParserInv
<1>4. f \in Seq(Bytes)
  BY <1>3, FrameIs DEF Placed
<1>5. f = FrameBytes(sh, key)' /\ PeerShapes' = PeerShapes
  BY <1>1 DEF FrameBytes, PeerShapes
<1>6. Rest(f, f, 0)
  <2> HIDE DEF f
  <2>1. Len(f) \in Nat
    BY <1>4, LenProperties
  <2>2. Len(f) = Len(f) - 0 /\ \A i \in 1 .. Len(f) : 0 + i = i
    BY <2>1
  <2> QED  BY <1>4, <2>1, <2>2 DEF Rest
<1>7. p.step = "start"
  BY <1>1 DEF FrameInv
<1>8. Phase(0, key)'
  BY <1>1, <1>7 DEF Phase, AtStart
<1>9. FrameInv'
  <2>1. Rest(in', FrameBytes(cur, key)', 0)
    BY <1>2, <1>5, <1>6
  <2>2. \E k \in Keys, j \in Nat : Rest(in', FrameBytes(cur, k)', j) /\ Phase(j, k)'
    BY <1>8, <2>1
  <2>3. p'.step = "start" /\ cur' \in PeerShapes'
    BY <1>1, <1>2, <1>5, <1>7
  <2> QED  BY <2>2, <2>3 DEF FrameInv
<1>10. HistoryInv'
  BY <1>1, HistorySame
<1>11. ParserInv'
  BY <1>1, <1>2, <1>4 DEF ParserInv
<1> QED  BY <1>9, <1>10, <1>11 DEF WsInv

\* The invariant holds before the first byte.
LEMMA WsInit ==
    ASSUME Init
    PROVE  WsInv
<1>1. <<>> \in BufType /\ <<>> \in Seq(Bytes) /\ [i \in 0 .. 3 |-> 0] \in KeyType /\ 0 \in Bytes
  BY DEF BufType, KeyType, Bytes
<1>2. p \in PType /\ p.step = "start" /\ p.key = [i \in 0 .. 3 |-> 0]
  BY <1>1 DEF Init, PType
<1>3. ParserInv /\ FrameInv
  BY <1>1, <1>2 DEF Init, ParserInv, FrameInv
<1>4. done = <<>> /\ log = <<>> /\ out = <<>> /\ closed = FALSE /\ shut = 0
  BY DEF Init
<1>5. /\ DOMAIN <<>> = 1 .. 0 /\ Len(<<>>) = 0 /\ \A i : i \notin 1 .. 0
  BY EmptySeq
<1>6. DataFrames = {} /\ Answered = {}
  BY <1>4, <1>5 DEF DataFrames, Answered
<1>7. \E g : g \in Ascending({}, 0)
  <2>1. [a \in 1 .. 0 |-> a] \in [1 .. 0 -> {}]
    BY <1>5
  <2>2. [a \in 1 .. 0 |-> a] \in Ascending({}, 0)
    BY <1>5, <2>1 DEF Ascending
  <2> QED  BY <2>2
<1>8. Delivered
  BY <1>4, <1>5, <1>6, <1>7 DEF Delivered
<1>9. RepliesRight
  BY <1>4, <1>5, <1>6, <1>7 DEF RepliesRight
<1>10. ClosedOnce /\ (closed <=> \E i \in DOMAIN done : Ends(done[i]))
  BY <1>4, <1>5 DEF ClosedOnce
<1>11. done \in Seq(EntryType) /\ log \in Seq(LogType) /\ out \in Seq(OutType) /\ closed \in BOOLEAN
  <2>1. \A S : <<>> \in Seq(S)
    BY EmptySeq
  <2> QED  BY <1>4, <2>1, Zenon
<1> QED  BY <1>3, <1>8, <1>9, <1>10, <1>11 DEF WsInv, HistoryInv

\* WsInv is inductive.
THEOREM WsInvHolds ==
    ASSUME BareShort
    PROVE  Spec => []WsInv
<1>1. Init => WsInv
  BY WsInit
<1>2. WsInv /\ [Next]_vars => WsInv'
  <2> SUFFICES ASSUME WsInv, [Next]_vars  PROVE WsInv'
    OBVIOUS
  <2>1. CASE PeerSends
    BY <2>1, PeerKeeps
  <2>2. ASSUME NEW answer \in Answers, ProcessByte(answer)  PROVE WsInv'
    BY <2>2, ByteKeeps
  <2>3. CASE UNCHANGED vars
    <3>1. HistoryInv'
      BY <2>3, HistorySame DEF vars, WsInv
    <3>2. ParserInv'
      BY <2>3 DEF vars, WsInv, ParserInv
    <3>3. FrameInv'
      <4>1. PeerShapes' = PeerShapes /\ in' = in /\ cur' = cur /\ p' = p
        BY <2>3 DEF vars, PeerShapes
      <4>2. \A key \in Keys : FrameBytes(cur, key)' = FrameBytes(cur, key)
        BY <2>3 DEF vars, FrameBytes
      <4>3. \A n, key : Phase(n, key)' <=> Phase(n, key)
        BY <2>3 DEF vars, Phase, AtStart, AtLength, AtLengthByte, AtKey, AtData, Unread,
                    Header, KeyAt, DataAt, FrameLen
      <4> QED  BY <4>1, <4>2, <4>3 DEF WsInv, FrameInv
    <3> QED  BY <3>1, <3>2, <3>3 DEF WsInv
  <2> QED  BY <2>1, <2>2, <2>3 DEF Next
<1> QED  BY <1>1, <1>2, PTL DEF Spec

\* The counters of the parser stay in their widths (u2, u3), and its buffer
\* in the length of the frame.
THEOREM TypeOKHolds ==
    ASSUME BareShort
    PROVE  Spec => []TypeOK
<1>1. WsInv => TypeOK
  <2> SUFFICES ASSUME WsInv  PROVE TypeOK
    OBVIOUS
  <2>1. p \in PType /\ closed \in BOOLEAN /\ ClosedOnce /\ FrameInv /\ masks \in BOOLEAN
    BY DEF WsInv, ParserInv, HistoryInv
  <2>2. shut \in Nat
    BY <2>1 DEF ClosedOnce
  <2>3. p.step = "data" => Len(p.buf) <= p.length
    <3> SUFFICES ASSUME p.step = "data"  PROVE Len(p.buf) <= p.length
      OBVIOUS
    <3>1. in # <<>> /\ cur \in PeerShapes
      BY <2>1 DEF FrameInv
    <3>2. PICK key \in Keys, n \in Nat : Phase(n, key)
      BY <2>1, <3>1 DEF FrameInv
    <3>3. AtData(n, key)
      <4>1. p.step \notin {"start", "length", "short", "extended", "key"}
        OBVIOUS
      <4> QED  BY <3>2, <4>1 DEF Phase, AtStart, AtLength, AtLengthByte, AtKey
    <3>4. /\ n <= FrameLen(cur) - 1 /\ Len(p.buf) = n - DataAt(cur) /\ p.length = Len(cur.data)
      BY <3>3 DEF AtData
    <3>5. DataAt(cur) \in Nat /\ Len(cur.data) \in Nat /\ FrameLen(cur) = DataAt(cur) + Len(cur.data)
      BY <2>1, <3>1, PlacesOf
    <3> QED  BY <3>4, <3>5
  <2>4. /\ p.step \in {"start", "length", "short", "extended", "key", "data"}
        /\ p.header \in Bytes /\ p.length \in Nat /\ p.masking \in BOOLEAN /\ p.key \in KeyType
        /\ p.pos \in 0 .. 3 /\ p.inkey \in 0 .. 3 /\ p.lenPos \in 0 .. 7
    BY <2>1 DEF PType
  <2> QED  BY <2>1, <2>2, <2>3, <2>4 DEF TypeOK, KeyType
<1> QED  BY <1>1, WsInvHolds, PTL

\* Parser and peer are between two frames at the same time.
THEOREM InSyncHolds ==
    ASSUME BareShort
    PROVE  Spec => []InSync
<1>1. WsInv => InSync
  <2> SUFFICES ASSUME WsInv  PROVE InSync
    OBVIOUS
  <2>1. FrameInv /\ masks \in BOOLEAN
    BY DEF WsInv, ParserInv
  <2> DEFINE size == ((2 + cur.wide) + Len(cur.data)) + (IF masks THEN 4 ELSE 0)
  <2>2. CASE in = <<>>
    BY <2>1, <2>2 DEF FrameInv, InSync
  <2>3. CASE in # <<>>
    <3>1. cur \in PeerShapes
      BY <2>1, <2>3 DEF FrameInv
    <3>2. PICK key \in Keys, n \in Nat : Rest(in, FrameBytes(cur, key), n) /\ Phase(n, key)
      BY <2>1, <2>3 DEF FrameInv
    <3>3. /\ cur.wide \in {0, 2, 8} /\ Len(cur.data) \in Nat /\ KeyAt(cur) = 2 + cur.wide
          /\ DataAt(cur) = KeyAt(cur) + (IF masks THEN 4 ELSE 0)
          /\ FrameLen(cur) = DataAt(cur) + Len(cur.data) /\ KeyAt(cur) \in Nat
          /\ DataAt(cur) \in Nat /\ FrameLen(cur) \in Nat
          /\ Placed(cur, key, FrameBytes(cur, key))
      BY <2>1, <3>1, PlacesOf
    <3>4. Len(in) = FrameLen(cur) - n
      BY <3>2, <3>3 DEF Rest, Placed
    <3>5. size = FrameLen(cur)
      <4> DEFINE w == cur.wide
                 l == Len(cur.data)
                 k == IF masks THEN 4 ELSE 0
      <4>1. w \in Nat /\ l \in Nat /\ k \in Nat
        BY <3>3
      <4>2. size = ((2 + w) + l) + k /\ FrameLen(cur) = ((2 + w) + k) + l
        BY <3>3
      <4> HIDE DEF w, l, k, size
      <4> QED  BY <4>1, <4>2
    <3> HIDE DEF size
    <3>6. p.step = "start" <=> n = 0
      <4>1. CASE AtStart(n)
        BY <4>1 DEF AtStart
      <4>2. CASE AtLength(n)
        BY <4>2 DEF AtLength
      <4>3. CASE AtLengthByte(n)
        <5>1. p.step # "start" /\ n \in 2 .. 1 + cur.wide
          BY <4>3 DEF AtLengthByte
        <5> QED  BY <5>1
      <4>4. CASE AtKey(n, key)
        <5>1. p.step # "start" /\ n >= KeyAt(cur)
          BY <4>4 DEF AtKey
        <5>2. KeyAt(cur) >= 2
          BY <3>3
        <5> QED  BY <3>3, <5>1, <5>2
      <4>5. CASE AtData(n, key)
        <5>1. p.step # "start" /\ n >= DataAt(cur)
          BY <4>5 DEF AtData
        <5>2. KeyAt(cur) >= 2
          BY <3>3
        <5>3. DataAt(cur) >= KeyAt(cur)
          BY <3>3
        <5> QED  BY <3>3, <5>1, <5>2, <5>3
      <4> QED  BY <3>2, <4>1, <4>2, <4>3, <4>4, <4>5 DEF Phase
    <3>7. Len(in) = size <=> n = 0
      BY <3>3, <3>4, <3>5
    <3> QED  BY <2>3, <3>6, <3>7 DEF InSync, size
  <2> QED  BY <2>2, <2>3
<1> QED  BY <1>1, WsInvHolds, PTL

\* Every data frame received in full, and no other, was delivered, in order,
\* unmasked and whole.
THEOREM DeliveredHolds ==
    ASSUME BareShort
    PROVE  Spec => []Delivered
<1>1. WsInv => Delivered
  BY DEF WsInv, HistoryInv
<1> QED  BY <1>1, WsInvHolds, PTL

\* What was written answers the pings and the echoed messages, with headers
\* the peer reads correctly, and nothing follows a close.
THEOREM RepliesRightHolds ==
    ASSUME BareShort, PayloadsSmall
    PROVE  Spec => []RepliesRight
<1>1. WsInv => RepliesRight
  BY DEF WsInv, HistoryInv
<1> QED  BY <1>1, WsInvHolds, PTL

\* The socket is asked once to shut down, as soon as someone ended it.
THEOREM ClosedOnceHolds ==
    ASSUME BareShort
    PROVE  Spec => []ClosedOnce
<1>1. WsInv => ClosedOnce
  BY DEF WsInv, HistoryInv
<1> QED  BY <1>1, WsInvHolds, PTL

=============================================================================
