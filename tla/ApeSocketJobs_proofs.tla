------------------------ MODULE ApeSocketJobs_proofs ------------------------
(***************************************************************************)
(* Proofs about ApeSocketJobs for an application that writes and shuts     *)
(* down: any lengths, any size of the kernel's buffer, of the packet lists *)
(* and of IOV_MAX, any memory limit.                                       *)
(***************************************************************************)
EXTENDS ApeSocketJobs, FiniteSetTheorems, SequenceTheorems, WellFoundedInduction, TLAPS

-----------------------------------------------------------------------------
(* Numbers and lists.                                                      *)

\* A set of numbers that is not empty has a least one.
LEMMA LeastNumber ==
    ASSUME NEW S, S \subseteq Nat, S # {}
    PROVE  \E x \in S : \A y \in S : x <= y
<1> DEFINE R == OpToRel(<, Nat)
<1>1. IsWellFoundedOn(R, Nat)
  BY NatLessThanWellFounded
<1>2. \A x, y \in Nat : <<x, y>> \in R <=> x < y
  BY DEF OpToRel
<1> HIDE DEF R
<1>3. PICK x \in S : \A y \in S : ~(<<y, x>> \in R)
  BY <1>1, WFMin
<1>4. ASSUME NEW y \in S  PROVE x <= y
  <2>1. x \in Nat /\ y \in Nat /\ ~(<<y, x>> \in R)
    BY <1>3
  <2>2. ~(y < x)
    BY <1>2, <2>1, Zenon
  <2> QED  BY <2>1, <2>2
<1> QED  BY <1>4

\* The running totals are the one function that starts at 0 and grows by one
\* number at a time.
LEMMA TotalsAre ==
    ASSUME NEW q \in Seq(Int), NEW g \in [0 .. Len(q) -> Int], g[0] = 0,
           \A i \in 1 .. Len(q) : g[i] = g[i - 1] + q[i]
    PROVE  Totals(q) = g
<1> DEFINE Good(e) == e = [i \in 0 .. Len(q) |-> IF i = 0 THEN 0 ELSE e[i - 1] + q[i]]
<1>0. Len(q) \in Nat
  OBVIOUS
<1>1. Totals(q) = CHOOSE e : Good(e)
  BY DEF Totals
<1>2. Good(g)
  <2>1. g = [i \in 0 .. Len(q) |-> g[i]]
    OBVIOUS
  <2>2. \A i \in 0 .. Len(q) : g[i] = IF i = 0 THEN 0 ELSE g[i - 1] + q[i]
    OBVIOUS
  <2> QED  BY <2>1, <2>2
<1> DEFINE e == Totals(q)
<1>3. Good(e)
  BY <1>1, <1>2
<1> HIDE DEF e
<1>4. /\ e = [i \in 0 .. Len(q) |-> e[i]] /\ e[0] = 0
      /\ \A i \in 1 .. Len(q) : e[i] = e[i - 1] + q[i]
  BY <1>3, SMTT(30)
<1>5. \A i \in 0 .. Len(q) : e[i] = g[i]
  <2> DEFINE B == {i \in 0 .. Len(q) : e[i] # g[i]}
  <2> SUFFICES ASSUME B # {} PROVE FALSE
    OBVIOUS
  <2>1. B \subseteq Nat
    BY <1>0
  <2>2. PICK m \in B : \A y \in B : m <= y
    BY <2>1, LeastNumber
  <2>3. m \in 1 .. Len(q) /\ m - 1 \in 0 .. Len(q) /\ m - 1 < m
    BY <1>0, <1>4, <2>2
  <2>4. m - 1 \notin B
    BY <2>2, <2>3
  <2>5. e[m - 1] = g[m - 1]
    BY <2>3, <2>4
  <2> QED  BY <1>4, <2>2, <2>3, <2>5
<1> QED  BY <1>4, <1>5 DEF e

\* The slots once a list has grown, once k heads went behind the queue, and
\* once the head went behind current.
Grown(s, empty, k)  == s \o Block(empty, k)
Queued(s, empty, k) == SubSeq(s, k + 1, Len(s)) \o Block(empty, k)
Rotated(s, c)       == SubSeq(s, 2, c) \o <<Head(s)>> \o SubSeq(s, c + 1, Len(s))

\* g is s with k empty slots behind it
Extended(S, s, empty, k, g) ==
    /\ g \in Seq(S) /\ Len(g) = Len(s) + k
    /\ \A i \in 1 .. Len(s) : g[i] = s[i]
    /\ \A i \in Len(s) + 1 .. Len(s) + k : g[i] = empty

\* ape_grow_pool, slot by slot.
LEMMA GrowFacts ==
    ASSUME NEW S, NEW s \in Seq(S), NEW empty \in S, NEW k \in Nat
    PROVE  Extended(S, s, empty, k, Grown(s, empty, k))
<1>1. Block(empty, k) \in Seq(S) /\ Len(Block(empty, k)) = k
      /\ \A i \in 1 .. k : Block(empty, k)[i] = empty
  BY DEF Block
<1> DEFINE b == Block(empty, k)
<1> HIDE DEF b
<1>2. b \in Seq(S) /\ Len(b) = k /\ \A i \in 1 .. k : b[i] = empty
  BY <1>1 DEF b
<1>3. /\ s \o b \in Seq(S) /\ Len(s \o b) = Len(s) + k
      /\ \A i \in 1 .. Len(s) : (s \o b)[i] = s[i]
      /\ \A i \in Len(s) + 1 .. Len(s) + k : (s \o b)[i] = b[i - Len(s)]
  BY <1>2
<1>4. \A i \in Len(s) + 1 .. Len(s) + k : i - Len(s) \in 1 .. k
  OBVIOUS
<1>5. Extended(S, s, empty, k, s \o b)
  BY <1>2, <1>3, <1>4 DEF Extended
<1> QED  BY <1>5 DEF b, Grown

\* ape_pool_head_to_queue, slot by slot.
LEMMA QueueFacts ==
    ASSUME NEW S, NEW s \in Seq(S), NEW empty \in S, NEW k \in 0 .. Len(s)
    PROVE  LET r == Queued(s, empty, k)
           IN  /\ r \in Seq(S) /\ Len(r) = Len(s)
               /\ \A i \in 1 .. Len(s) - k : r[i] = s[i + k]
               /\ \A i \in Len(s) - k + 1 .. Len(s) : r[i] = empty
<1> DEFINE a == SubSeq(s, k + 1, Len(s))
           r == Grown(a, empty, k)
<1>0. Len(s) \in Nat /\ k \in Nat /\ k <= Len(s)
  OBVIOUS
<1>1. a \in Seq(S) /\ Len(a) = Len(s) - k /\ \A i \in 1 .. Len(s) - k : a[i] = s[i + k]
  <2>1. CASE k = Len(s)
    BY <2>1, SubSeqProperties
  <2>2. CASE k < Len(s)
    BY <2>2, SubSeqProperties
  <2> QED  BY <1>0, <2>1, <2>2
<1> HIDE DEF a
<1>2. /\ r \in Seq(S) /\ Len(r) = Len(a) + k
      /\ \A i \in 1 .. Len(a) : r[i] = a[i]
      /\ \A i \in Len(a) + 1 .. Len(a) + k : r[i] = empty
  <2>1. a \in Seq(S) /\ k \in Nat
    BY <1>0, <1>1
  <2>2. Extended(S, a, empty, k, r)
    BY <2>1, GrowFacts, Zenon
  <2> QED  BY <2>2 DEF Extended
<1> HIDE DEF r
<1>3. Len(a) + k = Len(s)
  BY <1>0, <1>1
<1>4. r \in Seq(S) /\ Len(r) = Len(s) /\ \A i \in Len(s) - k + 1 .. Len(s) : r[i] = empty
  BY <1>1, <1>2, <1>3
<1>5. ASSUME NEW i \in 1 .. Len(s) - k  PROVE r[i] = s[i + k]
  <2>1. i \in 1 .. Len(a)
    BY <1>1
  <2>2. r[i] = a[i] /\ a[i] = s[i + k]
    BY <1>1, <1>2, <2>1
  <2> QED  BY <2>2
<1> QED  BY <1>4, <1>5 DEF r, a, Queued, Grown

\* ape_pool_head_to_current, slot by slot.
LEMMA HeadFacts ==
    ASSUME NEW S, NEW s \in Seq(S), NEW c \in 1 .. Len(s)
    PROVE  LET r == Rotated(s, c)
           IN  /\ r \in Seq(S) /\ Len(r) = Len(s)
               /\ \A i \in 1 .. c - 1 : r[i] = s[i + 1]
               /\ r[c] = s[1]
               /\ \A i \in c + 1 .. Len(s) : r[i] = s[i]
<1> DEFINE a == SubSeq(s, 2, c)
           b == a \o <<Head(s)>>
           d == SubSeq(s, c + 1, Len(s))
           r == b \o d
<1>0. Len(s) \in Nat /\ c \in Nat /\ c <= Len(s) /\ 1 <= c /\ s # <<>>
  OBVIOUS
<1>1. a \in Seq(S) /\ Len(a) = c - 1 /\ \A i \in 1 .. c - 1 : a[i] = s[i + 1]
  <2>1. CASE c = 1
    BY <2>1, SubSeqProperties
  <2>2. CASE c > 1
    BY <2>2, SubSeqProperties
  <2> QED  BY <1>0, <2>1, <2>2
<1>2. d \in Seq(S) /\ Len(d) = Len(s) - c /\ \A i \in 1 .. Len(s) - c : d[i] = s[i + c]
  <2>1. CASE c = Len(s)
    BY <2>1, SubSeqProperties
  <2>2. CASE c < Len(s)
    BY <2>2, SubSeqProperties
  <2> QED  BY <1>0, <2>1, <2>2
<1>3. Head(s) = s[1] /\ s[1] \in S
  BY <1>0
<1> HIDE DEF a, d
<1>4. /\ b \in Seq(S) /\ Len(b) = c /\ b[c] = s[1]
      /\ \A i \in 1 .. c - 1 : b[i] = a[i]
  <2>1. a \in Seq(S) /\ Len(a) = c - 1 /\ Head(s) \in S /\ Head(s) = s[1]
    BY <1>1, <1>3
  <2>2. /\ b \in Seq(S) /\ Len(b) = Len(a) + 1 /\ b[Len(a) + 1] = Head(s)
        /\ \A i \in 1 .. Len(a) : b[i] = a[i]
    BY <2>1
  <2> QED  BY <1>0, <2>1, <2>2
<1> HIDE DEF b
<1>5. /\ r \in Seq(S) /\ Len(r) = Len(b) + Len(d)
      /\ \A i \in 1 .. Len(b) : r[i] = b[i]
      /\ \A i \in Len(b) + 1 .. Len(b) + Len(d) : r[i] = d[i - Len(b)]
  <2>1. b \in Seq(S) /\ d \in Seq(S)
    BY <1>2, <1>4
  <2> QED  BY <2>1
<1> HIDE DEF r
<1>6. Len(r) = Len(s) /\ r[c] = s[1] /\ \A i \in 1 .. c - 1 : r[i] = s[i + 1]
  <2>1. Len(r) = Len(s)
    BY <1>0, <1>2, <1>4, <1>5
  <2>2. c \in 1 .. Len(b) /\ \A i \in 1 .. c - 1 : i \in 1 .. Len(b)
    BY <1>0, <1>4
  <2>3. r[c] = s[1]
    BY <1>4, <1>5, <2>2
  <2>4. ASSUME NEW i \in 1 .. c - 1  PROVE r[i] = s[i + 1]
    <3>1. r[i] = b[i] /\ b[i] = a[i] /\ a[i] = s[i + 1]
      BY <1>1, <1>4, <1>5, <2>2
    <3> QED  BY <3>1
  <2> QED  BY <2>1, <2>3, <2>4
<1>7. ASSUME NEW i \in c + 1 .. Len(s)  PROVE r[i] = s[i]
  <2>1. i - c \in 1 .. Len(s) - c /\ (i - c) + c = i /\ i \in c + 1 .. c + (Len(s) - c)
    BY <1>0
  <2>2. r[i] = d[i - c]
    <3>1. i \in Len(b) + 1 .. Len(b) + Len(d) /\ i - Len(b) = i - c
      BY <1>2, <1>4, <2>1
    <3>2. r[i] = d[i - Len(b)]
      BY <1>5, <3>1
    <3> QED  BY <3>1, <3>2
  <2> QED  BY <1>2, <2>1, <2>2
<1> QED  BY <1>5, <1>6, <1>7 DEF r, b, a, d, Rotated

-----------------------------------------------------------------------------
(* Packet lists as stretches of the stream.                                *)

ListType == [slots : Seq(PacketType), current : Nat]

\* The packets before current follow each other in the stream: packet i ends
\* at byte at[i].  Only the first one of all may be sent in part.
Placed(l, at, first) ==
    /\ at \in [0 .. Len(l.slots) -> Nat]
    /\ \A i, k \in 0 .. Len(l.slots) : i <= k => at[i] <= at[k]
    /\ \A i \in 1 .. Len(l.slots) : i < l.current =>
         /\ l.slots[i].used /\ at[i - 1] < at[i]
         /\ l.slots[i].base + l.slots[i].off = at[i - 1]
         /\ l.slots[i].base + l.slots[i].len = at[i]
         /\ i > 1 \/ ~first => l.slots[i].off = 0
    /\ \A i \in 1 .. Len(l.slots) : i >= l.current => l.slots[i] = NoPacket

\* A list that holds the bytes behind `from' up to `to', and nothing else
Stretch(l, from, to, first) ==
    /\ l \in ListType /\ l.current \in 1 .. Len(l.slots)
    /\ \E at \in [0 .. Len(l.slots) -> Nat] :
         /\ Placed(l, at, first)
         /\ at[0] = from /\ at[l.current - 1] = to /\ at[Len(l.slots)] = to

\* A list with no packet
Empty(l) ==
    /\ l \in ListType /\ l.current = 1 /\ Len(l.slots) >= 1
    /\ \A i \in 1 .. Len(l.slots) : l.slots[i] = NoPacket

\* The slot of no packet is of the type of packets.
LEMMA NoPacketType == NoPacket \in PacketType /\ NoPacket.used = FALSE
BY JobsAssumption DEF NoPacket, PacketType

\* A packet list grows by PacketSlots slots.
LEMMA ListGrows ==
    ASSUME NEW s \in Seq(PacketType)
    PROVE  /\ Grown(s, NoPacket, PacketSlots) \in Seq(PacketType)
           /\ Len(Grown(s, NoPacket, PacketSlots)) = Len(s) + PacketSlots
           /\ \A i \in 1 .. Len(s) : Grown(s, NoPacket, PacketSlots)[i] = s[i]
           /\ \A i \in Len(s) + 1 .. Len(s) + PacketSlots :
                Grown(s, NoPacket, PacketSlots)[i] = NoPacket
<1>1. NoPacket \in PacketType /\ PacketSlots \in Nat
  BY NoPacketType, JobsAssumption
<1>2. Extended(PacketType, s, NoPacket, PacketSlots, Grown(s, NoPacket, PacketSlots))
  BY <1>1, GrowFacts, Zenon
<1> QED  BY <1>2 DEF Extended

\* A list with no packet is a stretch of no byte, anywhere.
LEMMA EmptyStretch ==
    ASSUME NEW l, Empty(l), NEW x \in Nat, NEW first
    PROVE  Stretch(l, x, x, first)
<1> DEFINE at == [i \in 0 .. Len(l.slots) |-> x]
<1>1. l.slots \in Seq(PacketType) /\ Len(l.slots) \in Nat /\ l.current = 1 /\ Len(l.slots) >= 1
  BY DEF Empty, ListType
<1>2. at \in [0 .. Len(l.slots) -> Nat] /\ at[0] = x /\ at[Len(l.slots)] = x
      /\ \A i \in 0 .. Len(l.slots) : at[i] = x
  BY <1>1
<1> HIDE DEF at
<1>3. Placed(l, at, first)
  BY <1>1, <1>2 DEF Placed, Empty
<1> QED  BY <1>1, <1>2, <1>3 DEF Stretch, Empty

\* A fresh packet list.
LEMMA NewList ==
    Empty(NewPoolList(NoPacket, PacketSlots))
<1>1. Block(NoPacket, PacketSlots) \in Seq(PacketType)
  BY NoPacketType, JobsAssumption DEF Block
<1>2. /\ Len(Block(NoPacket, PacketSlots)) = PacketSlots /\ PacketSlots >= 1
      /\ \A i \in 1 .. PacketSlots : Block(NoPacket, PacketSlots)[i] = NoPacket
  BY JobsAssumption DEF Block
<1> DEFINE b == Block(NoPacket, PacketSlots)
<1> HIDE DEF b
<1>3. [slots |-> b, current |-> 1] \in ListType
  BY <1>1 DEF ListType, b
<1>4. Empty([slots |-> b, current |-> 1])
  BY <1>2, <1>3 DEF Empty, b
<1> QED  BY <1>4 DEF NewPoolList, b

\* What ape_socket_queue_data does to the slots of a list.
LEMMA AddPacketIs ==
    ASSUME NEW l \in ListType, l.current \in 1 .. Len(l.slots), NEW p \in PacketType
    PROVE  LET s == [l.slots EXCEPT ![l.current] = p]
           IN  AddPacket(l, p) =
                 [slots |-> IF l.current = Len(l.slots) THEN Grown(s, NoPacket, PacketSlots) ELSE s,
                  current |-> l.current + 1]
<1>1. l = [slots |-> l.slots, current |-> l.current]
  BY DEF ListType
<1> DEFINE s == [l.slots EXCEPT ![l.current] = p]
           f == [slots |-> s, current |-> l.current]
           g == [slots |-> Grown(s, NoPacket, PacketSlots), current |-> l.current]
<1>2. [l EXCEPT !.slots[l.current] = p] = f
  BY <1>1
<1> HIDE DEF s
<1>3. GrowPool(f, NoPacket, PacketSlots) = g
  <2>1. GrowPool(f, NoPacket, PacketSlots) =
          [f EXCEPT !.slots = f.slots \o Block(NoPacket, PacketSlots)]
    BY DEF GrowPool
  <2>2. f.slots = s
    OBVIOUS
  <2>3. GrowPool(f, NoPacket, PacketSlots) = [f EXCEPT !.slots = Grown(s, NoPacket, PacketSlots)]
    BY <2>1, <2>2 DEF Grown
  <2> QED  BY <2>3
<1>4. AddPacket(l, p) =
        [(IF l.current = Len(l.slots) THEN g ELSE f) EXCEPT !.current = @ + 1]
  BY <1>2, <1>3 DEF AddPacket
<1> QED  BY <1>4 DEF s

\* The packets of a stretch are the slots before current.
LEMMA PendingIs ==
    ASSUME NEW l, NEW from, NEW to, NEW first, Stretch(l, from, to, first)
    PROVE  /\ l \in ListType /\ l.slots \in Seq(PacketType) /\ Len(l.slots) \in Nat
           /\ l.current \in 1 .. Len(l.slots)
           /\ Pending(l) = 1 .. l.current - 1
           /\ from \in Nat /\ to \in Nat /\ from <= to
           /\ l.current > 1 => from < to
<1>1. /\ l \in ListType /\ l.slots \in Seq(PacketType) /\ Len(l.slots) \in Nat
      /\ l.current \in 1 .. Len(l.slots)
  BY DEF Stretch, ListType
<1>2. PICK at \in [0 .. Len(l.slots) -> Nat] :
         /\ Placed(l, at, first)
         /\ at[0] = from /\ at[l.current - 1] = to /\ at[Len(l.slots)] = to
  BY DEF Stretch
<1>3. \A i \in 1 .. Len(l.slots) : l.slots[i].used <=> i < l.current
  <2> SUFFICES ASSUME NEW i \in 1 .. Len(l.slots)
               PROVE  l.slots[i].used <=> i < l.current
    OBVIOUS
  <2>1. i < l.current => l.slots[i].used
    BY <1>2 DEF Placed
  <2>2. i >= l.current => l.slots[i] = NoPacket
    BY <1>2 DEF Placed
  <2> QED  BY <1>1, <2>1, <2>2, NoPacketType
<1>4. Pending(l) = 1 .. l.current - 1
  <2>1. Pending(l) = {i \in 1 .. Len(l.slots) : l.slots[i].used}
    BY <1>1 DEF Pending
  <2>2. Pending(l) = {i \in 1 .. Len(l.slots) : i < l.current}
    BY <1>3, <2>1
  <2> QED  BY <1>1, <2>2
<1>5. from \in Nat /\ to \in Nat /\ from <= to
  BY <1>1, <1>2 DEF Placed
<1>6. ASSUME l.current > 1  PROVE from < to
  <2>1. 1 \in 1 .. Len(l.slots) /\ 0 \in 0 .. Len(l.slots) /\ 1 < l.current
        /\ l.current - 1 \in 0 .. Len(l.slots) /\ 1 \in 0 .. Len(l.slots) /\ 1 <= l.current - 1
    BY <1>1, <1>6
  <2>2. at[1 - 1] < at[1] /\ at[1] <= at[l.current - 1]
    BY <1>2, <2>1 DEF Placed
  <2> QED  BY <1>2, <2>1, <2>2
<1> QED  BY <1>1, <1>4, <1>5, <1>6

\* A packet that starts where a stretch ends makes it longer, and no packet
\* of the list moves (ape_socket_queue_data).
LEMMA AddRun ==
    ASSUME NEW l, NEW from, NEW to, NEW first \in BOOLEAN, Stretch(l, from, to, first),
           NEW p \in PacketType, p.used, p.base + p.off = to, to < p.base + p.len,
           l.current > 1 \/ ~first => p.off = 0
    PROVE  LET r == AddPacket(l, p)
           IN  /\ Stretch(r, from, p.base + p.len, first)
               /\ r.current = l.current + 1 /\ r.slots[l.current] = p
               /\ \A i \in 1 .. l.current - 1 : r.slots[i] = l.slots[i]
<1> DEFINE n == Len(l.slots)
           c == l.current
           s == [l.slots EXCEPT ![c] = p]
           t == IF c = n THEN Grown(s, NoPacket, PacketSlots) ELSE s
           r == [slots |-> t, current |-> c + 1]
           new == p.base + p.len
<1>1. l \in ListType /\ l.slots \in Seq(PacketType) /\ n \in Nat /\ c \in 1 .. n /\ c \in Nat
  BY PendingIs
<1>2. AddPacket(l, p) = r
  BY <1>1, AddPacketIs
<1>3. /\ s \in Seq(PacketType) /\ Len(s) = n /\ s[c] = p
      /\ \A i \in 1 .. n : i # c => s[i] = l.slots[i]
  BY <1>1
<1> HIDE DEF s
<1>4. /\ t \in Seq(PacketType) /\ Len(t) \in Nat /\ Len(t) >= n /\ Len(t) > c
      /\ \A i \in 1 .. n : t[i] = s[i]
      /\ \A i \in n + 1 .. Len(t) : t[i] = NoPacket
  <2>1. CASE c = n
    <3>1. PacketSlots \in Nat /\ PacketSlots >= 1
      BY JobsAssumption
    <3>2. /\ Grown(s, NoPacket, PacketSlots) \in Seq(PacketType)
          /\ Len(Grown(s, NoPacket, PacketSlots)) = Len(s) + PacketSlots
          /\ \A i \in 1 .. Len(s) : Grown(s, NoPacket, PacketSlots)[i] = s[i]
          /\ \A i \in Len(s) + 1 .. Len(s) + PacketSlots :
               Grown(s, NoPacket, PacketSlots)[i] = NoPacket
      <4>1. s \in Seq(PacketType)
        BY <1>3
      <4> QED  BY <4>1, ListGrows, Zenon
    <3>3. t = Grown(s, NoPacket, PacketSlots)
      BY <2>1
    <3> HIDE DEF t
    <3>4. /\ t \in Seq(PacketType) /\ Len(t) = n + PacketSlots
          /\ \A i \in 1 .. n : t[i] = s[i]
          /\ \A i \in n + 1 .. n + PacketSlots : t[i] = NoPacket
      BY <1>3, <3>2, <3>3
    <3> QED  BY <1>1, <2>1, <3>1, <3>4
  <2>2. CASE c # n
    <3>1. t = s
      BY <2>2
    <3> QED  BY <1>1, <1>3, <2>2, <3>1
  <2> QED  BY <2>1, <2>2
<1> HIDE DEF t
<1>5. PICK at \in [0 .. n -> Nat] :
         /\ Placed(l, at, first)
         /\ at[0] = from /\ at[c - 1] = to /\ at[n] = to
  BY DEF Stretch
<1> DEFINE to2 == [i \in 0 .. Len(t) |-> IF i < c THEN at[i] ELSE new]
<1>6. new \in Nat /\ to \in Nat /\ to < new
  BY <1>1, PendingIs, SMTT(30) DEF PacketType
<1> HIDE DEF new
<1>7. ASSUME NEW i \in 0 .. n, i < c  PROVE at[i] \in Nat /\ at[i] <= to
  <2>1. c - 1 \in 0 .. n /\ i <= c - 1
    BY <1>1, <1>7
  <2>2. at[i] <= at[c - 1]
    BY <1>5, <2>1 DEF Placed
  <2> QED  BY <1>5, <2>2
<1>8. /\ to2 \in [0 .. Len(t) -> Nat]
      /\ \A i \in 0 .. Len(t) : to2[i] = IF i < c THEN at[i] ELSE new
  <2>1. ASSUME NEW i \in 0 .. Len(t)  PROVE (IF i < c THEN at[i] ELSE new) \in Nat
    <3>1. i < c => i \in 0 .. n
      BY <1>1
    <3> QED  BY <1>6, <1>7, <3>1
  <2> QED  BY <2>1
<1> HIDE DEF to2
<1>9. \A i, k \in 0 .. Len(t) : i <= k => to2[i] <= to2[k]
  <2> SUFFICES ASSUME NEW i \in 0 .. Len(t), NEW k \in 0 .. Len(t), i <= k
               PROVE  to2[i] <= to2[k]
    OBVIOUS
  <2>1. CASE k < c
    <3>1. i \in 0 .. n /\ k \in 0 .. n /\ i < c
      BY <1>1, <2>1
    <3>2. at[i] <= at[k]
      BY <1>5, <3>1 DEF Placed
    <3> QED  BY <1>8, <2>1, <3>1, <3>2
  <2>2. CASE ~(k < c)
    BY <1>1, <1>4, <1>6, <1>7, <1>8, <2>2
  <2> QED  BY <2>1, <2>2
<1>10. ASSUME NEW i \in 1 .. Len(t), i < c + 1
       PROVE  /\ t[i].used /\ to2[i - 1] < to2[i]
              /\ t[i].base + t[i].off = to2[i - 1]
              /\ t[i].base + t[i].len = to2[i]
              /\ i > 1 \/ ~first => t[i].off = 0
  <2>1. CASE i = c
    <3>1. t[i] = p
      BY <1>1, <1>3, <1>4, <2>1
    <3>2. to2[i - 1] = to /\ to2[i] = new
      BY <1>1, <1>4, <1>5, <1>8, <2>1
    <3> QED  BY <1>6, <2>1, <3>1, <3>2 DEF new
  <2>2. CASE i < c
    <3>1. i \in 1 .. n /\ i # c
      BY <1>1, <2>2
    <3>2. t[i] = l.slots[i]
      BY <1>3, <1>4, <3>1
    <3>3. to2[i - 1] = at[i - 1] /\ to2[i] = at[i]
      <4>1. i - 1 \in 0 .. Len(t) /\ i \in 0 .. Len(t) /\ i - 1 < c
        BY <1>1, <1>4, <2>2
      <4> QED  BY <1>8, <2>2, <4>1
    <3> QED  BY <1>5, <2>2, <3>1, <3>2, <3>3 DEF Placed
  <2> QED  BY <1>1, <1>10, <2>1, <2>2
<1>11. ASSUME NEW i \in 1 .. Len(t), i >= c + 1
       PROVE  t[i] = NoPacket
  <2>1. CASE i \in 1 .. n
    <3>1. t[i] = s[i] /\ s[i] = l.slots[i]
      BY <1>1, <1>3, <1>4, <1>11, <2>1
    <3>2. i >= c
      BY <1>1, <1>11
    <3> QED  BY <1>5, <2>1, <3>1, <3>2 DEF Placed
  <2>2. CASE i \in n + 1 .. Len(t)
    BY <1>4, <2>2
  <2> QED  BY <1>1, <1>4, <2>1, <2>2
<1>12. Placed(r, to2, first)
  <2>1. r.slots = t /\ r.current = c + 1
    OBVIOUS
  <2> HIDE DEF r
  <2> QED  BY <1>8, <1>9, <1>10, <1>11, <2>1 DEF Placed
<1>13. to2[0] = from /\ to2[r.current - 1] = new /\ to2[Len(t)] = new
  BY <1>1, <1>4, <1>5, <1>8, SMTT(30)
<1>14. r \in ListType /\ r.current \in 1 .. Len(r.slots)
  BY <1>1, <1>4 DEF ListType
<1>15. Stretch(r, from, new, first)
  <2>1. r.slots = t
    OBVIOUS
  <2> HIDE DEF r
  <2> QED  BY <1>8, <1>12, <1>13, <1>14, <2>1 DEF Stretch
<1>16. t[c] = p /\ \A i \in 1 .. c - 1 : t[i] = l.slots[i]
  <2>1. t[c] = p
    BY <1>1, <1>3, <1>4
  <2>2. ASSUME NEW i \in 1 .. c - 1  PROVE t[i] = l.slots[i]
    <3>1. i \in 1 .. n /\ i # c
      BY <1>1
    <3> QED  BY <1>3, <1>4, <3>1
  <2> QED  BY <2>1, <2>2
<1> QED  BY <1>2, <1>15, <1>16 DEF new

\* Of growing totals e, those up to n are the first f ones.
LEMMA FullIs ==
    ASSUME NEW m \in Nat, NEW e \in [0 .. m -> Int],
           \A i, k \in 0 .. m : i <= k => e[i] <= e[k], NEW n \in Nat, e[0] <= n
    PROVE  \E f \in 0 .. m : /\ {i \in 1 .. m : e[i] <= n} = 1 .. f
                             /\ Cardinality({i \in 1 .. m : e[i] <= n}) = f
                             /\ e[f] <= n /\ (f < m => e[f + 1] > n)
<1> DEFINE S == {i \in 1 .. m + 1 : i = m + 1 \/ e[i] > n}
<1>1. S \subseteq Nat /\ m + 1 \in S
  OBVIOUS
<1>2. PICK g \in S : \A y \in S : g <= y
  BY <1>1, LeastNumber
<1> DEFINE f == g - 1
<1>3. f \in 0 .. m /\ f \in Nat /\ g \in 1 .. m + 1
  BY <1>2
<1>4. f < m => e[f + 1] > n
  BY <1>2, <1>3
<1>5. ASSUME NEW i \in 1 .. f  PROVE i \in 1 .. m /\ e[i] <= n
  <2>1. i \in 1 .. m /\ i < g /\ i \in 1 .. m + 1
    BY <1>3
  <2>2. i \notin S
    BY <1>2, <2>1
  <2> QED  BY <2>1, <2>2
<1>6. e[f] <= n
  BY <1>3, <1>5
<1>7. ASSUME NEW i \in 1 .. m, e[i] <= n  PROVE i \in 1 .. f
  <2>1. CASE f = m
    BY <1>7, <2>1
  <2>2. CASE f < m
    <3>1. i < f + 1 \/ e[f + 1] <= e[i]
      BY <1>3, <2>2
    <3>2. e[i] \in Int /\ e[f + 1] \in Int
      BY <1>3, <2>2
    <3> QED  BY <1>3, <1>4, <1>7, <2>2, <3>1, <3>2
  <2> QED  BY <1>3, <2>1, <2>2
<1>8. {i \in 1 .. m : e[i] <= n} = 1 .. f
  BY <1>5, <1>7
<1>9. Cardinality(1 .. f) = f
  <2>1. Cardinality(1 .. f) = IF 1 > f THEN 0 ELSE f - 1 + 1
    BY <1>3, FS_Interval
  <2> QED  BY <1>3, <2>1
<1> QED  BY <1>3, <1>4, <1>6, <1>8, <1>9

\* Every byte of a chunk is in one of its packets.
LEMMA ByteIs ==
    ASSUME NEW m \in Nat, NEW e \in [0 .. m -> Int], e[0] = 0, NEW k \in 1 .. e[m]
    PROVE  \E i \in 1 .. m : e[i - 1] < k /\ k <= e[i]
<1> DEFINE S == {i \in 0 .. m : k <= e[i]}
<1>1. S \subseteq Nat /\ m \in S
  OBVIOUS
<1>2. PICK i \in S : \A y \in S : i <= y
  BY <1>1, LeastNumber
<1>3. i \in 1 .. m /\ k <= e[i]
  BY <1>2
<1>4. i - 1 \in 0 .. m /\ i - 1 \notin S
  BY <1>2, <1>3
<1>5. e[i - 1] \in Int /\ ~(k <= e[i - 1])
  BY <1>4
<1> QED  BY <1>3, <1>5

\* The chunk of a stretch: its first packets, and where they end.
LEMMA ChunkIs ==
    ASSUME NEW l, NEW w, NEW to, NEW first, Stretch(l, w, to, first), l.current > 1,
           NEW at \in [0 .. Len(l.slots) -> Nat], Placed(l, at, first), at[0] = w
    PROVE  LET ch == Chunk(l)
               m  == Least(l.current - 1, MaxChunks)
           IN  /\ m \in 1 .. l.current - 1
               /\ Len(ch) = m /\ DOMAIN ch = 1 .. m
               /\ \A i \in 1 .. m : ch[i] = l.slots[i]
               /\ Ends(ch) = [i \in 0 .. m |-> at[i] - w]
<1> DEFINE c == l.current
           m == Least(c - 1, MaxChunks)
           ch == Chunk(l)
           q == [i \in 1 .. m |-> Left(ch[i])]
           g == [i \in 0 .. m |-> at[i] - w]
<1>1. /\ l.slots \in Seq(PacketType) /\ Len(l.slots) \in Nat /\ c \in 1 .. Len(l.slots) /\ c > 1
      /\ Pending(l) = 1 .. c - 1 /\ w \in Nat
  BY PendingIs
<1>2. m \in 1 .. c - 1 /\ m \in Nat /\ m < Len(l.slots)
  BY <1>1, JobsAssumption DEF Least
<1>3. Cardinality(1 .. c - 1) = c - 1
  <2>1. Cardinality(1 .. c - 1) = IF 1 > c - 1 THEN 0 ELSE (c - 1) - 1 + 1
    <3>1. 1 \in Int /\ c - 1 \in Int
      BY <1>1
    <3> HIDE DEF c
    <3> QED  BY <3>1, FS_Interval
  <2> QED  BY <1>1, <2>1
<1>4. ch = [i \in 1 .. m |-> l.slots[i]]
  BY <1>1, <1>3 DEF Chunk, Pending
<1> HIDE DEF m
<1>5. Len(ch) = m /\ DOMAIN ch = 1 .. m /\ \A i \in 1 .. m : ch[i] = l.slots[i]
  BY <1>2, <1>4
<1> HIDE DEF ch
<1>6. ASSUME NEW i \in 1 .. m
      PROVE  /\ Left(ch[i]) \in Int /\ Left(ch[i]) = at[i] - at[i - 1]
             /\ i \in 0 .. Len(l.slots) /\ i - 1 \in 0 .. Len(l.slots)
  <2>1. i \in 1 .. Len(l.slots) /\ i < c /\ i \in 0 .. Len(l.slots) /\ i - 1 \in 0 .. Len(l.slots)
    BY <1>1, <1>2
  <2>2. /\ l.slots[i].base + l.slots[i].off = at[i - 1]
        /\ l.slots[i].base + l.slots[i].len = at[i]
    BY <2>1 DEF Placed
  <2>3. l.slots[i].base \in Nat /\ l.slots[i].off \in Nat /\ l.slots[i].len \in Nat
    <3>1. l.slots[i] \in PacketType
      BY <1>1, <2>1
    <3> QED  BY <3>1, JobsAssumption DEF PacketType
  <2>4. Left(ch[i]) = l.slots[i].len - l.slots[i].off
    BY <1>5 DEF Left
  <2>5. l.slots[i].len - l.slots[i].off = at[i] - at[i - 1]
    <3> DEFINE b == l.slots[i].base
               o == l.slots[i].off
               e == l.slots[i].len
    <3>1. b \in Nat /\ o \in Nat /\ e \in Nat /\ b + o = at[i - 1] /\ b + e = at[i]
      BY <2>2, <2>3
    <3> HIDE DEF b, o, e
    <3>2. e - o = (b + e) - (b + o)
      BY <3>1
    <3> QED  BY <3>1, <3>2 DEF b, o, e
  <2>6. l.slots[i].len - l.slots[i].off \in Int
    BY <2>3
  <2> QED  BY <2>1, <2>4, <2>5, <2>6
<1>7. q \in Seq(Int) /\ Len(q) = m /\ \A i \in 1 .. m : q[i] = Left(ch[i])
  BY <1>2, <1>6
<1>8. g \in [0 .. m -> Int] /\ g[0] = 0 /\ \A i \in 0 .. m : g[i] = at[i] - w
  BY <1>1, <1>2
<1> HIDE DEF q, g
<1>9. \A i \in 1 .. m : g[i] = g[i - 1] + q[i]
  <2> SUFFICES ASSUME NEW i \in 1 .. m  PROVE g[i] = g[i - 1] + q[i]
    OBVIOUS
  <2>1. i \in 0 .. m /\ i - 1 \in 0 .. m
    BY <1>2
  <2>2. at[i] \in Nat /\ at[i - 1] \in Nat
    BY <1>6
  <2> QED  BY <1>1, <1>6, <1>7, <1>8, <2>1, <2>2, SMTT(30)
<1>10. Totals(q) = g
  BY <1>7, <1>8, <1>9, TotalsAre
<1>11. Ends(ch) = Totals(q)
  BY <1>5 DEF Ends, q
<1> QED  BY <1>2, <1>5, <1>10, <1>11 DEF g, m, ch

\* No two packets of a stretch start at the same byte.
LEMMA BasesApart ==
    ASSUME NEW l, NEW from, NEW to, NEW first \in BOOLEAN, Stretch(l, from, to, first)
    PROVE  /\ \A i \in 1 .. l.current - 1 :
                /\ l.slots[i].base \in Nat /\ l.slots[i].base < to
                /\ ~first => from <= l.slots[i].base
           /\ \A i, k \in 1 .. l.current - 1 :
                i # k => l.slots[i].base # l.slots[k].base
<1> DEFINE c == l.current
           n == Len(l.slots)
           B(i) == l.slots[i].base
<1>1. l.slots \in Seq(PacketType) /\ n \in Nat /\ c \in 1 .. n /\ from \in Nat /\ to \in Nat
  BY PendingIs
<1>2. PICK at \in [0 .. n -> Nat] :
         /\ Placed(l, at, first)
         /\ at[0] = from /\ at[c - 1] = to /\ at[n] = to
  BY DEF Stretch
<1>3. ASSUME NEW i \in 1 .. c - 1
      PROVE  /\ B(i) \in Nat /\ B(i) <= at[i - 1] /\ at[i - 1] < at[i] /\ at[i] <= to
             /\ from <= at[i - 1] /\ (i > 1 \/ ~first => B(i) = at[i - 1])
             /\ at[i] \in Nat /\ at[i - 1] \in Nat
  <2>1. /\ i \in 1 .. n /\ i < c /\ i \in 0 .. n /\ i - 1 \in 0 .. n /\ c - 1 \in 0 .. n
        /\ i <= c - 1 /\ 0 \in 0 .. n /\ 0 <= i - 1
    BY <1>1
  <2>2. /\ at[i - 1] < at[i] /\ l.slots[i].base + l.slots[i].off = at[i - 1]
        /\ i > 1 \/ ~first => l.slots[i].off = 0
    BY <1>2, <2>1 DEF Placed
  <2>3. at[i] <= at[c - 1] /\ at[0] <= at[i - 1]
    BY <1>2, <2>1 DEF Placed
  <2>4. l.slots[i].base \in Nat /\ l.slots[i].off \in Nat
    <3>1. l.slots[i] \in PacketType
      BY <1>1, <2>1
    <3> QED  BY <3>1, JobsAssumption DEF PacketType
  <2>5. at[i] \in Nat /\ at[i - 1] \in Nat
    BY <2>1
  <2> QED  BY <1>2, <2>2, <2>3, <2>4, <2>5
<1>4. ASSUME NEW i \in 1 .. c - 1, NEW k \in 1 .. c - 1, i < k
      PROVE  B(i) < B(k)
  <2>1. i \in 0 .. n /\ k - 1 \in 0 .. n /\ i <= k - 1 /\ k > 1
    BY <1>1, <1>4
  <2>2. at[i] <= at[k - 1]
    BY <1>2, <2>1 DEF Placed
  <2>3. B(i) \in Nat /\ B(i) < at[i] /\ at[i] \in Nat
    BY <1>3
  <2>4. B(k) = at[k - 1] /\ at[k - 1] \in Nat
    BY <1>3, <2>1
  <2> QED  BY <2>2, <2>3, <2>4
<1>5. ASSUME NEW i \in 1 .. c - 1, NEW k \in 1 .. c - 1, i # k
      PROVE  B(i) # B(k)
  <2>1. i < k \/ k < i
    BY <1>1, <1>5
  <2>2. B(i) \in Nat /\ B(k) \in Nat
    BY <1>3
  <2> QED  BY <1>4, <2>1, <2>2
<1>6. ASSUME NEW i \in 1 .. c - 1
      PROVE  B(i) \in Nat /\ B(i) < to /\ (~first => from <= B(i))
  <2>1. /\ B(i) \in Nat /\ B(i) <= at[i - 1] /\ at[i - 1] < at[i] /\ at[i] <= to
        /\ from <= at[i - 1] /\ (~first => B(i) = at[i - 1])
        /\ at[i] \in Nat /\ at[i - 1] \in Nat
    BY <1>3
  <2> HIDE DEF B
  <2> QED  BY <1>1, <2>1
<1> QED  BY <1>5, <1>6

\* Sending n bytes of a stretch, up to the end of the chunk: they are the
\* next bytes of the stream, and the list is the stretch behind them.
LEMMA TookRun ==
    ASSUME NEW l, NEW w, NEW to, NEW first \in BOOLEAN, Stretch(l, w, to, first),
           l.current > 1, NEW avail \in Nat, avail > 0
    PROVE  LET ch == Chunk(l)
               n  == Least(Ends(ch)[Len(ch)], avail)
               r  == Took(l, ch, n)
           IN  /\ n \in 1 .. avail /\ n <= to - w
               /\ \A k \in 1 .. n : ByteOf(ch, k) = w + k
               /\ Stretch(r, w + n, to, TRUE)
               /\ \E f \in 0 .. l.current - 1 :
                    /\ {k \in DOMAIN ch : Ends(ch)[k] <= n} = 1 .. f
                    /\ \A i \in 1 .. f : ch[i] = l.slots[i]
                    /\ r.current = l.current - f
                    /\ \A i \in 1 .. r.current - 1 :
                         /\ r.slots[i].base = l.slots[i + f].base
                         /\ r.slots[i].cls = l.slots[i + f].cls
<1> DEFINE c == l.current
           N == Len(l.slots)
           m == Least(c - 1, MaxChunks)
           ch == Chunk(l)
           n == Least(Ends(ch)[Len(ch)], avail)
           r == Took(l, ch, n)
<1>1. /\ l \in ListType /\ l.slots \in Seq(PacketType) /\ N \in Nat /\ c \in 1 .. N /\ c > 1
      /\ w \in Nat /\ to \in Nat /\ w < to
  BY PendingIs
<1>2. PICK at \in [0 .. N -> Nat] :
         /\ Placed(l, at, first)
         /\ at[0] = w /\ at[c - 1] = to /\ at[N] = to
  BY DEF Stretch
<1> DEFINE e == [i \in 0 .. m |-> at[i] - w]
<1>3. /\ m \in 1 .. c - 1 /\ Len(ch) = m /\ DOMAIN ch = 1 .. m
      /\ \A i \in 1 .. m : ch[i] = l.slots[i]
      /\ Ends(ch) = e
  BY <1>2, ChunkIs
<1>4. m \in Nat /\ m < N
  BY <1>1, <1>3
<1> HIDE DEF m, ch
<1>5. /\ e \in [0 .. m -> Int] /\ e[0] = 0 /\ \A i \in 0 .. m : e[i] = at[i] - w
  BY <1>1, <1>2, <1>4, SMTT(30)
<1> HIDE DEF e
<1>6. \A i, k \in 0 .. N : i <= k => at[i] <= at[k]
  BY <1>2 DEF Placed
<1>7. ASSUME NEW i \in 1 .. c - 1
      PROVE  /\ l.slots[i] \in PacketType /\ l.slots[i].used /\ at[i - 1] < at[i]
             /\ l.slots[i].base + l.slots[i].off = at[i - 1]
             /\ l.slots[i].base + l.slots[i].len = at[i]
             /\ i > 1 \/ ~first => l.slots[i].off = 0
             /\ at[i] \in Nat /\ at[i - 1] \in Nat
  <2>1. i \in 1 .. N /\ i < c /\ i \in 0 .. N /\ i - 1 \in 0 .. N
    BY <1>1
  <2>2. l.slots[i] \in PacketType
    BY <1>1, <2>1
  <2> QED  BY <1>2, <2>1, <2>2 DEF Placed
<1>8. \A i, k \in 0 .. m : i <= k => e[i] <= e[k]
  <2> SUFFICES ASSUME NEW i \in 0 .. m, NEW k \in 0 .. m, i <= k  PROVE e[i] <= e[k]
    OBVIOUS
  <2>1. i \in 0 .. N /\ k \in 0 .. N
    BY <1>1, <1>4
  <2>2. at[i] <= at[k] /\ at[i] \in Nat /\ at[k] \in Nat
    BY <1>6, <2>1
  <2> QED  BY <1>1, <1>5, <2>2
<1>9. e[m] >= 1 /\ e[m] <= to - w /\ e[m] \in Nat
  <2>1. 1 \in 0 .. m /\ m \in 0 .. m /\ 1 <= m /\ 1 \in 1 .. c - 1 /\ 1 - 1 = 0
    BY <1>1, <1>3, <1>4
  <2>2. e[1] <= e[m] /\ e[1] = at[1] - w /\ e[m] = at[m] - w
    BY <1>5, <1>8, <2>1
  <2>3. at[0] < at[1] /\ at[1] \in Nat
    BY <1>7, <2>1
  <2>4. m \in 0 .. N /\ c - 1 \in 0 .. N /\ m <= c - 1
    BY <1>1, <1>3, <1>4
  <2>5. at[m] <= at[c - 1] /\ at[m] \in Nat
    BY <1>6, <2>4
  <2> QED  BY <1>1, <1>2, <2>2, <2>3, <2>5, SMTT(30)
<1>10. n \in 1 .. avail /\ n <= e[m] /\ n <= to - w /\ n \in Nat
  BY <1>1, <1>3, <1>9 DEF Least
<1>11. PICK f \in 0 .. m : /\ {i \in 1 .. m : e[i] <= n} = 1 .. f
                           /\ Cardinality({i \in 1 .. m : e[i] <= n}) = f
                           /\ e[f] <= n /\ (f < m => e[f + 1] > n)
  <2>1. e[0] <= n
    BY <1>5, <1>10
  <2> HIDE DEF n
  <2> QED  BY <1>4, <1>5, <1>8, <1>10, <2>1, FullIs
<1> HIDE DEF n
<1>12. ASSUME NEW k \in 1 .. n  PROVE ByteOf(ch, k) = w + k
  <2> DEFINE Here(i) == i \in 1 .. m /\ e[i - 1] < k /\ k <= e[i]
             i == CHOOSE i \in 1 .. m : e[i - 1] < k /\ k <= e[i]
  <2>1. k \in 1 .. e[m]
    BY <1>9, <1>10
  <2>2. \E x \in 1 .. m : e[x - 1] < k /\ k <= e[x]
    BY <1>4, <1>5, <2>1, ByteIs
  <2>3. i \in 1 .. m
    BY <2>2
  <2>4. ByteOf(ch, k) = ch[i].base + ch[i].off + (k - e[i - 1])
    BY <1>3 DEF ByteOf
  <2> HIDE DEF i
  <2>5. i \in 1 .. c - 1 /\ i - 1 \in 0 .. m
    BY <1>1, <1>3, <1>4, <2>3
  <2>6. ch[i].base + ch[i].off = at[i - 1] /\ at[i - 1] \in Nat
    BY <1>3, <1>7, <2>3, <2>5
  <2>7. e[i - 1] = at[i - 1] - w
    BY <1>5, <2>5
  <2> QED  BY <1>1, <1>10, <2>4, <2>6, <2>7
<1> DEFINE part == n - e[f]
           t == Queued(l.slots, NoPacket, f)
           q == [slots |-> t, current |-> c - f]
<1>13. /\ f \in 0 .. c - 1 /\ f \in 0 .. N /\ f + 1 \in 0 .. N /\ f \in Nat
       /\ e[f] = at[f] - w /\ at[f] \in Nat /\ part \in Nat /\ w + n = at[f] + part
  <2>1. f \in 0 .. c - 1 /\ f \in 0 .. N /\ f + 1 \in 0 .. N /\ f \in Nat
    BY <1>1, <1>3, <1>4
  <2>2. e[f] = at[f] - w /\ at[f] \in Nat
    BY <1>5, <2>1
  <2> QED  BY <1>1, <1>10, <1>11, <2>1, <2>2
<1>sizes. /\ c \in Nat /\ N \in Nat /\ f \in Nat /\ m \in Nat
          /\ c > 1 /\ f <= m /\ m <= c - 1 /\ c <= N
  BY <1>1, <1>3, <1>4, <1>13
<1> HIDE DEF c, N
<1>14. /\ f < m => w + n < at[f + 1] /\ f + 1 \in 1 .. c - 1
       /\ f = m => part = 0
       /\ w + n <= at[f + 1] /\ at[f + 1] \in Nat
  <2>1. at[f + 1] \in Nat /\ at[f] <= at[f + 1]
    BY <1>6, <1>13
  <2>2. ASSUME f < m  PROVE w + n < at[f + 1] /\ f + 1 \in 1 .. c - 1
    <3>1. f + 1 \in 0 .. m /\ f + 1 \in 1 .. c - 1
      BY <1>sizes, <2>2
    <3> QED  BY <1>1, <1>5, <1>10, <1>11, <2>1, <2>2, <3>1
  <2>3. ASSUME f = m  PROVE part = 0
    BY <1>9, <1>10, <1>11, <2>3
  <2>4. f < m \/ f = m
    BY <1>4
  <2> QED  BY <1>1, <1>10, <1>13, <2>1, <2>2, <2>3, <2>4, SMTT(30)
<1>15. r = IF part = 0 THEN q ELSE [q EXCEPT !.slots[1].off = @ + part]
  <2>1. {k \in DOMAIN ch : Ends(ch)[k] <= n} = {k \in 1 .. m : e[k] <= n}
    BY <1>3
  <2>2. Cardinality({k \in DOMAIN ch : Ends(ch)[k] <= n}) = f /\ Ends(ch)[f] = e[f]
    BY <1>3, <1>11, <2>1
  <2>3. HeadsToQueue(l, NoPacket, f) = q
    BY DEF HeadsToQueue, Queued, c
  <2> QED  BY <2>2, <2>3 DEF Took, TookN
<1>16. /\ t \in Seq(PacketType) /\ Len(t) = N
       /\ \A i \in 1 .. N - f : t[i] = l.slots[i + f]
       /\ \A i \in N - f + 1 .. N : t[i] = NoPacket
  <2>1. l.slots \in Seq(PacketType) /\ NoPacket \in PacketType /\ f \in 0 .. Len(l.slots)
    BY <1>1, <1>13, NoPacketType DEF N
  <2> QED  BY <2>1, QueueFacts DEF N
<1> HIDE DEF t
<1> DEFINE p == IF part = 0 THEN t[1] ELSE [t[1] EXCEPT !.off = @ + part]
           u == [t EXCEPT ![1] = p]
<1>17. r = [slots |-> u, current |-> c - f]
  <2>1. CASE part = 0
    <3>1. u = t
      BY <1>1, <1>16, <2>1
    <3> HIDE DEF u
    <3> QED  BY <1>15, <2>1, <3>1
  <2>2. CASE part # 0
    <3>1. [q EXCEPT !.slots[1].off = @ + part] =
            [slots |-> [t EXCEPT ![1] = [t[1] EXCEPT !.off = @ + part]], current |-> c - f]
      OBVIOUS
    <3> QED  BY <1>15, <2>2, <3>1
  <2> QED  BY <2>1, <2>2
<1> HIDE DEF r
<1>18. ASSUME f + 1 < c
       PROVE  /\ p \in PacketType /\ p.used /\ p.base + p.off = w + n
              /\ p.base + p.len = at[f + 1] /\ w + n < at[f + 1]
              /\ p.base = l.slots[f + 1].base /\ p.cls = l.slots[f + 1].cls
  <2> DEFINE o == l.slots[f + 1]
  <2>1. f + 1 \in 1 .. c - 1 /\ 1 \in 1 .. N - f /\ (f + 1) - 1 = f
    BY <1>1, <1>13, <1>18
  <2>2. t[1] = o
    BY <1>16, <2>1
  <2>3. /\ o \in PacketType /\ o.used /\ at[f] < at[f + 1]
        /\ o.base + o.off = at[f] /\ o.base + o.len = at[f + 1]
    BY <1>7, <2>1
  <2>4. w + n < at[f + 1]
    <3>1. CASE f < m
      BY <1>14, <3>1
    <3>2. CASE f = m
      BY <1>13, <1>14, <2>3, <3>2
    <3> QED  BY <1>4, <3>1, <3>2
  <2>5. o = [used |-> o.used, base |-> o.base, len |-> o.len, off |-> o.off, cls |-> o.cls]
        /\ o.base \in Nat /\ o.len \in 0 .. MaxStream /\ o.off \in Nat /\ MaxStream \in Nat
    <3>1. MaxStream \in Nat
      BY JobsAssumption
    <3> HIDE DEF o
    <3> QED  BY <2>3, <3>1 DEF PacketType
  <2> HIDE DEF o
  <2>6. CASE part = 0
    BY <1>13, <2>2, <2>3, <2>4, <2>6 DEF o
  <2>7. CASE part # 0
    <3>1. p = [used |-> o.used, base |-> o.base, len |-> o.len, off |-> o.off + part,
               cls |-> o.cls]
      BY <2>2, <2>5, <2>7
    <3>2. /\ p.used = o.used /\ p.base = o.base /\ p.len = o.len /\ p.cls = o.cls
          /\ p.off = o.off + part
      BY <3>1
    <3>3. o.base + (o.off + part) = w + n /\ o.off + part \in 0 .. MaxStream
      <4> DEFINE b == o.base
                 x == o.off
                 y == o.len
      <4>1. /\ b \in Nat /\ x \in Nat /\ y \in Nat /\ y <= MaxStream /\ MaxStream \in Nat
            /\ b + x = at[f] /\ b + y = at[f + 1]
        BY <2>3, <2>5
      <4>2. part \in Nat /\ w + n = at[f] + part /\ w + n < at[f + 1]
        BY <1>13, <2>4
      <4> HIDE DEF b, x, y, part
      <4>3. b + (x + part) = w + n /\ x + part \in 0 .. MaxStream
        BY <4>1, <4>2
      <4> QED  BY <4>3 DEF b, x, y
    <3>4. p \in PacketType
      <4>1. /\ o.used \in BOOLEAN /\ o.base \in 0 .. MaxStream /\ o.len \in 0 .. MaxStream
            /\ o.cls \in {"copy", "auto", "own"}
        BY <2>3 DEF PacketType
      <4> DEFINE y == o.off + part
      <4>2. y \in 0 .. MaxStream
        BY <3>3
      <4>3. p = [used |-> o.used, base |-> o.base, len |-> o.len, off |-> y, cls |-> o.cls]
        BY <3>1
      <4> HIDE DEF y, p
      <4> QED  BY <4>1, <4>2, <4>3 DEF PacketType
    <3> HIDE DEF p
    <3> QED  BY <2>3, <2>4, <3>2, <3>3, <3>4 DEF o
  <2> QED  BY <2>6, <2>7
<1>19. ASSUME ~(f + 1 < c)  PROVE p = NoPacket /\ t[1] = NoPacket /\ f = m /\ c = f + 1
  <2>1. f = m /\ c = f + 1
    BY <1>1, <1>3, <1>13, <1>19
  <2>2. 1 \in 1 .. N - f /\ 1 + f = c
    BY <1>1, <2>1
  <2>3. t[1] = l.slots[c]
    BY <1>16, <2>2
  <2>4. l.slots[c] = NoPacket
    BY <1>1, <1>2 DEF Placed, c, N
  <2> QED  BY <1>14, <2>1, <2>3, <2>4
<1>20. p \in PacketType
  BY <1>18, <1>19, NoPacketType
<1> HIDE DEF p
<1>21. /\ u \in Seq(PacketType) /\ Len(u) = N /\ u[1] = p
       /\ \A i \in 2 .. N - f : u[i] = l.slots[i + f]
       /\ \A i \in N - f + 1 .. N : u[i] = NoPacket
  <2>1. u \in Seq(PacketType) /\ Len(u) = N /\ u[1] = p /\ \A i \in 2 .. N : u[i] = t[i]
    BY <1>1, <1>16, <1>20
  <2> HIDE DEF u
  <2>2. ASSUME NEW i \in 2 .. N - f  PROVE u[i] = l.slots[i + f]
    <3>1. i \in 2 .. N /\ i \in 1 .. N - f
      BY <1>1, <1>13
    <3> QED  BY <1>16, <2>1, <3>1
  <2>3. ASSUME NEW i \in N - f + 1 .. N  PROVE u[i] = NoPacket
    <3>1. i \in 2 .. N
      BY <1>1, <1>13
    <3> QED  BY <1>16, <2>1, <3>1
  <2> QED  BY <2>1, <2>2, <2>3
<1> HIDE DEF u
<1> DEFINE at2 == [i \in 0 .. N |-> IF i = 0 THEN w + n ELSE IF i <= N - f THEN at[i + f] ELSE to]
<1>22. /\ at2 \in [0 .. N -> Nat] /\ at2[0] = w + n
       /\ \A i \in 1 .. N - f : at2[i] = at[i + f]
       /\ \A i \in N - f + 1 .. N : at2[i] = to
  <2>1. \A i \in 0 .. N : (IF i = 0 THEN w + n ELSE IF i <= N - f THEN at[i + f] ELSE to) \in Nat
    <3> SUFFICES ASSUME NEW i \in 0 .. N
                 PROVE  (IF i = 0 THEN w + n ELSE IF i <= N - f THEN at[i + f] ELSE to) \in Nat
      OBVIOUS
    <3>1. i <= N - f => i + f \in 0 .. N
      BY <1>1, <1>13
    <3> QED  BY <1>1, <1>10, <3>1
  <2>2. at2 \in [0 .. N -> Nat] /\ at2[0] = w + n
    BY <1>1, <2>1, SMTT(30)
  <2>3. ASSUME NEW i \in 1 .. N - f  PROVE at2[i] = at[i + f]
    BY <1>1, <1>13
  <2>4. ASSUME NEW i \in N - f + 1 .. N  PROVE at2[i] = to
    BY <1>1, <1>13
  <2> HIDE DEF at2
  <2> QED  BY <2>2, <2>3, <2>4
<1> HIDE DEF at2
<1>23. \A i, k \in 0 .. N : i <= k => at2[i] <= at2[k]
  <2> SUFFICES ASSUME NEW i \in 0 .. N, NEW k \in 0 .. N, i <= k  PROVE at2[i] <= at2[k]
    OBVIOUS
  <2>1. ASSUME NEW x \in 1 .. N
        PROVE  at2[x] <= to /\ w + n <= at2[x] /\ at2[x] \in Nat
    <3>1. CASE x \in 1 .. N - f
      <4>1. x + f \in 0 .. N /\ f + 1 <= x + f /\ N \in 0 .. N /\ x + f <= N
        BY <1>1, <1>13, <3>1
      <4>2. at[x + f] <= at[N] /\ at[f + 1] <= at[x + f] /\ at[x + f] \in Nat
        BY <1>6, <1>13, <4>1
      <4>3. at2[x] = at[x + f]
        BY <1>22, <3>1
      <4> QED  BY <1>1, <1>2, <1>10, <1>14, <4>2, <4>3, SMTT(30)
    <3>2. CASE x \in N - f + 1 .. N
      BY <1>1, <1>10, <1>22, <3>2
    <3> QED  BY <1>1, <1>13, <3>1, <3>2
  <2>2. CASE i = 0
    <3>1. k = 0 \/ k \in 1 .. N
      OBVIOUS
    <3> QED  BY <1>1, <1>10, <1>22, <2>1, <2>2, <3>1
  <2>3. CASE i \in 1 .. N /\ k \in N - f + 1 .. N
    BY <1>22, <2>1, <2>3
  <2>4. CASE i \in 1 .. N /\ k \in 1 .. N - f
    <3>1. i \in 1 .. N - f /\ i + f \in 0 .. N /\ k + f \in 0 .. N /\ i + f <= k + f
      BY <1>1, <1>13, <2>4
    <3> QED  BY <1>6, <1>22, <2>4, <3>1
  <2> QED  BY <1>1, <1>13, <2>2, <2>3, <2>4
<1>24. ASSUME NEW i \in 1 .. N, i < c - f
       PROVE  /\ u[i].used /\ at2[i - 1] < at2[i]
              /\ u[i].base + u[i].off = at2[i - 1]
              /\ u[i].base + u[i].len = at2[i]
              /\ i > 1 => u[i].off = 0
  <2>0. i + f \in 1 .. c - 1 /\ i \in 1 .. N - f /\ (i + f) - 1 = (i - 1) + f /\ i + f > i - 1
    BY <1>sizes, <1>24
  <2>1. CASE i = 1
    <3>1. f + 1 < c /\ u[i] = p /\ at2[i - 1] = w + n /\ at2[i] = at[f + 1] /\ i - 1 = 0
      BY <1>1, <1>13, <1>21, <1>22, <1>24, <2>0, <2>1
    <3> QED  BY <1>18, <2>1, <3>1
  <2>2. CASE i > 1
    <3>1. i \in 2 .. N - f /\ i - 1 \in 1 .. N - f /\ i + f > 1
      BY <1>sizes, <2>0, <2>2
    <3>2. u[i] = l.slots[i + f] /\ at2[i] = at[i + f] /\ at2[i - 1] = at[(i - 1) + f]
      BY <1>21, <1>22, <2>0, <3>1
    <3>3. /\ l.slots[i + f].used /\ at[(i + f) - 1] < at[i + f]
          /\ l.slots[i + f].base + l.slots[i + f].off = at[(i + f) - 1]
          /\ l.slots[i + f].base + l.slots[i + f].len = at[i + f]
          /\ l.slots[i + f].off = 0
      BY <1>7, <2>0, <3>1
    <3> QED  BY <2>0, <3>2, <3>3
  <2> QED  BY <2>1, <2>2
<1>25. ASSUME NEW i \in 1 .. N, i >= c - f  PROVE u[i] = NoPacket
  <2>1. CASE i = 1
    <3>1. ~(f + 1 < c)
      BY <1>1, <1>13, <1>25, <2>1
    <3> QED  BY <1>19, <1>21, <2>1, <3>1
  <2>2. CASE i \in 2 .. N - f
    <3>1. i + f \in 1 .. N /\ i + f >= c
      BY <1>1, <1>13, <1>25, <2>2
    <3>2. l.slots[i + f] = NoPacket
      BY <1>2, <3>1 DEF Placed, c, N
    <3> QED  BY <1>21, <2>2, <3>2
  <2>3. CASE i \in N - f + 1 .. N
    BY <1>21, <2>3
  <2> QED  BY <1>1, <1>13, <2>1, <2>2, <2>3
<1>26. r \in ListType /\ r.slots = u /\ r.current = c - f /\ r.current \in 1 .. N
  <2>1. c - f \in 1 .. N /\ c - f \in Nat
    BY <1>1, <1>13
  <2>2. r.slots = u /\ r.current = c - f
    BY <1>17
  <2> QED  BY <1>17, <1>21, <2>1, <2>2 DEF ListType
<1>27. Placed(r, at2, TRUE)
  BY <1>21, <1>22, <1>23, <1>24, <1>25, <1>26 DEF Placed
<1>28. at2[r.current - 1] = to /\ at2[N] = to
  <2>1. CASE f = 0
    <3>1. c - 1 \in 1 .. N - f /\ N \in 1 .. N - f /\ r.current - 1 = c - 1
      BY <1>1, <1>26, <2>1
    <3> QED  BY <1>1, <1>2, <1>22, <2>1, <3>1
  <2>2. CASE f > 0 /\ f = c - 1
    <3>1. r.current - 1 = 0 /\ N \in N - f + 1 .. N /\ f = m
      BY <1>sizes, <1>26, <2>2
    <3>2. w + n = to
      BY <1>2, <1>13, <1>14, <2>2, <3>1
    <3> QED  BY <1>22, <3>1, <3>2
  <2>3. CASE f > 0 /\ f < c - 1
    <3>1. (c - f) - 1 \in 1 .. N - f /\ ((c - f) - 1) + f = c - 1 /\ N \in N - f + 1 .. N
      BY <1>sizes, <2>3
    <3> QED  BY <1>2, <1>22, <1>26, <3>1
  <2> QED  BY <1>sizes, <2>1, <2>2, <2>3
<1>29. Stretch(r, w + n, to, TRUE)
  BY <1>21, <1>22, <1>26, <1>27, <1>28 DEF Stretch
<1>30. {k \in DOMAIN ch : Ends(ch)[k] <= n} = 1 .. f /\ \A i \in 1 .. f : ch[i] = l.slots[i]
  BY <1>3, <1>4, <1>11
<1>31. ASSUME NEW i \in 1 .. r.current - 1
       PROVE  r.slots[i].base = l.slots[i + f].base /\ r.slots[i].cls = l.slots[i + f].cls
  <2>1. i \in 1 .. N - f /\ i < c - f
    BY <1>sizes, <1>26
  <2>2. CASE i = 1
    <3>1. f + 1 < c /\ i + f = f + 1
      BY <1>1, <1>13, <2>1, <2>2
    <3> QED  BY <1>18, <1>21, <1>26, <2>2, <3>1
  <2>3. CASE i > 1
    <3>1. i \in 2 .. N - f
      BY <2>1, <2>3
    <3> QED  BY <1>21, <1>26, <3>1
  <2> QED  BY <2>1, <2>2, <2>3
<1> QED  BY <1>10, <1>12, <1>13, <1>26, <1>29, <1>30, <1>31 DEF n, r, ch, c, N

-----------------------------------------------------------------------------
(* Job lists.  What a list of jobs may hold when the application only      *)
(* writes and shuts down.                                                  *)

EndJob     == [active |-> TRUE, flags |-> {"SHUTDOWN"}, ptr |-> NullPtr]
DataJob(l) == [active |-> TRUE, flags |-> {"WRITEV"}, ptr |-> ListPtr(l)]
DoneJob(l) == [active |-> FALSE, flags |-> {"WRITEV"}, ptr |-> ListPtr(l)]

JobType ==
    {NoJob, EndJob} \cup {DataJob(l) : l \in ListType} \cup {DoneJob(l) : l \in ListType}

\* A job with bytes to send, from+1 to `to'
Holds(s, from, to, first) ==
    \E l \in ListType : s = DataJob(l) /\ Stretch(l, from, to, first) /\ l.current > 1

\* A slot that is free
Spent(s) == s = NoJob \/ \E l \in ListType : s = DoneJob(l) /\ Empty(l)

\* A slot between two places of the stream
Fills(s, from, to, first) ==
    Holds(s, from, to, first) \/ (from = to /\ (s = EndJob \/ Spent(s)))

\* The buffers the library owns in the packets of a list, and of a job
OwnedIn(l) == {l.slots[i].base + 1 : i \in {k \in Pending(l) : Owned(l.slots[k].cls)}}
Buffers(s) == IF s.ptr.kind = "list" THEN OwnedIn(s.ptr.list) ELSE {}

\* What the kinds of jobs are made of.
LEMMA JobFields ==
    /\ NoJob \in JobType /\ EndJob \in JobType
    /\ ~NoJob.active /\ NoJob.flags = {} /\ NoJob.ptr = NullPtr
    /\ EndJob.active /\ EndJob.flags = {"SHUTDOWN"} /\ EndJob.ptr = NullPtr
    /\ NullPtr.kind = "null"
    /\ \A l : /\ DataJob(l).active /\ DataJob(l).flags = {"WRITEV"} /\ DataJob(l).ptr = ListPtr(l)
              /\ ~DoneJob(l).active /\ DoneJob(l).flags = {"WRITEV"} /\ DoneJob(l).ptr = ListPtr(l)
              /\ ListPtr(l).kind = "list" /\ ListPtr(l).list = l
    /\ \A l \in ListType : DataJob(l) \in JobType /\ DoneJob(l) \in JobType
    /\ {"WRITEV"} # {"SHUTDOWN"} /\ "WRITEV" \notin {"SHUTDOWN"} /\ "WRITEV" # "SENDFILE"
<1>1. \A l : /\ DataJob(l).active /\ DataJob(l).flags = {"WRITEV"} /\ DataJob(l).ptr = ListPtr(l)
             /\ ~DoneJob(l).active /\ DoneJob(l).flags = {"WRITEV"} /\ DoneJob(l).ptr = ListPtr(l)
             /\ ListPtr(l).kind = "list" /\ ListPtr(l).list = l
  BY DEF DataJob, DoneJob, ListPtr
<1>2. \A l \in ListType : DataJob(l) \in JobType /\ DoneJob(l) \in JobType
  BY DEF JobType
<1>3. NoJob \in JobType /\ EndJob \in JobType
  BY DEF JobType
<1>4. /\ ~NoJob.active /\ NoJob.flags = {} /\ NoJob.ptr = NullPtr
      /\ EndJob.active /\ EndJob.flags = {"SHUTDOWN"} /\ EndJob.ptr = NullPtr
      /\ NullPtr.kind = "null"
  BY DEF NoJob, EndJob, NullPtr
<1>5. {"WRITEV"} # {"SHUTDOWN"} /\ "WRITEV" \notin {"SHUTDOWN"} /\ "WRITEV" # "SENDFILE"
  OBVIOUS
<1> QED  BY <1>1, <1>2, <1>3, <1>4, <1>5

\* The four cases of a slot.
LEMMA FillsCases ==
    ASSUME NEW s, NEW from, NEW to, NEW first \in BOOLEAN, Fills(s, from, to, first)
    PROVE  \/ \E l \in ListType : s = DataJob(l) /\ Stretch(l, from, to, first) /\ l.current > 1
           \/ from = to /\ s = EndJob
           \/ from = to /\ s = NoJob
           \/ from = to /\ \E l \in ListType : s = DoneJob(l) /\ Empty(l)
BY DEF Fills, Holds, Spent

\* The buffers of a job: none unless it holds bytes, and then they begin
\* inside the job's stretch.
LEMMA BuffersAre ==
    ASSUME NEW s, NEW from \in Nat, NEW to, NEW first \in BOOLEAN, Fills(s, from, to, first)
    PROVE  /\ s \in JobType
           /\ \A x \in Buffers(s) : x \in Nat /\ 1 <= x /\ x <= to /\ (~first => from < x)
           /\ \A l : s = DataJob(l) => Buffers(s) = OwnedIn(l)
           /\ ~s.active \/ s = EndJob => Buffers(s) = {}
<1>0. \A l : Buffers(DataJob(l)) = OwnedIn(l) /\ Buffers(DoneJob(l)) = OwnedIn(l)
  BY JobFields DEF Buffers
<1>1. Buffers(NoJob) = {} /\ Buffers(EndJob) = {}
  BY JobFields DEF Buffers
<1>2. ASSUME NEW l \in ListType, Empty(l)  PROVE OwnedIn(l) = {}
  <2>1. \A i \in DOMAIN l.slots : ~l.slots[i].used
    BY <1>2, NoPacketType DEF Empty, ListType
  <2> QED  BY <2>1 DEF OwnedIn, Pending
<1>3. ASSUME NEW l \in ListType, s = DataJob(l), Stretch(l, from, to, first)
      PROVE  \A x \in Buffers(s) : x \in Nat /\ 1 <= x /\ x <= to /\ (~first => from < x)
  <2> SUFFICES ASSUME NEW x \in OwnedIn(l)
               PROVE  x \in Nat /\ 1 <= x /\ x <= to /\ (~first => from < x)
    BY <1>0, <1>3
  <2>1. PICK i \in Pending(l) : x = l.slots[i].base + 1
    BY DEF OwnedIn
  <2>2. i \in 1 .. l.current - 1 /\ to \in Nat
    BY <1>3, <2>1, PendingIs
  <2> DEFINE b == l.slots[i].base
  <2>3. b \in Nat /\ b < to /\ (~first => from <= b)
    BY <1>3, <2>2, BasesApart
  <2> HIDE DEF b
  <2>4. x = b + 1
    BY <2>1 DEF b
  <2> QED  BY <2>2, <2>3, <2>4
<1>4. CASE \E l \in ListType : s = DataJob(l) /\ Stretch(l, from, to, first) /\ l.current > 1
  <2>1. s \in JobType /\ s.active /\ s # EndJob
    BY <1>4, JobFields
  <2>2. \A l : s = DataJob(l) => Buffers(s) = OwnedIn(l)
    BY <1>0
  <2> QED  BY <1>3, <1>4, <2>1, <2>2
<1>5. CASE from = to /\ s = EndJob
  BY <1>0, <1>1, <1>5, JobFields
<1>6. CASE from = to /\ s = NoJob
  BY <1>0, <1>1, <1>6, JobFields
<1>7. CASE from = to /\ \E l \in ListType : s = DoneJob(l) /\ Empty(l)
  <2>1. Buffers(s) = {} /\ s \in JobType
    BY <1>0, <1>2, <1>7, JobFields
  <2> QED  BY <1>0, <2>1
<1> QED  BY <1>4, <1>5, <1>6, <1>7, FillsCases

\* A data packet that goes to a slot (ape_socket_queue_data).
Fed(s, p) ==
    [active |-> TRUE, flags |-> s.flags \cup {"WRITEV"},
     ptr |-> ListPtr(AddPacket(PacketList(s.ptr), p))]

\* It makes the slot's stretch longer, whatever was left in the slot.
LEMMA FeedRun ==
    ASSUME NEW s, NEW from \in Nat, NEW to \in Nat, NEW first \in BOOLEAN,
           Fills(s, from, to, first), s # EndJob,
           NEW p \in PacketType, p.used, p.base + p.off = to, to < p.base + p.len,
           s.active \/ ~first => p.off = 0
    PROVE  /\ Holds(Fed(s, p), from, p.base + p.len, first)
           /\ s.ptr.kind # "file"
           /\ s.active => "WRITEV" \in s.flags
           /\ Buffers(Fed(s, p)) = Buffers(s) \cup (IF Owned(p.cls) THEN {p.base + 1} ELSE {})
<1> DEFINE l == PacketList(s.ptr)
           r == AddPacket(l, p)
           new == p.base + p.len
<1>1. /\ Stretch(l, from, to, first) /\ (l.current > 1 => s.active)
      /\ s.flags \cup {"WRITEV"} = {"WRITEV"} /\ s.ptr.kind # "file" /\ Buffers(s) = OwnedIn(l)
      /\ s.active => "WRITEV" \in s.flags
  <2>1. CASE \E k \in ListType : s = DataJob(k) /\ Stretch(k, from, to, first) /\ k.current > 1
    <3>1. PICK k \in ListType : s = DataJob(k) /\ Stretch(k, from, to, first)
      BY <2>1
    <3>2. s.active /\ s.flags = {"WRITEV"} /\ s.ptr.kind = "list" /\ s.ptr.list = k
      BY <3>1, JobFields
    <3>3. l = k
      BY <3>2 DEF PacketList
    <3> QED  BY <3>1, <3>2, <3>3 DEF Buffers
  <2>2. CASE from = to /\ s = NoJob
    <3>1. s.ptr.kind = "null" /\ s.flags = {} /\ ~s.active
      BY <2>2, JobFields
    <3>2. Empty(l)
      BY <3>1, NewList DEF PacketList
    <3>3. OwnedIn(l) = {} /\ l.current = 1
      <4>1. \A i \in DOMAIN l.slots : ~l.slots[i].used
        BY <3>2, NoPacketType DEF Empty, ListType
      <4> QED  BY <3>2, <4>1 DEF OwnedIn, Pending, Empty
    <3>4. Stretch(l, from, to, first)
      BY <2>2, <3>2, EmptyStretch
    <3> QED  BY <3>1, <3>3, <3>4 DEF Buffers
  <2>3. CASE from = to /\ \E k \in ListType : s = DoneJob(k) /\ Empty(k)
    <3>1. PICK k \in ListType : s = DoneJob(k) /\ Empty(k)
      BY <2>3
    <3>2. ~s.active /\ s.flags = {"WRITEV"} /\ s.ptr.kind = "list" /\ s.ptr.list = k
      BY <3>1, JobFields
    <3>3. l = k
      BY <3>2 DEF PacketList
    <3>4. Stretch(l, from, to, first) /\ l.current = 1
      BY <2>3, <3>1, <3>3, EmptyStretch DEF Empty
    <3> QED  BY <3>2, <3>3, <3>4 DEF Buffers
  <2> QED  BY <2>1, <2>2, <2>3, FillsCases
<1> HIDE DEF l
<1>2. /\ l \in ListType /\ l.current \in 1 .. Len(l.slots) /\ Len(l.slots) \in Nat
      /\ Pending(l) = 1 .. l.current - 1
  BY <1>1, PendingIs
<1>3. l.current > 1 \/ ~first => p.off = 0
  BY <1>1
<1>4. /\ Stretch(r, from, new, first)
      /\ r.current = l.current + 1 /\ r.slots[l.current] = p
      /\ \A i \in 1 .. l.current - 1 : r.slots[i] = l.slots[i]
  BY <1>1, <1>3, AddRun
<1> HIDE DEF r
<1>5. Fed(s, p) = DataJob(r)
  BY <1>1 DEF Fed, DataJob, r, l
<1>6. r \in ListType /\ r.current > 1 /\ Pending(r) = 1 .. r.current - 1
  BY <1>2, <1>4, PendingIs
<1>7. Holds(Fed(s, p), from, new, first)
  BY <1>4, <1>5, <1>6 DEF Holds
<1>8. Buffers(Fed(s, p)) = OwnedIn(r)
  BY <1>5, JobFields DEF Buffers
<1>9. OwnedIn(r) = OwnedIn(l) \cup (IF Owned(p.cls) THEN {p.base + 1} ELSE {})
  <2>1. Pending(r) = Pending(l) \cup {l.current}
    BY <1>2, <1>4, <1>6
  <2>2. \A i \in Pending(l) : r.slots[i] = l.slots[i]
    BY <1>2, <1>4
  <2> QED  BY <1>4, <2>1, <2>2 DEF OwnedIn
<1> QED  BY <1>1, <1>7, <1>8, <1>9

QueueType == [slots : Seq(JobType), current : Nat]

\* The jobs fill the stream from pos[0] on, job j up to pos[j]; behind the
\* current one, c, there is none.
Lined(t, c, pos) ==
    /\ t \in Seq(JobType) /\ c \in 1 .. Len(t)
    /\ pos \in [0 .. Len(t) -> Nat]
    /\ \A i, k \in 0 .. Len(t) : i <= k => pos[i] <= pos[k]
    /\ \A j \in 1 .. Len(t) : Fills(t[j], pos[j - 1], pos[j], j = 1)
    /\ \A j \in c .. Len(t) : pos[j] = pos[Len(t)]
    /\ \A j \in c + 1 .. Len(t) : t[j] = NoJob

\* All the buffers the library owns in the slots of a job list
OwnedBy(t) == UNION {Buffers(t[j]) : j \in 1 .. Len(t)}

\* A list with a spare slot behind current
Spare(q) == IF q.current = Len(q.slots) THEN Grown(q.slots, NoJob, 2) ELSE q.slots

\* A job is a record of three fields.
LEMMA JobRecord ==
    ASSUME NEW s \in JobType
    PROVE  s = [active |-> s.active, flags |-> s.flags, ptr |-> s.ptr]
BY DEF JobType, NoJob, EndJob, DataJob, DoneJob

\* Writing one field of a job.
LEMMA FieldFacts ==
    ASSUME NEW fl, NEW y, NEW x
    PROVE  /\ [[active |-> TRUE, flags |-> fl, ptr |-> y] EXCEPT !.ptr = x] =
                [active |-> TRUE, flags |-> fl, ptr |-> x]
           /\ [[active |-> TRUE, flags |-> fl, ptr |-> y] EXCEPT !.active = FALSE] =
                [active |-> FALSE, flags |-> fl, ptr |-> y]
<1>1. \A v \in BOOLEAN : [[active |-> v, flags |-> fl, ptr |-> y] EXCEPT !.ptr = x] =
                           [active |-> v, flags |-> fl, ptr |-> x]
  OBVIOUS
<1>2. \A v, w \in BOOLEAN : [[active |-> v, flags |-> fl, ptr |-> y] EXCEPT !.active = w] =
                              [active |-> w, flags |-> fl, ptr |-> y]
  OBVIOUS
<1>3. TRUE \in BOOLEAN /\ FALSE \in BOOLEAN
  OBVIOUS
<1>4. [[active |-> TRUE, flags |-> fl, ptr |-> y] EXCEPT !.ptr = x] =
        [active |-> TRUE, flags |-> fl, ptr |-> x]
  BY <1>1, <1>3, Zenon
<1>5. [[active |-> TRUE, flags |-> fl, ptr |-> y] EXCEPT !.active = FALSE] =
        [active |-> FALSE, flags |-> fl, ptr |-> y]
  BY <1>2, <1>3, Zenon
<1> QED  BY <1>4, <1>5, Zenon

\* A job list grows by k slots.
LEMMA GrowBy ==
    ASSUME NEW s \in Seq(JobType), NEW k \in Nat
    PROVE  /\ Grown(s, NoJob, k) \in Seq(JobType)
           /\ Len(Grown(s, NoJob, k)) = Len(s) + k
           /\ \A i \in 1 .. Len(s) : Grown(s, NoJob, k)[i] = s[i]
           /\ \A i \in Len(s) + 1 .. Len(s) + k : Grown(s, NoJob, k)[i] = NoJob
<1>1. NoJob \in JobType
  BY JobFields
<1>2. Extended(JobType, s, NoJob, k, Grown(s, NoJob, k))
  BY <1>1, GrowFacts, Zenon
<1> QED  BY <1>2 DEF Extended

\* A job list grows by two slots.
LEMMA JobsGrow ==
    ASSUME NEW s \in Seq(JobType)
    PROVE  /\ Grown(s, NoJob, 2) \in Seq(JobType)
           /\ Len(Grown(s, NoJob, 2)) = Len(s) + 2
           /\ \A i \in 1 .. Len(s) : Grown(s, NoJob, 2)[i] = s[i]
           /\ \A i \in Len(s) + 1 .. Len(s) + 2 : Grown(s, NoJob, 2)[i] = NoJob
<1>1. \A k \in Nat : /\ Grown(s, NoJob, k) \in Seq(JobType)
                     /\ Len(Grown(s, NoJob, k)) = Len(s) + k
                     /\ \A i \in 1 .. Len(s) : Grown(s, NoJob, k)[i] = s[i]
                     /\ \A i \in Len(s) + 1 .. Len(s) + k : Grown(s, NoJob, k)[i] = NoJob
  BY GrowBy
<1>2. 2 \in Nat
  OBVIOUS
<1> QED  BY <1>1, <1>2, Zenon

\* The slots of a list with a spare one.
LEMMA SpareIs ==
    ASSUME NEW q \in QueueType, q.current \in 1 .. Len(q.slots)
    PROVE  /\ q.slots \in Seq(JobType) /\ Len(q.slots) \in Nat
           /\ Spare(q) \in Seq(JobType) /\ Len(Spare(q)) \in Nat
           /\ q.current + 1 \in 1 .. Len(Spare(q)) /\ Len(Spare(q)) >= Len(q.slots)
           /\ \A i \in 1 .. Len(q.slots) : Spare(q)[i] = q.slots[i]
           /\ \A i \in Len(q.slots) + 1 .. Len(Spare(q)) : Spare(q)[i] = NoJob
<1> DEFINE n == Len(q.slots)
           c == q.current
           g == Grown(q.slots, NoJob, 2)
<1>1. q.slots \in Seq(JobType) /\ n \in Nat /\ c \in 1 .. n
  BY DEF QueueType
<1>2. /\ g \in Seq(JobType) /\ Len(g) = n + 2 /\ \A i \in 1 .. n : g[i] = q.slots[i]
      /\ \A i \in n + 1 .. n + 2 : g[i] = NoJob
  BY <1>1, JobsGrow
<1> HIDE DEF g
<1>3. CASE c = n
  <2>1. Spare(q) = g
    BY <1>3 DEF Spare, g
  <2> QED  BY <1>1, <1>2, <1>3, <2>1
<1>4. CASE c # n
  <2>1. Spare(q) = q.slots
    BY <1>4 DEF Spare
  <2> QED  BY <1>1, <1>4, <2>1
<1> QED  BY <1>3, <1>4

\* ape_socket_job_get_slot's last lines: a slot becomes active and gets its type.
Marked(s, ty) == [active |-> TRUE, flags |-> s.flags \cup {ty}, ptr |-> s.ptr]

\* Marking a slot changes that slot only.
LEMMA MarkIs ==
    ASSUME NEW t, NEW c, NEW k, NEW ty
    PROVE  Mark([slots |-> t, current |-> c], k, ty) =
             [slots |-> [t EXCEPT ![k] = Marked(t[k], ty)], current |-> c]
<1> DEFINE l == [slots |-> t, current |-> c]
           x == Marked(t[k], ty)
<1>1. [l EXCEPT !.slots[k] = x] = [slots |-> [t EXCEPT ![k] = x], current |-> c]
  <2> HIDE DEF x
  <2> QED  OBVIOUS
<1>2. l.slots = t
  OBVIOUS
<1> HIDE DEF l
<1>3. Mark(l, k, ty) = [l EXCEPT !.slots[k] = x]
  BY <1>2, Zenon DEF Mark, Marked, x
<1> QED  BY <1>1, <1>3 DEF l

\* The slot ape_socket_job_get_slot finds for a type, and in which list.
Open(q, ty) ==
    (ty = "WRITEV" /\ "WRITEV" \in q.slots[q.current].flags) \/ ~q.slots[q.current].active
Place(q, ty) == IF Open(q, ty) THEN q.current ELSE q.current + 1
Room(q, ty)  == IF Open(q, ty) THEN q.slots ELSE Spare(q)

\* What ape_socket_job_get_slot returns, slot by slot.
LEMMA GetSlotIs ==
    ASSUME NEW q \in QueueType, q.current \in 1 .. Len(q.slots), NEW ty
    PROVE  /\ Room(q, ty) \in Seq(JobType) /\ Place(q, ty) \in 1 .. Len(Room(q, ty))
           /\ JobGetSlot(q, ty) =
                [slots |-> [Room(q, ty) EXCEPT ![Place(q, ty)] =
                              Marked(Room(q, ty)[Place(q, ty)], ty)],
                 current |-> Place(q, ty)]
<1> DEFINE n == Len(q.slots)
           c == q.current
           t == Spare(q)
           g == IF c = n THEN GrowPool(q, NoJob, 2) ELSE q
<1>1. q.slots \in Seq(JobType) /\ t \in Seq(JobType) /\ c + 1 \in 1 .. Len(t) /\ c \in 1 .. n
  BY SpareIs
<1>2. q = [slots |-> q.slots, current |-> c]
  BY DEF QueueType
<1>3. g = [slots |-> t, current |-> c]
  <2>1. GrowPool(q, NoJob, 2) = [slots |-> Grown(q.slots, NoJob, 2), current |-> c]
    <3>1. GrowPool(q, NoJob, 2) = [q EXCEPT !.slots = Grown(q.slots, NoJob, 2)]
      BY DEF GrowPool, Grown
    <3> QED  BY <1>2, <3>1
  <2> QED  BY <1>2, <2>1 DEF Spare
<1>4. [g EXCEPT !.current = @ + 1] = [slots |-> t, current |-> c + 1]
  BY <1>3
<1> HIDE DEF t
<1>5. CASE Open(q, ty)
  <2>1. JobGetSlot(q, ty) = Mark(q, c, ty)
    BY <1>5 DEF JobGetSlot, Open
  <2>2. Mark(q, c, ty) = [slots |-> [q.slots EXCEPT ![c] = Marked(q.slots[c], ty)], current |-> c]
    <3> DEFINE z == q.slots
    <3>1. z \in Seq(JobType) /\ c \in 1 .. Len(z) /\ q = [slots |-> z, current |-> c]
      BY <1>1, <1>2
    <3> HIDE DEF z, c
    <3>2. Mark([slots |-> z, current |-> c], c, ty) =
            [slots |-> [z EXCEPT ![c] = Marked(z[c], ty)], current |-> c]
      BY <3>1, MarkIs
    <3>3. Mark(q, c, ty) = Mark([slots |-> z, current |-> c], c, ty)
      BY <3>1
    <3> QED  BY <3>2, <3>3 DEF z, c
  <2> QED  BY <1>1, <1>5, <2>1, <2>2 DEF Room, Place
<1>6. CASE ~Open(q, ty)
  <2>1. JobGetSlot(q, ty) = Mark([g EXCEPT !.current = @ + 1], c + 1, ty)
    BY <1>6 DEF JobGetSlot, Open
  <2>2. JobGetSlot(q, ty) = Mark([slots |-> t, current |-> c + 1], c + 1, ty)
    BY <1>4, <2>1
  <2>3. Mark([slots |-> t, current |-> c + 1], c + 1, ty) =
          [slots |-> [t EXCEPT ![c + 1] = Marked(t[c + 1], ty)], current |-> c + 1]
    BY <1>1, MarkIs
  <2> QED  BY <1>1, <1>6, <2>2, <2>3 DEF Room, Place, t
<1> QED  BY <1>5, <1>6

\* The list of jobs once ape_socket_queue_data has put a packet in it.
LEMMA QueueIs ==
    ASSUME NEW q \in QueueType, q.current \in 1 .. Len(q.slots), NEW p
    PROVE  LET j == JobGetSlot(q, "WRITEV")
               t == Room(q, "WRITEV")
               k == Place(q, "WRITEV")
           IN  /\ CurrentPtr(j) = t[k].ptr
               /\ [j EXCEPT !.slots[j.current].ptr = ListPtr(AddPacket(PacketList(@), p))] =
                    [slots |-> [t EXCEPT ![k] = Fed(t[k], p)], current |-> k]
<1> DEFINE j == JobGetSlot(q, "WRITEV")
           t == Room(q, "WRITEV")
           k == Place(q, "WRITEV")
           a == Marked(t[k], "WRITEV")
           u == [t EXCEPT ![k] = a]
<1>1. t \in Seq(JobType) /\ k \in 1 .. Len(t) /\ j = [slots |-> u, current |-> k]
  BY GetSlotIs
<1> HIDE DEF j, t, k
<1>2. u[k] = a /\ a.ptr = t[k].ptr
  <2>1. a.ptr = t[k].ptr
    BY DEF Marked
  <2> HIDE DEF a
  <2> QED  BY <1>1, <2>1
<1>3. CurrentPtr(j) = t[k].ptr
  <2>1. CurrentPtr(j) = u[k].ptr
    BY <1>1 DEF CurrentPtr
  <2> QED  BY <1>2, <2>1
<1> DEFINE y == t[k].ptr
           fl == t[k].flags \cup {"WRITEV"}
           x == ListPtr(AddPacket(PacketList(y), p))
           b == [active |-> TRUE, flags |-> fl, ptr |-> x]
<1>4. Fed(t[k], p) = b
  BY DEF Fed
<1>5. [j EXCEPT !.slots[j.current].ptr = ListPtr(AddPacket(PacketList(@), p))] =
        [slots |-> [u EXCEPT ![k] = [u[k] EXCEPT !.ptr = ListPtr(AddPacket(PacketList(u[k].ptr), p))]],
         current |-> k]
  <2> HIDE DEF u
  <2>1. j.current = k /\ j.slots = u
    BY <1>1
  <2> QED  BY <1>1, <2>1
<1>6. [u[k] EXCEPT !.ptr = ListPtr(AddPacket(PacketList(u[k].ptr), p))] = b
  <2>1. a = [active |-> TRUE, flags |-> fl, ptr |-> y]
    BY DEF Marked
  <2> HIDE DEF a, y, fl
  <2>2. [a EXCEPT !.ptr = x] = b
    <3> HIDE DEF x
    <3>2. [[active |-> TRUE, flags |-> fl, ptr |-> y] EXCEPT !.ptr = x] = b
      BY FieldFacts, Zenon DEF b
    <3> HIDE DEF b
    <3> QED  BY <2>1, <3>2, Zenon
  <2>3. u[k].ptr = y
    BY <1>2 DEF y
  <2>4. u[k] = a
    BY <1>2
  <2> HIDE DEF u, b
  <2> QED  BY <2>2, <2>3, <2>4
<1>7. [u EXCEPT ![k] = b] = [t EXCEPT ![k] = b]
  <2> HIDE DEF a, b
  <2> QED  BY <1>1
<1> QED  BY <1>3, <1>4, <1>5, <1>6, <1>7 DEF j, t, k

\* A free slot is a place of no byte.
LEMMA NoJobFills ==
    ASSUME NEW x, NEW first  PROVE Fills(NoJob, x, x, first)
BY DEF Fills, Spent

\* A list keeps its places when it grows.
LEMMA SpareRun ==
    ASSUME NEW q \in QueueType, NEW pos, Lined(q.slots, q.current, pos)
    PROVE  /\ \E pos2 : /\ Lined(Spare(q), q.current, pos2)
                        /\ \A i \in 0 .. Len(q.slots) : pos2[i] = pos[i]
                        /\ pos2[Len(Spare(q))] = pos[Len(q.slots)]
           /\ OwnedBy(Spare(q)) = OwnedBy(q.slots)
<1> DEFINE n == Len(q.slots)
           c == q.current
           t == Spare(q)
           m == Len(t)
           new == [i \in 0 .. m |-> IF i <= n THEN pos[i] ELSE pos[n]]
<1>1. /\ c \in 1 .. n /\ pos \in [0 .. n -> Nat]
      /\ \A i, k \in 0 .. n : i <= k => pos[i] <= pos[k]
      /\ \A j \in 1 .. n : Fills(q.slots[j], pos[j - 1], pos[j], j = 1)
      /\ \A j \in c .. n : pos[j] = pos[n]
      /\ \A j \in c + 1 .. n : q.slots[j] = NoJob
  BY DEF Lined
<1>2. /\ n \in Nat /\ t \in Seq(JobType) /\ m \in Nat /\ m >= n
      /\ \A i \in 1 .. n : t[i] = q.slots[i]
      /\ \A i \in n + 1 .. m : t[i] = NoJob
  BY <1>1, SpareIs
<1> HIDE DEF n, c, t, m
<1>3. /\ new \in [0 .. m -> Nat] /\ \A i \in 0 .. n : new[i] = pos[i]
      /\ \A i \in n .. m : new[i] = pos[n]
  <2>1. pos[n] \in Nat
    BY <1>1, <1>2
  <2>2. ASSUME NEW i \in 0 .. m  PROVE (IF i <= n THEN pos[i] ELSE pos[n]) \in Nat
    BY <1>1, <1>2, <2>1
  <2>3. new \in [0 .. m -> Nat]
    BY <2>2
  <2> QED  BY <1>2, <2>3
<1> HIDE DEF new
<1>4. \A i, k \in 0 .. m : i <= k => new[i] <= new[k]
  <2> SUFFICES ASSUME NEW i \in 0 .. m, NEW k \in 0 .. m, i <= k  PROVE new[i] <= new[k]
    OBVIOUS
  <2>0. n \in 0 .. n
    BY <1>2
  <2>1. CASE k <= n
    BY <1>1, <1>2, <1>3, <2>1, SMTT(30)
  <2>2. CASE i <= n /\ ~(k <= n)
    <3>1. i \in 0 .. n /\ k \in n .. m
      BY <1>2, <2>2
    <3>2. new[i] = pos[i] /\ new[k] = pos[n] /\ pos[i] <= pos[n]
      BY <1>1, <1>3, <2>0, <3>1
    <3> QED  BY <3>2
  <2>3. CASE ~(i <= n)
    <3>1. i \in n .. m /\ k \in n .. m
      BY <1>2, <2>3
    <3>2. new[i] = pos[n] /\ new[k] = pos[n] /\ pos[n] \in Nat
      BY <1>1, <1>3, <2>0, <3>1
    <3> QED  BY <3>2
  <2> QED  BY <2>1, <2>2, <2>3
<1>5. ASSUME NEW j \in 1 .. m  PROVE Fills(t[j], new[j - 1], new[j], j = 1)
  <2>1. CASE j \in 1 .. n
    <3>1. j \in 0 .. n /\ j - 1 \in 0 .. n
      BY <1>2, <2>1
    <3>2. t[j] = q.slots[j] /\ new[j - 1] = pos[j - 1] /\ new[j] = pos[j]
      BY <1>2, <1>3, <2>1, <3>1
    <3>3. Fills(q.slots[j], pos[j - 1], pos[j], j = 1)
      BY <1>1, <2>1
    <3> QED  BY <3>2, <3>3
  <2>2. CASE j \in n + 1 .. m
    <3>1. j \in n .. m /\ j - 1 \in n .. m
      BY <1>2, <2>2
    <3>2. t[j] = NoJob /\ new[j - 1] = pos[n] /\ new[j] = pos[n]
      BY <1>2, <1>3, <2>2, <3>1
    <3> QED  BY <3>2, NoJobFills
  <2> QED  BY <1>2, <2>1, <2>2
<1>6. ASSUME NEW j \in c .. m  PROVE new[j] = new[m]
  <2>0. m \in n .. m /\ new[m] = pos[n]
    BY <1>2, <1>3
  <2>1. CASE j <= n
    <3>1. j \in c .. n /\ j \in 0 .. n
      BY <1>1, <1>2, <2>1
    <3> QED  BY <1>1, <1>3, <2>0, <3>1
  <2>2. CASE ~(j <= n)
    <3>1. j \in n .. m
      BY <1>1, <1>2, <2>2
    <3> QED  BY <1>3, <2>0, <3>1
  <2> QED  BY <2>1, <2>2
<1>7. ASSUME NEW j \in c + 1 .. m  PROVE t[j] = NoJob
  <2>1. j \in c + 1 .. n \/ j \in n + 1 .. m
    BY <1>1, <1>2
  <2>2. j \in c + 1 .. n => j \in 1 .. n
    BY <1>1, <1>2
  <2> QED  BY <1>1, <1>2, <2>1, <2>2
<1>8. c \in 1 .. m
  BY <1>1, <1>2
<1>9. Lined(t, c, new)
  BY <1>2, <1>3, <1>4, <1>5, <1>6, <1>7, <1>8 DEF Lined, m
<1>10. new[m] = pos[n]
  BY <1>2, <1>3
<1>11. OwnedBy(t) = OwnedBy(q.slots)
  <2>1. Buffers(NoJob) = {}
    BY JobFields DEF Buffers
  <2>2. \A j \in 1 .. m : j \in 1 .. n \/ Buffers(t[j]) = {}
    <3>1. \A j \in 1 .. m : j \in 1 .. n \/ j \in n + 1 .. m
      BY <1>2
    <3> QED  BY <1>2, <2>1, <3>1
  <2>3. \A j \in 1 .. n : j \in 1 .. m /\ t[j] = q.slots[j]
    BY <1>2
  <2> QED  BY <2>2, <2>3 DEF OwnedBy, m, n
<1> QED  BY <1>3, <1>9, <1>10, <1>11 DEF n, c, t, m

\* Slot k gets a new job.
Put(t, k, s) == [t EXCEPT ![k] = s]

\* A job that ends where the stream ends may go to slot k: current or the next.
Fits(t, c, pos, k, s, to) ==
    /\ Lined(t, c, pos) /\ k \in 1 .. Len(t) /\ (k = c \/ k = c + 1)
    /\ to \in Nat /\ pos[Len(t)] <= to /\ Fills(s, pos[k - 1], to, k = 1)

\* What it makes of the list.
Fitted(t, pos, k, s, to) ==
    LET u == Put(t, k, s)
    IN  /\ Len(u) = Len(t) /\ u[k] = s /\ u \in Seq(JobType)
        /\ \A j \in 1 .. Len(t) : j # k => u[j] = t[j]
        /\ \E pos2 : /\ Lined(u, k, pos2) /\ pos2[Len(t)] = to
                     /\ \A i \in 0 .. k - 1 : pos2[i] = pos[i]
        /\ Buffers(t[k]) \subseteq Buffers(s) => OwnedBy(u) = OwnedBy(t) \cup Buffers(s)

\* The places of the other jobs do not change.
LEMMA PutRun ==
    ASSUME NEW t, NEW c, NEW pos, NEW k, NEW s, NEW to, Fits(t, c, pos, k, s, to)
    PROVE  Fitted(t, pos, k, s, to)
<1> DEFINE n == Len(t)
           u == Put(t, k, s)
           new == [i \in 0 .. n |-> IF i < k THEN pos[i] ELSE to]
<1>1. /\ t \in Seq(JobType) /\ n \in Nat /\ c \in 1 .. n /\ pos \in [0 .. n -> Nat]
      /\ \A i, j \in 0 .. n : i <= j => pos[i] <= pos[j]
      /\ \A j \in 1 .. n : Fills(t[j], pos[j - 1], pos[j], j = 1)
      /\ \A j \in c .. n : pos[j] = pos[n]
      /\ \A j \in c + 1 .. n : t[j] = NoJob
  BY DEF Lined, Fits
<1>0. /\ k \in 1 .. n /\ (k = c \/ k = c + 1) /\ to \in Nat /\ pos[n] <= to
      /\ Fills(s, pos[k - 1], to, k = 1)
  BY DEF Fits
<1>2. s \in JobType
  <2>1. k - 1 \in 0 .. n
    BY <1>0, <1>1
  <2>2. pos[k - 1] \in Nat /\ (k = 1) \in BOOLEAN
    BY <1>0, <1>1, <2>1
  <2> QED  BY <1>0, <1>1, <2>2, BuffersAre
<1>3. u \in Seq(JobType) /\ Len(u) = n /\ u[k] = s /\ \A j \in 1 .. n : j # k => u[j] = t[j]
  BY <1>0, <1>1, <1>2 DEF Put
<1> HIDE DEF u
<1>4. \A i \in 0 .. n : pos[i] \in Nat /\ pos[i] <= to
  <2> SUFFICES ASSUME NEW i \in 0 .. n  PROVE pos[i] \in Nat /\ pos[i] <= to
    OBVIOUS
  <2>1. pos[i] <= pos[n] /\ pos[i] \in Nat /\ pos[n] \in Nat
    BY <1>1, SMTT(30)
  <2> QED  BY <1>0, <1>1, <2>1
<1>5. /\ new \in [0 .. n -> Nat] /\ \A i \in 0 .. n : new[i] = IF i < k THEN pos[i] ELSE to
  <2>1. ASSUME NEW i \in 0 .. n  PROVE (IF i < k THEN pos[i] ELSE to) \in Nat
    BY <1>0, <1>1, <1>4
  <2> QED  BY <2>1
<1> HIDE DEF new, n
<1>6. \A i, j \in 0 .. n : i <= j => new[i] <= new[j]
  <2> SUFFICES ASSUME NEW i \in 0 .. n, NEW j \in 0 .. n, i <= j  PROVE new[i] <= new[j]
    OBVIOUS
  <2>1. CASE j < k
    <3>1. i < k
      BY <1>0, <1>1, <2>1
    <3> QED  BY <1>0, <1>1, <1>5, <2>1, <3>1
  <2>2. CASE ~(j < k)
    BY <1>0, <1>4, <1>5, <2>2
  <2> QED  BY <2>1, <2>2
<1>7. k \in Nat /\ k \in 1 .. n /\ n \in 0 .. n
  BY <1>0, <1>1 DEF n
<1>8. ASSUME NEW j \in 1 .. n  PROVE Fills(u[j], new[j - 1], new[j], j = 1)
  <2>0. j \in 0 .. n /\ j - 1 \in 0 .. n
    BY <1>0, <1>1
  <2>1. CASE j < k
    <3>1. j - 1 < k /\ j # k
      BY <1>7, <2>1
    <3>2. u[j] = t[j] /\ new[j - 1] = pos[j - 1] /\ new[j] = pos[j]
      BY <1>3, <1>5, <2>0, <2>1, <3>1
    <3>3. Fills(t[j], pos[j - 1], pos[j], j = 1)
      BY <1>0, <1>1
    <3> QED  BY <3>2, <3>3
  <2>2. CASE j = k
    <3>1. new[k - 1] = pos[k - 1] /\ new[k] = to
      BY <1>5, <1>7, <2>0, <2>2
    <3> QED  BY <1>0, <1>1, <1>3, <2>2, <3>1
  <2>3. CASE j > k
    <3>1. j # k /\ ~(j < k) /\ ~(j - 1 < k) /\ j \in c + 1 .. n
      <4>1. c \in Nat /\ n \in Nat /\ (k = c \/ k = c + 1)
        BY <1>0, <1>1
      <4> QED  BY <1>7, <2>3, <4>1
    <3>2. u[j] = NoJob /\ new[j - 1] = to /\ new[j] = to
      BY <1>0, <1>1, <1>3, <1>5, <2>0, <3>1
    <3> QED  BY <3>2, NoJobFills
  <2> QED  BY <1>7, <2>1, <2>2, <2>3
<1>9. ASSUME NEW j \in k .. n  PROVE new[j] = new[n]
  <2>1. j \in 0 .. n /\ ~(j < k) /\ ~(n < k)
    BY <1>0, <1>1, <1>7
  <2> QED  BY <1>5, <1>7, <2>1
<1>10. ASSUME NEW j \in k + 1 .. n  PROVE u[j] = NoJob
  <2>1. j \in 1 .. n /\ j # k /\ j \in c + 1 .. n
    <3>1. c \in Nat /\ n \in Nat /\ (k = c \/ k = c + 1)
      BY <1>0, <1>1
    <3> QED  BY <1>7, <3>1
  <2> QED  BY <1>0, <1>1, <1>3, <2>1
<1>11. Lined(u, k, new)
  BY <1>3, <1>5, <1>6, <1>7, <1>8, <1>9, <1>10 DEF Lined
<1>12. new[n] = to /\ \A i \in 0 .. k - 1 : new[i] = pos[i]
  <2>1. ~(n < k) /\ \A i \in 0 .. k - 1 : i \in 0 .. n /\ i < k
    BY <1>0, <1>1, <1>7
  <2> QED  BY <1>5, <1>7, <2>1
<1>13. ASSUME Buffers(t[k]) \subseteq Buffers(s)
       PROVE  OwnedBy(u) = OwnedBy(t) \cup Buffers(s)
  <2>1. \A j \in 1 .. n : Buffers(u[j]) = IF j = k THEN Buffers(s) ELSE Buffers(t[j])
    BY <1>3
  <2>2. OwnedBy(u) = UNION {Buffers(u[j]) : j \in 1 .. n}
        /\ OwnedBy(t) = UNION {Buffers(t[j]) : j \in 1 .. n}
    BY <1>3 DEF OwnedBy, n
  <2>3. ASSUME NEW x \in OwnedBy(u)  PROVE x \in OwnedBy(t) \cup Buffers(s)
    BY <2>1, <2>2
  <2>4. ASSUME NEW x \in OwnedBy(t) \cup Buffers(s)  PROVE x \in OwnedBy(u)
    BY <1>7, <1>13, <2>1, <2>2
  <2> QED  BY <2>3, <2>4
<1> QED  BY <1>3, <1>11, <1>12, <1>13 DEF u, n, Fitted

\* The shapes of the job list: data at the head and, behind it, all of it
\* active and a shutdown first; nothing to do; a shutdown at the head.
Busy(t, c) ==
    /\ t[1].flags = {"WRITEV"} /\ \A j \in 1 .. c : t[j].active
    /\ c > 1 => t[2] = EndJob
Idle(t, c) == c = 1 /\ ~t[1].active
Ending(t)  == t[1] = EndJob

\* Queueing a packet that starts where the stream ends.
LEMMA QueueRun ==
    ASSUME NEW q \in QueueType, NEW pos, Lined(q.slots, q.current, pos),
           Busy(q.slots, q.current) \/ Idle(q.slots, q.current),
           NEW p \in PacketType, p.used, p.base + p.off = pos[Len(q.slots)],
           pos[Len(q.slots)] < p.base + p.len, q.slots[1].active => p.off = 0
    PROVE  LET j == JobGetSlot(q, "WRITEV")
               r == [j EXCEPT !.slots[j.current].ptr = ListPtr(AddPacket(PacketList(@), p))]
           IN  /\ CurrentPtr(j).kind # "file" /\ r \in QueueType
               /\ Busy(r.slots, r.current) /\ (r.current = 1 <=> q.current = 1)
               /\ \E pos2 : /\ Lined(r.slots, r.current, pos2) /\ pos2[0] = pos[0]
                            /\ pos2[Len(r.slots)] = p.base + p.len
                            /\ r.current > 1 => pos2[1] = pos[1]
               /\ OwnedBy(r.slots) =
                    OwnedBy(q.slots) \cup (IF Owned(p.cls) THEN {p.base + 1} ELSE {})
<1> DEFINE j == JobGetSlot(q, "WRITEV")
           r == [j EXCEPT !.slots[j.current].ptr = ListPtr(AddPacket(PacketList(@), p))]
           t == Room(q, "WRITEV")
           k == Place(q, "WRITEV")
           a == t[k]
           u == [t EXCEPT ![k] = Fed(a, p)]
           n == Len(q.slots)
           c == q.current
           new == p.base + p.len
           own == IF Owned(p.cls) THEN {p.base + 1} ELSE {}
<1>1. /\ q.slots \in Seq(JobType) /\ n \in Nat /\ c \in 1 .. n /\ c \in Nat /\ pos \in [0 .. n -> Nat]
      /\ \A i, x \in 0 .. n : i <= x => pos[i] <= pos[x]
      /\ \A x \in 1 .. n : Fills(q.slots[x], pos[x - 1], pos[x], x = 1)
      /\ \A x \in c .. n : pos[x] = pos[n]
      /\ \A x \in c + 1 .. n : q.slots[x] = NoJob
  BY DEF Lined
<1>2. CurrentPtr(j) = a.ptr /\ r = [slots |-> u, current |-> k]
  BY <1>1, QueueIs
<1>3. r.slots = u /\ r.current = k
  BY <1>2
<1>4. new \in Nat /\ pos[n] \in Nat
  BY <1>1 DEF PacketType
<1> HIDE DEF r, j
\* What both cases come down to
<1>5. ASSUME NEW po, Lined(t, c, po), \A i \in 0 .. c : po[i] = pos[i], po[Len(t)] = pos[n],
             OwnedBy(t) = OwnedBy(q.slots), k \in 1 .. Len(t), k = c \/ k = c + 1, a # EndJob,
             po[k] = pos[n], a.active \/ k # 1 => p.off = 0,
             \A x \in 1 .. c : t[x] = q.slots[x],
             k = 1 <=> c = 1, c > 1 => Busy(q.slots, c) /\ k > 2
      PROVE  /\ a.ptr.kind # "file" /\ r \in QueueType
             /\ Busy(u, k) /\ (k = 1 <=> c = 1)
             /\ \E pos2 : /\ Lined(u, k, pos2) /\ pos2[0] = pos[0]
                          /\ pos2[Len(u)] = new /\ (k > 1 => pos2[1] = pos[1])
             /\ OwnedBy(u) = OwnedBy(q.slots) \cup own
  <2> DEFINE s == Fed(a, p)
  <2>0. k \in Nat /\ (k = 1) \in BOOLEAN /\ t \in Seq(JobType) /\ Len(t) \in Nat
    BY <1>5 DEF Lined
  <2>1. Fills(a, po[k - 1], po[k], k = 1) /\ po[k - 1] \in Nat /\ po[k] \in Nat
    <3> HIDE DEF t, k
    <3>1. /\ po \in [0 .. Len(t) -> Nat] /\ k \in 1 .. Len(t)
          /\ \A x \in 1 .. Len(t) : Fills(t[x], po[x - 1], po[x], x = 1)
      BY <1>5 DEF Lined
    <3>2. k \in 0 .. Len(t) /\ k - 1 \in 0 .. Len(t)
      BY <2>0, <3>1
    <3> QED  BY <3>1, <3>2
  <2>2. /\ Holds(s, po[k - 1], new, k = 1) /\ a.ptr.kind # "file"
        /\ Buffers(s) = Buffers(a) \cup own
    <3>1. p.base + p.off = po[k] /\ po[k] < p.base + p.len /\ (a.active \/ ~(k = 1) => p.off = 0)
      BY <1>5
    <3> DEFINE first == (k = 1)
               from == po[k - 1]
               to == po[k]
    <3>2. /\ first \in BOOLEAN /\ from \in Nat /\ to \in Nat /\ Fills(a, from, to, first)
          /\ p.base + p.off = to /\ to < p.base + p.len /\ (a.active \/ ~first => p.off = 0)
      BY <2>1, <3>1
    <3> HIDE DEF first, from, to, a
    <3>3. /\ Holds(Fed(a, p), from, p.base + p.len, first) /\ a.ptr.kind # "file"
          /\ Buffers(Fed(a, p)) = Buffers(a) \cup (IF Owned(p.cls) THEN {p.base + 1} ELSE {})
      BY <1>5, <3>2, FeedRun
    <3> QED  BY <3>3 DEF first, from
  <2>3. Fills(s, po[k - 1], new, k = 1) /\ s.active /\ s.flags = {"WRITEV"}
    BY <2>2, JobFields DEF Fills, Holds
  <2> HIDE DEF s, t, k
  <2>4. po[Len(t)] <= new
    BY <1>4, <1>5
  <2>5. /\ Len(u) = Len(t) /\ u[k] = s /\ u \in Seq(JobType)
        /\ \A x \in 1 .. Len(t) : x # k => u[x] = t[x]
        /\ \E pos2 : /\ Lined(u, k, pos2) /\ pos2[Len(t)] = new
                     /\ \A i \in 0 .. k - 1 : pos2[i] = po[i]
        /\ Buffers(a) \subseteq Buffers(s) => OwnedBy(u) = OwnedBy(t) \cup Buffers(s)
    <3> HIDE DEF new
    <3>1. Fits(t, c, po, k, s, new)
      BY <1>4, <1>5, <2>3, <2>4 DEF Fits
    <3> HIDE DEF c
    <3>2. Fitted(t, po, k, s, new)
      BY <3>1, PutRun, Zenon
    <3>3. u = Put(t, k, s)
      BY DEF s, Put
    <3> HIDE DEF u
    <3> QED  BY <3>2, <3>3 DEF Fitted
  <2> HIDE DEF u
  <2>6. OwnedBy(u) = OwnedBy(q.slots) \cup own
    <3>1. Buffers(a) \subseteq OwnedBy(t)
      BY <1>5 DEF OwnedBy
    <3> QED  BY <1>5, <2>2, <2>5, <3>1
  <2>7. \E pos2 : /\ Lined(u, k, pos2) /\ pos2[0] = pos[0]
                  /\ pos2[Len(u)] = new /\ (k > 1 => pos2[1] = pos[1])
    <3>1. PICK pos2 : /\ Lined(u, k, pos2) /\ pos2[Len(t)] = new
                      /\ \A i \in 0 .. k - 1 : pos2[i] = po[i]
      BY <2>5
    <3>2. 0 \in 0 .. k - 1 /\ 0 \in 0 .. c /\ 1 \in 0 .. c /\ (k > 1 => 1 \in 0 .. k - 1)
      BY <1>1, <1>5, <2>0
    <3>3. pos2[0] = pos[0] /\ (k > 1 => pos2[1] = pos[1])
      BY <1>5, <3>1, <3>2
    <3> QED  BY <2>5, <3>1, <3>3
  <2>8. \A x \in 1 .. c : x # k => u[x] = q.slots[x]
    <3>1. \A x \in 1 .. c : x \in 1 .. Len(t)
      BY <1>5, <2>0 DEF Lined
    <3> QED  BY <1>5, <2>5, <3>1
  <2>9. Busy(u, k)
    <3>1. CASE c = 1
      <4>1. k = 1 /\ u[1] = s
        BY <1>5, <2>5, <3>1
      <4> QED  BY <2>3, <4>1 DEF Busy
    <3>2. CASE c > 1
      <4>1. Busy(q.slots, c) /\ k > 2
        BY <1>5, <3>2
      <4>2. u[1] = q.slots[1] /\ u[2] = q.slots[2]
        <5>1. 1 \in 1 .. c /\ 2 \in 1 .. c /\ 1 # k /\ 2 # k
          BY <1>1, <2>0, <3>2, <4>1
        <5> QED  BY <2>8, <5>1
      <4>3. ASSUME NEW x \in 1 .. k  PROVE u[x].active
        <5>1. CASE x = k
          BY <2>3, <2>5, <5>1
        <5>2. CASE x # k
          <6>1. x \in 1 .. c
            BY <1>1, <1>5, <2>0, <5>2
          <6> QED  BY <2>8, <4>1, <5>2, <6>1 DEF Busy
        <5> QED  BY <5>1, <5>2
      <4> QED  BY <3>2, <4>1, <4>2, <4>3 DEF Busy
    <3> QED  BY <1>1, <3>1, <3>2
  <2>10. r \in QueueType
    BY <1>2, <2>0, <2>5 DEF QueueType
  <2> QED  BY <1>5, <2>2, <2>6, <2>7, <2>9, <2>10
<1>6. c > 1 => Busy(q.slots, c)
  BY DEF Idle
<1>7. 1 \in 1 .. c /\ c \in 0 .. n /\ (c > 1 => 2 \in 1 .. c) /\ c \in c .. n
  BY <1>1
<1>8. Busy(q.slots, c) => q.slots[1].active /\ q.slots[c].active
  BY <1>1, <1>7 DEF Busy
<1> DEFINE Goal == /\ a.ptr.kind # "file" /\ r \in QueueType
                   /\ Busy(u, k) /\ (k = 1 <=> c = 1)
                   /\ \E pos2 : /\ Lined(u, k, pos2) /\ pos2[0] = pos[0]
                                /\ pos2[Len(u)] = new /\ (k > 1 => pos2[1] = pos[1])
                   /\ OwnedBy(u) = OwnedBy(q.slots) \cup own
<1>9. ASSUME Open(q, "WRITEV")  PROVE Goal
  <2>1. t = q.slots /\ k = c /\ a = q.slots[c]
    BY <1>9 DEF Room, Place
  <2>2. a # EndJob
    BY <1>9, <2>1, JobFields DEF Open
  <2>3. c > 1 => k > 2
    <3> SUFFICES ASSUME c > 1  PROVE c # 2
      BY <1>1, <2>1
    <3>1. q.slots[2] = EndJob
      BY <1>6 DEF Busy
    <3> QED  BY <2>1, <2>2, <3>1
  <2>4. a.active \/ k # 1 => p.off = 0
    <3>1. CASE c = 1
      BY <2>1, <3>1
    <3>2. CASE c > 1
      BY <1>6, <1>8, <3>2
    <3> QED  BY <1>1, <3>1, <3>2
  <2>5. /\ Lined(t, c, pos) /\ pos[Len(t)] = pos[n] /\ OwnedBy(t) = OwnedBy(q.slots)
        /\ k \in 1 .. Len(t) /\ pos[k] = pos[n] /\ \A x \in 1 .. c : t[x] = q.slots[x]
    BY <1>1, <1>7, <2>1
  <2>6. (\A i \in 0 .. c : pos[i] = pos[i]) /\ (k = c \/ k = c + 1) /\ (k = 1 <=> c = 1)
        /\ (c > 1 => Busy(q.slots, c) /\ k > 2)
    BY <1>6, <2>1, <2>3
  <2> HIDE DEF Goal
  <2> QED  BY <1>5, <2>2, <2>4, <2>5, <2>6 DEF Goal
<1>10. ASSUME ~Open(q, "WRITEV")  PROVE Goal
  <2>1. t = Spare(q) /\ k = c + 1
    BY <1>10 DEF Room, Place
  <2>2. q.slots[c].active /\ "WRITEV" \notin q.slots[c].flags
    BY <1>10 DEF Open
  <2>3. c > 1
    <3>1. ~Idle(q.slots, c)
      BY <2>2 DEF Idle
    <3>2. Busy(q.slots, c) /\ c # 1
      BY <2>2, <3>1 DEF Busy
    <3> QED  BY <1>1, <3>2
  <2>4. p.off = 0
    BY <1>6, <1>8, <2>3
  <2>5. PICK po : /\ Lined(Spare(q), c, po) /\ \A i \in 0 .. n : po[i] = pos[i]
                  /\ po[Len(Spare(q))] = pos[n]
    BY SpareRun
  <2>6. OwnedBy(Spare(q)) = OwnedBy(q.slots)
    BY SpareRun
  <2>7. /\ c + 1 \in 1 .. Len(Spare(q)) /\ \A x \in 1 .. n : Spare(q)[x] = q.slots[x]
        /\ Len(Spare(q)) \in Nat
    BY <1>1, SpareIs
  <2>8. a = NoJob /\ po[k] = pos[n]
    <3>1. c + 1 \in c + 1 .. Len(Spare(q)) /\ c + 1 \in c .. Len(Spare(q))
      BY <1>1, <2>7
    <3> QED  BY <2>1, <2>5, <3>1 DEF Lined
  <2>9. a # EndJob
    BY <2>8, JobFields
  <2>10. /\ \A i \in 0 .. c : po[i] = pos[i] /\ i \in 0 .. n
         /\ \A x \in 1 .. c : Spare(q)[x] = q.slots[x]
         /\ (k = 1 <=> c = 1) /\ k > 2
    <3>1. (\A i \in 0 .. c : i \in 0 .. n) /\ (\A x \in 1 .. c : x \in 1 .. n)
      BY <1>1
    <3>2. k # 1 /\ c # 1 /\ k > 2
      BY <1>1, <2>1, <2>3
    <3> QED  BY <2>5, <2>7, <3>1, <3>2
  <2>11. /\ Lined(t, c, po) /\ po[Len(t)] = pos[n] /\ OwnedBy(t) = OwnedBy(q.slots)
         /\ k \in 1 .. Len(t) /\ \A x \in 1 .. c : t[x] = q.slots[x]
    BY <2>1, <2>5, <2>6, <2>7, <2>10
  <2>12. (k = c \/ k = c + 1) /\ (c > 1 => Busy(q.slots, c) /\ k > 2)
    BY <1>6, <2>1, <2>10
  <2> HIDE DEF t, k, u, a, new, own, c, n
  <2> QED  BY <1>5, <2>4, <2>8, <2>9, <2>10, <2>11, <2>12
<1>11. Goal
  BY <1>9, <1>10
<1> HIDE DEF u, k, a, new, own
<1>12. /\ CurrentPtr(j).kind # "file" /\ r \in QueueType
       /\ Busy(r.slots, r.current) /\ (r.current = 1 <=> c = 1)
       /\ \E pos2 : /\ Lined(r.slots, r.current, pos2) /\ pos2[0] = pos[0]
                    /\ pos2[Len(r.slots)] = new /\ (r.current > 1 => pos2[1] = pos[1])
       /\ OwnedBy(r.slots) = OwnedBy(q.slots) \cup own
  BY <1>2, <1>3, <1>11
<1> QED  BY <1>12 DEF j, r, new, own

\* Queueing a shutdown behind data (APE_socket_shutdown).
LEMMA AskRun ==
    ASSUME NEW q \in QueueType, NEW pos, Lined(q.slots, q.current, pos), Busy(q.slots, q.current)
    PROVE  LET r == JobGetSlot(q, "SHUTDOWN")
           IN  /\ r \in QueueType /\ Busy(r.slots, r.current) /\ r.current > 1
               /\ \E pos2 : /\ Lined(r.slots, r.current, pos2) /\ pos2[0] = pos[0]
                            /\ pos2[Len(r.slots)] = pos[Len(q.slots)] /\ pos2[1] = pos[1]
               /\ OwnedBy(r.slots) = OwnedBy(q.slots)
               /\ q.current = 1 => pos[1] = pos[Len(q.slots)]
<1> DEFINE r == JobGetSlot(q, "SHUTDOWN")
           n == Len(q.slots)
           c == q.current
           k == c + 1
           t == Spare(q)
           u == Put(t, k, EndJob)
           to == pos[n]
<1>1. /\ n \in Nat /\ c \in 1 .. n /\ c \in Nat /\ pos \in [0 .. n -> Nat]
      /\ \A x \in c .. n : pos[x] = pos[n]
  BY DEF Lined
<1>2. to \in Nat /\ c \in c .. n /\ pos[c] = to /\ 1 \in 1 .. c /\ c \in 1 .. c
  BY <1>1
<1>3. /\ q.slots[1].flags = {"WRITEV"} /\ (\A x \in 1 .. c : q.slots[x].active)
      /\ c > 1 => q.slots[2] = EndJob
  BY DEF Busy
<1>4. ~Open(q, "SHUTDOWN")
  BY <1>2, <1>3 DEF Open
<1>5. PICK po : /\ Lined(t, c, po) /\ \A i \in 0 .. n : po[i] = pos[i]
                /\ po[Len(t)] = to
  BY SpareRun
<1>6. OwnedBy(t) = OwnedBy(q.slots)
  BY SpareRun
<1>7. /\ k \in 1 .. Len(t) /\ (\A x \in 1 .. n : t[x] = q.slots[x])
      /\ Len(t) \in Nat
  BY <1>1, SpareIs
<1>8. t[k] = NoJob /\ po[c] = to
  <2>1. c + 1 \in c + 1 .. Len(t) /\ c \in 0 .. n
    BY <1>1, <1>7
  <2> QED  BY <1>2, <1>5, <2>1 DEF Lined
<1>9. Marked(NoJob, "SHUTDOWN") = EndJob
  <2>1. NoJob.flags \cup {"SHUTDOWN"} = {"SHUTDOWN"} /\ NoJob.ptr = NullPtr
    BY JobFields
  <2> QED  BY <2>1 DEF Marked, EndJob
<1>10. r = [slots |-> u, current |-> k]
  <2>1. Room(q, "SHUTDOWN") = t /\ Place(q, "SHUTDOWN") = k
    BY <1>4 DEF Room, Place
  <2>2. r = [slots |-> [t EXCEPT ![k] = Marked(t[k], "SHUTDOWN")], current |-> k]
    BY <1>1, <2>1, GetSlotIs
  <2>3. Marked(t[k], "SHUTDOWN") = EndJob
    BY <1>8, <1>9
  <2> HIDE DEF t, k, r
  <2> QED  BY <2>2, <2>3 DEF Put
<1>11. Fits(t, c, po, k, EndJob, to)
  <2>1. k - 1 = c
    BY <1>1
  <2>2. Fills(EndJob, po[k - 1], to, k = 1)
    BY <1>8, <2>1 DEF Fills
  <2>3. to \in Nat /\ po[Len(t)] <= to
    BY <1>2, <1>5
  <2> HIDE DEF t, to
  <2> QED  BY <1>5, <1>7, <2>2, <2>3 DEF Fits
<1>12. Fitted(t, po, k, EndJob, to)
  <2> HIDE DEF t, k, to, c
  <2> QED  BY <1>11, PutRun, Zenon
<1>13. Buffers(NoJob) = {} /\ Buffers(EndJob) = {}
  BY JobFields DEF Buffers
<1> HIDE DEF t, u, to, r
<1>14. /\ Len(u) = Len(t) /\ u[k] = EndJob /\ u \in Seq(JobType)
       /\ \A x \in 1 .. Len(t) : x # k => u[x] = t[x]
       /\ \E pos2 : /\ Lined(u, k, pos2) /\ pos2[Len(t)] = to
                    /\ \A i \in 0 .. k - 1 : pos2[i] = po[i]
       /\ OwnedBy(u) = OwnedBy(t)
  <2>1. Buffers(t[k]) \subseteq Buffers(EndJob) /\ OwnedBy(t) \cup Buffers(EndJob) = OwnedBy(t)
    BY <1>8, <1>13
  <2> QED  BY <1>12, <2>1 DEF Fitted, u
<1>15. r.slots = u /\ r.current = k /\ r \in QueueType /\ k > 1
  BY <1>1, <1>10, <1>14 DEF QueueType
<1>16. \E pos2 : Lined(u, k, pos2) /\ pos2[0] = pos[0] /\ pos2[Len(u)] = to /\ pos2[1] = pos[1]
  <2>1. PICK pos2 : /\ Lined(u, k, pos2) /\ pos2[Len(t)] = to
                    /\ \A i \in 0 .. k - 1 : pos2[i] = po[i]
    BY <1>14
  <2>2. 0 \in 0 .. k - 1 /\ 1 \in 0 .. k - 1 /\ 0 \in 0 .. n /\ 1 \in 0 .. n
    BY <1>1
  <2> QED  BY <1>5, <1>14, <2>1, <2>2
<1>17. \A x \in 1 .. c : u[x] = q.slots[x] /\ x # k
  <2> SUFFICES ASSUME NEW x \in 1 .. c  PROVE u[x] = q.slots[x] /\ x # k
    OBVIOUS
  <2>1. x \in 1 .. n /\ x \in 1 .. Len(t) /\ x # k
    BY <1>1, <1>7
  <2> QED  BY <1>7, <1>14, <2>1
<1>18. Busy(u, k)
  <2>1. u[1].flags = {"WRITEV"}
    BY <1>2, <1>3, <1>17
  <2>2. \A x \in 1 .. k : u[x].active
    <3>1. EndJob.active
      BY JobFields
    <3>2. \A x \in 1 .. k : x = k \/ x \in 1 .. c
      BY <1>1
    <3> QED  BY <1>3, <1>14, <1>17, <3>1, <3>2
  <2>3. u[2] = EndJob
    <3>1. CASE c = 1
      <4>1. k = 2
        BY <3>1
      <4> HIDE DEF k
      <4> QED  BY <1>14, <4>1
    <3>2. CASE c > 1
      <4>1. 2 \in 1 .. c
        BY <1>1, <3>2
      <4> QED  BY <1>3, <1>17, <3>2, <4>1
    <3> QED  BY <1>1, <3>1, <3>2
  <2> HIDE DEF k
  <2> QED  BY <2>1, <2>2, <2>3 DEF Busy
<1>19. c = 1 => pos[1] = to
  BY <1>2
<1> HIDE DEF k
<1> QED  BY <1>6, <1>14, <1>15, <1>16, <1>18, <1>19 DEF r, to

\* One writev() of a WRITEV job: the list l, what the kernel takes of it when
\* it has room for avail bytes, the list then, and the buffers that are freed.
Taken(l, avail) == Least(Ends(Chunk(l))[Len(Chunk(l))], avail)
Rest(l, avail)  == Took(l, Chunk(l), Taken(l, avail))
Sent(l, avail)  ==
    {Chunk(l)[i].base + 1 : i \in {k \in DOMAIN Chunk(l) : Ends(Chunk(l))[k] <= Taken(l, avail)}}

\* A stretch with no packet left.
LEMMA StretchEnds ==
    ASSUME NEW l, NEW from, NEW to, NEW first, Stretch(l, from, to, first)
    PROVE  /\ l.slots[1].used <=> l.current > 1
           /\ l.current = 1 => from = to /\ Empty(l)
<1>1. /\ l \in ListType /\ Len(l.slots) \in Nat /\ l.current \in 1 .. Len(l.slots)
      /\ Pending(l) = 1 .. l.current - 1 /\ l.slots \in Seq(PacketType)
  BY PendingIs
<1>2. PICK at \in [0 .. Len(l.slots) -> Nat] :
         /\ Placed(l, at, first)
         /\ at[0] = from /\ at[l.current - 1] = to /\ at[Len(l.slots)] = to
  BY DEF Stretch
<1>3. l.slots[1].used <=> l.current > 1
  <2>1. 1 \in DOMAIN l.slots /\ (1 \in 1 .. l.current - 1 <=> l.current > 1)
    BY <1>1
  <2> QED  BY <1>1, <2>1 DEF Pending
<1>4. ASSUME l.current = 1  PROVE from = to /\ Empty(l)
  <2>1. \A i \in 1 .. Len(l.slots) : l.slots[i] = NoPacket
    BY <1>1, <1>2, <1>4 DEF Placed
  <2>2. from = to
    BY <1>2, <1>4
  <2> QED  BY <1>1, <1>4, <2>1, <2>2 DEF Empty
<1> QED  BY <1>3, <1>4

\* What is left of a job when the kernel took its part of it
\* (ape_socket_do_jobs, a WRITEV job).
LEMMA ServeRun ==
    ASSUME NEW l, NEW w, NEW to, Stretch(l, w, to, TRUE), l.current > 1,
           NEW avail \in Nat, avail > 0
    PROVE  LET n == Taken(l, avail)
               r == Rest(l, avail)
           IN  /\ n \in 1 .. avail /\ w + n <= to /\ w \in Nat /\ to \in Nat
               /\ \A k \in 1 .. n : ByteOf(Chunk(l), k) = w + k
               /\ r \in ListType
               /\ OwnedIn(r) = OwnedIn(l) \ Sent(l, avail)
               /\ Sent(l, avail) \subseteq 1 .. to
               /\ r.slots[1].used => Holds(DataJob(r), w + n, to, TRUE)
               /\ ~r.slots[1].used => w + n = to /\ Empty(r)
<1> DEFINE n == Taken(l, avail)
           r == Rest(l, avail)
           ch == Chunk(l)
           c == l.current
<1>1. /\ n \in 1 .. avail /\ n <= to - w
      /\ \A k \in 1 .. n : ByteOf(ch, k) = w + k
      /\ Stretch(r, w + n, to, TRUE)
      /\ \E f \in 0 .. c - 1 :
           /\ {k \in DOMAIN ch : Ends(ch)[k] <= n} = 1 .. f
           /\ \A i \in 1 .. f : ch[i] = l.slots[i]
           /\ r.current = c - f
           /\ \A i \in 1 .. r.current - 1 :
                /\ r.slots[i].base = l.slots[i + f].base
                /\ r.slots[i].cls = l.slots[i + f].cls
  <2>1. TRUE \in BOOLEAN
    OBVIOUS
  <2> QED  BY <2>1, TookRun DEF Rest, Taken
<1>2. PICK f \in 0 .. c - 1 :
           /\ {k \in DOMAIN ch : Ends(ch)[k] <= n} = 1 .. f
           /\ \A i \in 1 .. f : ch[i] = l.slots[i]
           /\ r.current = c - f
           /\ \A i \in 1 .. r.current - 1 :
                /\ r.slots[i].base = l.slots[i + f].base
                /\ r.slots[i].cls = l.slots[i + f].cls
  BY <1>1
<1>3. /\ l.slots \in Seq(PacketType) /\ Len(l.slots) \in Nat /\ c \in 1 .. Len(l.slots)
      /\ Pending(l) = 1 .. c - 1 /\ w \in Nat /\ to \in Nat
  BY PendingIs
<1> HIDE DEF n, r, ch
<1>4. r \in ListType /\ Pending(r) = 1 .. r.current - 1 /\ r.current \in Nat
  BY <1>1, PendingIs DEF ListType
<1> DEFINE B(i) == l.slots[i].base
           ow(i) == Owned(l.slots[i].cls)
<1>5. /\ \A i \in 1 .. c - 1 : B(i) \in Nat /\ B(i) < to
      /\ \A i, k \in 1 .. c - 1 : i # k => B(i) # B(k)
  <2>1. TRUE \in BOOLEAN
    OBVIOUS
  <2> QED  BY <2>1, BasesApart
<1>6. Sent(l, avail) = {B(i) + 1 : i \in 1 .. f}
  <2>1. Sent(l, avail) = {ch[i].base + 1 : i \in 1 .. f}
    BY <1>2 DEF Sent, ch, n
  <2> QED  BY <1>2, <2>1
<1>7. OwnedIn(l) = {B(i) + 1 : i \in {k \in 1 .. c - 1 : ow(k)}}
  BY <1>3 DEF OwnedIn
<1>8. OwnedIn(r) = {B(i + f) + 1 : i \in {k \in 1 .. r.current - 1 : ow(k + f)}}
  <2>1. OwnedIn(r) = {r.slots[i].base + 1 : i \in {k \in 1 .. r.current - 1 : Owned(r.slots[k].cls)}}
    BY <1>4 DEF OwnedIn
  <2> QED  BY <1>2, <2>1
<1> HIDE DEF B, ow, c
<1>9. c \in Nat /\ f \in Nat /\ f <= c - 1 /\ r.current - 1 = c - 1 - f
  BY <1>2, <1>3
<1>10. ASSUME NEW x \in OwnedIn(r)  PROVE x \in OwnedIn(l) /\ x \notin Sent(l, avail)
  <2>1. PICK i \in 1 .. r.current - 1 : ow(i + f) /\ x = B(i + f) + 1
    BY <1>8
  <2>2. i + f \in 1 .. c - 1 /\ \A k \in 1 .. f : k \in 1 .. c - 1 /\ k # i + f
    BY <1>9, <2>1
  <2>3. x \in OwnedIn(l)
    BY <1>7, <2>1, <2>2
  <2>4. ASSUME NEW k \in 1 .. f  PROVE x # B(k) + 1
    <3>1. B(k) \in Nat /\ B(i + f) \in Nat /\ B(k) # B(i + f)
      BY <1>5, <2>2
    <3> QED  BY <2>1, <3>1
  <2> QED  BY <1>6, <2>3, <2>4
<1>11. ASSUME NEW x \in OwnedIn(l), x \notin Sent(l, avail)  PROVE x \in OwnedIn(r)
  <2>1. PICK i \in 1 .. c - 1 : ow(i) /\ x = B(i) + 1
    BY <1>7
  <2>2. i \notin 1 .. f
    BY <1>6, <1>11, <2>1
  <2>3. i - f \in 1 .. r.current - 1 /\ (i - f) + f = i
    BY <1>9, <2>1, <2>2
  <2> QED  BY <1>8, <2>1, <2>3
<1>12. Sent(l, avail) \subseteq 1 .. to
  <2> SUFFICES ASSUME NEW i \in 1 .. f  PROVE B(i) + 1 \in 1 .. to
    BY <1>6
  <2>1. i \in 1 .. c - 1
    BY <1>9
  <2> QED  BY <1>3, <1>5, <2>1
<1>13. OwnedIn(r) = OwnedIn(l) \ Sent(l, avail)
  BY <1>10, <1>11
<1>14. r.slots[1].used => Holds(DataJob(r), w + n, to, TRUE)
  BY <1>1, <1>4, StretchEnds DEF Holds
<1>15. ~r.slots[1].used => w + n = to /\ Empty(r)
  <2>1. (r.slots[1].used <=> r.current > 1) /\ (r.current = 1 => w + n = to /\ Empty(r))
    BY <1>1, StretchEnds
  <2>2. r.current >= 1
    BY <1>9, <1>4
  <2> QED  BY <1>4, <2>1, <2>2
<1>16. n \in 1 .. avail /\ w + n <= to
  BY <1>1, <1>3
<1> QED  BY <1>1, <1>3, <1>4, <1>12, <1>13, <1>14, <1>15, <1>16 DEF n, r, ch

\* The head of the list sends its bytes up to w, and frees the buffers D.
Served(t, c, pos, s, w, D) ==
    /\ Lined(t, c, pos) /\ w \in Nat /\ pos[0] <= w /\ w <= pos[1]
    /\ Fills(s, w, pos[1], TRUE)
    /\ Buffers(s) = Buffers(t[1]) \ D /\ D \subseteq 1 .. pos[1]

\* The other jobs stay where they are, and so do their buffers.
LEMMA HeadRun ==
    ASSUME NEW t, NEW c, NEW pos, NEW s, NEW w, NEW D, Served(t, c, pos, s, w, D)
    PROVE  LET u == Put(t, 1, s)
           IN  /\ u \in Seq(JobType) /\ Len(u) = Len(t) /\ u[1] = s
               /\ \A j \in 2 .. Len(t) : u[j] = t[j]
               /\ OwnedBy(u) = OwnedBy(t) \ D
               /\ \E pos2 : /\ Lined(u, c, pos2) /\ pos2[0] = w
                            /\ \A i \in 1 .. Len(t) : pos2[i] = pos[i]
<1> DEFINE n == Len(t)
           u == Put(t, 1, s)
           new == [i \in 0 .. n |-> IF i = 0 THEN w ELSE pos[i]]
<1>1. /\ t \in Seq(JobType) /\ n \in Nat /\ c \in 1 .. n /\ pos \in [0 .. n -> Nat]
      /\ \A i, j \in 0 .. n : i <= j => pos[i] <= pos[j]
      /\ \A j \in 1 .. n : Fills(t[j], pos[j - 1], pos[j], j = 1)
      /\ \A j \in c .. n : pos[j] = pos[n]
      /\ \A j \in c + 1 .. n : t[j] = NoJob
  BY DEF Served, Lined
<1>2. /\ w \in Nat /\ pos[0] <= w /\ w <= pos[1] /\ Fills(s, w, pos[1], TRUE)
      /\ Buffers(s) = Buffers(t[1]) \ D /\ D \subseteq 1 .. pos[1]
  BY DEF Served
<1>3. 1 \in 1 .. n /\ 1 \in 0 .. n /\ 0 \in 0 .. n /\ n \in 0 .. n /\ n \in 1 .. n
  BY <1>1
<1>4. s \in JobType
  <2>1. TRUE \in BOOLEAN
    OBVIOUS
  <2> QED  BY <1>2, <2>1, BuffersAre
<1>5. u \in Seq(JobType) /\ Len(u) = n /\ u[1] = s /\ \A j \in 2 .. n : u[j] = t[j]
  BY <1>1, <1>3, <1>4 DEF Put
<1> HIDE DEF u, n
<1>6. new \in [0 .. n -> Nat] /\ new[0] = w /\ \A i \in 1 .. n : new[i] = pos[i]
  <2>1. ASSUME NEW i \in 0 .. n  PROVE (IF i = 0 THEN w ELSE pos[i]) \in Nat
    BY <1>1, <1>2
  <2>2. new \in [0 .. n -> Nat]
    BY <2>1
  <2>3. new[0] = w
    BY <1>3
  <2>4. ASSUME NEW i \in 1 .. n  PROVE new[i] = pos[i]
    <3>1. i \in 0 .. n /\ i # 0
      BY <1>1
    <3> QED  BY <3>1
  <2> QED  BY <2>2, <2>3, <2>4
<1> HIDE DEF new
<1>7. \A i, j \in 0 .. n : i <= j => new[i] <= new[j]
  <2> SUFFICES ASSUME NEW i \in 0 .. n, NEW j \in 0 .. n, i <= j  PROVE new[i] <= new[j]
    OBVIOUS
  <2>1. CASE j = 0
    <3>1. i = 0
      BY <2>1
    <3> QED  BY <1>2, <1>6, <2>1, <3>1
  <2>2. CASE i = 0 /\ j # 0
    <3>1. j \in 1 .. n /\ 1 <= j
      BY <1>1, <2>2
    <3>2. pos[1] <= pos[j] /\ pos[1] \in Nat /\ pos[j] \in Nat
      BY <1>1, <1>3, <3>1
    <3>3. new[j] = pos[j] /\ new[i] = w
      BY <1>6, <2>2, <3>1
    <3> QED  BY <1>2, <3>2, <3>3
  <2>3. CASE i # 0
    <3>1. i \in 1 .. n /\ j \in 1 .. n
      BY <1>1, <2>3
    <3> QED  BY <1>1, <1>6, <3>1
  <2> QED  BY <2>1, <2>2, <2>3
<1>8. ASSUME NEW j \in 1 .. n  PROVE Fills(u[j], new[j - 1], new[j], j = 1)
  <2>1. CASE j = 1
    <3>1. new[j - 1] = w /\ new[j] = pos[1] /\ u[j] = s /\ (j = 1) = TRUE
      BY <1>3, <1>5, <1>6, <2>1
    <3> QED  BY <1>2, <3>1
  <2>2. CASE j # 1
    <3>1. j \in 2 .. n /\ j - 1 \in 1 .. n
      BY <1>1, <2>2
    <3>2. u[j] = t[j] /\ new[j - 1] = pos[j - 1] /\ new[j] = pos[j]
      BY <1>5, <1>6, <3>1
    <3>3. Fills(t[j], pos[j - 1], pos[j], j = 1)
      BY <1>1
    <3> QED  BY <3>2, <3>3
  <2> QED  BY <2>1, <2>2
<1>9. \A j \in c .. n : new[j] = new[n]
  <2>1. \A j \in c .. n : j \in 1 .. n
    BY <1>1
  <2> QED  BY <1>1, <1>3, <1>6, <2>1
<1>10. \A j \in c + 1 .. n : u[j] = NoJob
  <2>1. \A j \in c + 1 .. n : j \in 2 .. n
    BY <1>1
  <2> QED  BY <1>1, <1>5, <2>1
<1>11. Lined(u, c, new)
  BY <1>1, <1>5, <1>6, <1>7, <1>8, <1>9, <1>10 DEF Lined
<1>12. OwnedBy(u) = OwnedBy(t) \ D
  <2>1. /\ OwnedBy(u) = UNION {Buffers(u[j]) : j \in 1 .. n}
        /\ OwnedBy(t) = UNION {Buffers(t[j]) : j \in 1 .. n}
    BY <1>5 DEF OwnedBy, n
  <2>2. ASSUME NEW j \in 2 .. n, NEW x \in Buffers(t[j])  PROVE x \notin D
    <3>1. j \in 1 .. n /\ j - 1 \in 0 .. n /\ 1 <= j - 1 /\ (j = 1) = FALSE
      BY <1>1
    <3>2. Fills(t[j], pos[j - 1], pos[j], FALSE) /\ pos[j - 1] \in Nat
      BY <1>1, <3>1
    <3>3. FALSE \in BOOLEAN
      OBVIOUS
    <3>4. x \in Nat /\ pos[j - 1] < x
      BY <3>2, <3>3, BuffersAre
    <3>5. pos[1] <= pos[j - 1] /\ pos[1] \in Nat
      BY <1>1, <1>3, <3>1
    <3>6. x \notin 1 .. pos[1]
      BY <3>2, <3>4, <3>5
    <3> QED  BY <1>2, <3>6
  <2>3. \A j \in 1 .. n : j = 1 \/ j \in 2 .. n
    BY <1>1
  <2>4. ASSUME NEW x \in OwnedBy(u)  PROVE x \in OwnedBy(t) \ D
    <3>1. PICK j \in 1 .. n : x \in Buffers(u[j])
      BY <2>1
    <3>2. CASE j = 1
      BY <1>2, <1>3, <1>5, <2>1, <3>1, <3>2
    <3>3. CASE j \in 2 .. n
      BY <1>5, <2>1, <2>2, <3>1, <3>3
    <3> QED  BY <2>3, <3>2, <3>3
  <2>5. ASSUME NEW x \in OwnedBy(t) \ D  PROVE x \in OwnedBy(u)
    <3>1. PICK j \in 1 .. n : x \in Buffers(t[j])
      BY <2>1
    <3>2. CASE j = 1
      BY <1>2, <1>3, <1>5, <2>1, <3>1, <3>2
    <3>3. CASE j \in 2 .. n
      BY <1>5, <2>1, <3>1, <3>3
    <3> QED  BY <2>3, <3>2, <3>3
  <2> QED  BY <2>4, <2>5
<1> QED  BY <1>5, <1>6, <1>11, <1>12 DEF u, n

\* A finished job goes behind current; the shutdown is at the head then
\* (ape_pool_head_to_current).
LEMMA RotateRun ==
    ASSUME NEW t, NEW c, NEW pos, Lined(t, c, pos), c > 1, pos[0] = pos[1],
           Spent(t[1]), t[2] = EndJob
    PROVE  LET u == Rotated(t, c)
           IN  /\ u \in Seq(JobType) /\ Len(u) = Len(t) /\ u[1] = EndJob
               /\ OwnedBy(u) = OwnedBy(t)
               /\ \E pos2 : Lined(u, c, pos2) /\ pos2[0] = pos[0] /\ pos2[Len(t)] = pos[Len(t)]
<1> DEFINE n == Len(t)
           u == Rotated(t, c)
           new == [i \in 0 .. n |-> IF i < c THEN pos[i + 1] ELSE pos[n]]
<1>1. /\ t \in Seq(JobType) /\ n \in Nat /\ c \in 1 .. n /\ pos \in [0 .. n -> Nat]
      /\ \A i, j \in 0 .. n : i <= j => pos[i] <= pos[j]
      /\ \A j \in 1 .. n : Fills(t[j], pos[j - 1], pos[j], j = 1)
      /\ \A j \in c .. n : pos[j] = pos[n]
      /\ \A j \in c + 1 .. n : t[j] = NoJob
  BY DEF Lined
<1>2. /\ u \in Seq(JobType) /\ Len(u) = n /\ u[c] = t[1]
      /\ \A i \in 1 .. c - 1 : u[i] = t[i + 1]
      /\ \A i \in c + 1 .. n : u[i] = t[i]
  BY <1>1, HeadFacts
<1> HIDE DEF u, n
<1>3. /\ c \in Nat /\ 1 \in 1 .. c - 1 /\ 1 \in 1 .. n /\ 2 \in 1 .. n /\ 0 \in 0 .. n /\ 1 \in 0 .. n
      /\ n \in 0 .. n /\ n \in c .. n /\ c \in 0 .. n /\ c \in c .. n /\ 0 < c /\ 1 < c
      /\ 2 \in 0 .. n
  BY <1>1
<1>4. u[1] = EndJob
  BY <1>2, <1>3
<1>5. /\ new \in [0 .. n -> Nat] /\ \A i \in 0 .. n : new[i] = IF i < c THEN pos[i + 1] ELSE pos[n]
  <2>1. ASSUME NEW i \in 0 .. n  PROVE (IF i < c THEN pos[i + 1] ELSE pos[n]) \in Nat
    <3>1. i < c => i + 1 \in 0 .. n
      BY <1>1
    <3> QED  BY <1>1, <1>3, <3>1
  <2> QED  BY <2>1
<1> HIDE DEF new
<1>6. new[0] = pos[0] /\ new[n] = pos[n] /\ new[1] = pos[2]
  <2>1. ~(n < c) /\ 0 + 1 = 1 /\ 1 + 1 = 2
    BY <1>1
  <2> QED  BY <1>3, <1>5, <2>1
<1>7. \A i, j \in 0 .. n : i <= j => new[i] <= new[j]
  <2> SUFFICES ASSUME NEW i \in 0 .. n, NEW j \in 0 .. n, i <= j  PROVE new[i] <= new[j]
    OBVIOUS
  <2>1. CASE j < c
    <3>1. i < c /\ i + 1 \in 0 .. n /\ j + 1 \in 0 .. n /\ i + 1 <= j + 1
      BY <1>1, <2>1, SMTT(30)
    <3>2. pos[i + 1] <= pos[j + 1]
      BY <1>1, <3>1
    <3> QED  BY <1>5, <2>1, <3>1, <3>2
  <2>2. CASE i < c /\ ~(j < c)
    <3>1. i + 1 \in 0 .. n /\ i + 1 <= n
      BY <1>1, <2>2
    <3>2. pos[i + 1] <= pos[n]
      BY <1>1, <1>3, <3>1
    <3> QED  BY <1>5, <2>2, <3>2
  <2>3. CASE ~(i < c)
    <3>1. ~(j < c) /\ pos[n] \in Nat
      BY <1>1, <1>3, <2>3
    <3> QED  BY <1>5, <2>3, <3>1
  <2> QED  BY <2>1, <2>2, <2>3
<1>8. ASSUME NEW j \in c .. n  PROVE new[j] = new[n] /\ new[j] = pos[n]
  <2>1. j \in 0 .. n /\ ~(j < c)
    BY <1>1
  <2> QED  BY <1>5, <1>6, <2>1
<1>9. ASSUME NEW j \in 1 .. n  PROVE Fills(u[j], new[j - 1], new[j], j = 1)
  <2>0. j \in 0 .. n /\ j - 1 \in 0 .. n /\ (j - 1) + 1 = j
    BY <1>1
  <2>1. CASE j = 1
    <3>1. Fills(EndJob, pos[1], pos[2], FALSE)
      <4>1. 2 - 1 = 1 /\ (2 = 1) = FALSE
        OBVIOUS
      <4>2. \A x \in 1 .. n : x - 1 = 1 /\ (x = 1) = FALSE => Fills(t[x], pos[1], pos[x], FALSE)
        BY <1>1
      <4> QED  BY <1>3, <4>1, <4>2
    <3>2. pos[1] = pos[2]
      <4>1. \A l : EndJob # DataJob(l)
        BY JobFields
      <4> QED  BY <3>1, <4>1 DEF Fills, Holds
    <3>3. u[j] = EndJob /\ new[j - 1] = pos[0] /\ new[j] = pos[2] /\ pos[0] = pos[2]
      BY <1>4, <1>6, <2>1, <3>2
    <3> QED  BY <3>3 DEF Fills
  <2>2. CASE j > 1 /\ j < c
    <3>1. j \in 1 .. c - 1 /\ j + 1 \in 1 .. n /\ j - 1 < c /\ (j + 1) - 1 = j
      BY <1>1, <1>3, <2>2
    <3>2. u[j] = t[j + 1] /\ new[j - 1] = pos[j] /\ new[j] = pos[j + 1]
      BY <1>2, <1>5, <2>0, <2>2, <3>1
    <3>3. Fills(t[j + 1], pos[(j + 1) - 1], pos[j + 1], j + 1 = 1)
      BY <1>1, <3>1
    <3>4. (j + 1 = 1) = FALSE /\ (j = 1) = FALSE
      BY <2>2
    <3> QED  BY <3>1, <3>2, <3>3, <3>4
  <2>3. CASE j = c
    <3>1. u[j] = t[1] /\ new[j - 1] = pos[c] /\ new[j] = pos[n]
      <4>1. j - 1 < c /\ ~(j < c)
        BY <1>3, <2>3
      <4> QED  BY <1>2, <1>5, <2>0, <2>3, <4>1
    <3>2. pos[c] = pos[n]
      BY <1>1, <1>3
    <3> QED  BY <3>1, <3>2 DEF Fills
  <2>4. CASE j > c
    <3>1. j \in c + 1 .. n /\ j \in c .. n /\ j - 1 \in c .. n
      BY <1>1, <1>3, <2>4
    <3>2. u[j] = NoJob /\ new[j] = pos[n] /\ new[j - 1] = pos[n]
      BY <1>1, <1>2, <1>8, <3>1
    <3> QED  BY <3>2, NoJobFills
  <2> QED  BY <1>3, <2>0, <2>1, <2>2, <2>3, <2>4
<1>10. \A j \in c + 1 .. n : u[j] = NoJob
  BY <1>1, <1>2
<1>11. Lined(u, c, new)
  BY <1>1, <1>2, <1>5, <1>7, <1>8, <1>9, <1>10 DEF Lined
<1>12. OwnedBy(u) = OwnedBy(t)
  <2>1. /\ OwnedBy(u) = UNION {Buffers(u[j]) : j \in 1 .. n}
        /\ OwnedBy(t) = UNION {Buffers(t[j]) : j \in 1 .. n}
    BY <1>2 DEF OwnedBy, n
  <2>2. ASSUME NEW j \in 1 .. n  PROVE \E k \in 1 .. n : u[k] = t[j]
    <3>1. CASE j = 1
      BY <1>1, <1>2, <3>1
    <3>2. CASE j > 1 /\ j <= c
      <4>1. j - 1 \in 1 .. c - 1 /\ j - 1 \in 1 .. n /\ (j - 1) + 1 = j
        BY <1>1, <1>3, <3>2
      <4> QED  BY <1>2, <4>1
    <3>3. CASE j > c
      <4>1. j \in c + 1 .. n
        BY <1>1, <1>3, <3>3
      <4> QED  BY <1>2, <4>1
    <3> QED  BY <1>1, <1>3, <3>1, <3>2, <3>3, SMTT(30)
  <2>3. ASSUME NEW j \in 1 .. n  PROVE \E k \in 1 .. n : t[k] = u[j]
    <3>1. CASE j = c
      BY <1>2, <1>3, <3>1
    <3>2. CASE j < c
      <4>1. j \in 1 .. c - 1 /\ j + 1 \in 1 .. n
        BY <1>1, <1>3, <3>2
      <4> QED  BY <1>2, <4>1
    <3>3. CASE j > c
      <4>1. j \in c + 1 .. n
        BY <1>1, <1>3, <3>3
      <4> QED  BY <1>2, <4>1
    <3> QED  BY <1>1, <1>3, <3>1, <3>2, <3>3
  <2>4. \A x : x \in OwnedBy(u) => x \in OwnedBy(t)
    BY <2>1, <2>3
  <2>5. \A x : x \in OwnedBy(t) => x \in OwnedBy(u)
    BY <2>1, <2>2
  <2> QED  BY <2>4, <2>5
<1> QED  BY <1>2, <1>4, <1>6, <1>11, <1>12 DEF u, n

\* The head of a job list gets another packet list; another job in its place;
\* and is retired with it.
Refilled(q, r) == [q EXCEPT !.slots[1].ptr = ListPtr(r)]
WithHead(q, s) == [slots |-> Put(q.slots, 1, s), current |-> q.current]
WithLast(q, s) ==
    [slots   |-> IF q.current = 1 THEN Put(q.slots, 1, s) ELSE Rotated(Put(q.slots, 1, s), q.current),
     current |-> q.current]

\* The end of a job, slot by slot.
LEMMA RetireIs ==
    ASSUME NEW q \in QueueType, 1 \in 1 .. Len(q.slots), NEW l, NEW r, q.slots[1] = DataJob(l)
    PROVE  /\ Refilled(q, r) = WithHead(q, DataJob(r))
           /\ Retire(Refilled(q, r)) = WithLast(q, DoneJob(r))
<1> DEFINE a == DataJob(r)
           b == DoneJob(r)
           y == ListPtr(r)
           t == q.slots
           c == q.current
           v == Put(t, 1, a)
           u == Put(t, 1, b)
           js == [q EXCEPT !.slots[1].ptr = y]
<1>0. t \in Seq(JobType) /\ 1 \in 1 .. Len(t) /\ q = [slots |-> t, current |-> c]
  BY DEF QueueType
<1> HIDE DEF t, c
<1>1. [t[1] EXCEPT !.ptr = y] = a
  <2> DEFINE z == ListPtr(l)
             fl == {"WRITEV"}
  <2>1. t[1] = [active |-> TRUE, flags |-> fl, ptr |-> z] /\ a = [active |-> TRUE, flags |-> fl, ptr |-> y]
    BY DEF DataJob, t
  <2> HIDE DEF z, y, fl
  <2>2. [[active |-> TRUE, flags |-> fl, ptr |-> z] EXCEPT !.ptr = y] = [active |-> TRUE, flags |-> fl, ptr |-> y]
    BY FieldFacts, Zenon
  <2> HIDE DEF a
  <2> QED  BY <2>1, <2>2, Zenon
<1>2. [a EXCEPT !.active = FALSE] = b
  <2> DEFINE fl == {"WRITEV"}
  <2>1. a = [active |-> TRUE, flags |-> fl, ptr |-> y] /\ b = [active |-> FALSE, flags |-> fl, ptr |-> y]
    BY DEF DataJob, DoneJob
  <2> HIDE DEF y, fl, a, b
  <2>2. [[active |-> TRUE, flags |-> fl, ptr |-> y] EXCEPT !.active = FALSE] = [active |-> FALSE, flags |-> fl, ptr |-> y]
    BY FieldFacts, Zenon
  <2> QED  BY <2>1, <2>2, Zenon
<1> HIDE DEF a, b, y
<1>3. js = [slots |-> v, current |-> c]
  <2>1. [[slots |-> t, current |-> c] EXCEPT !.slots[1].ptr = y] =
          [slots |-> [t EXCEPT ![1] = [t[1] EXCEPT !.ptr = y]], current |-> c]
    OBVIOUS
  <2>2. js = [[slots |-> t, current |-> c] EXCEPT !.slots[1].ptr = y]
    BY <1>0, Zenon
  <2> QED  BY <1>1, <2>1, <2>2 DEF Put
<1> HIDE DEF js
<1>4. v[1] = a
  BY <1>0 DEF Put
<1>5. [js EXCEPT !.slots[1].active = FALSE] = [slots |-> [v EXCEPT ![1] = [v[1] EXCEPT !.active = FALSE]], current |-> c]
  <2> HIDE DEF v
  <2>1. \A z \in BOOLEAN : [js EXCEPT !.slots[1].active = z] =
          [slots |-> [v EXCEPT ![1] = [v[1] EXCEPT !.active = z]], current |-> c]
    BY <1>3
  <2>2. FALSE \in BOOLEAN
    OBVIOUS
  <2> QED  BY <2>1, <2>2, Zenon
<1>6. [js EXCEPT !.slots[1].active = FALSE] = [slots |-> [v EXCEPT ![1] = b], current |-> c]
  <2> HIDE DEF v
  <2> QED  BY <1>2, <1>4, <1>5
<1>7. [v EXCEPT ![1] = b] = u
  BY <1>0 DEF Put
<1> HIDE DEF u
<1>8. Retire(js) = HeadToCurrent([slots |-> u, current |-> c])
  BY <1>6, <1>7 DEF Retire
<1>9. HeadToCurrent([slots |-> u, current |-> c]) = [slots |-> IF c = 1 THEN u ELSE Rotated(u, c), current |-> c]
  BY DEF HeadToCurrent, Rotated
<1> QED  BY <1>3, <1>8, <1>9 DEF js, v, a, u, b, y, t, c, Refilled, WithHead, WithLast

\* One writev() of the job at the head of a busy list.
LEMMA SendRun ==
    ASSUME NEW q \in QueueType, NEW pos, Lined(q.slots, q.current, pos), Busy(q.slots, q.current),
           NEW avail \in Nat, avail > 0
    PROVE  LET l  == q.slots[1].ptr.list
               n  == Taken(l, avail)
               r  == Rest(l, avail)
               js == Refilled(q, r)
               x  == IF r.slots[1].used THEN js ELSE Retire(js)
               w  == pos[0] + n
           IN  /\ n \in 1 .. avail /\ w <= pos[Len(q.slots)] /\ pos[0] \in Nat
               /\ \A k \in 1 .. n : ByteOf(Chunk(l), k) = pos[0] + k
               /\ x \in QueueType /\ OwnedBy(x.slots) = OwnedBy(q.slots) \ Sent(l, avail)
               /\ \E pos2 : /\ Lined(x.slots, x.current, pos2) /\ pos2[0] = w
                            /\ pos2[Len(x.slots)] = pos[Len(q.slots)]
                            /\ r.slots[1].used => pos2[1] = pos[1]
               /\ r.slots[1].used => Busy(x.slots, x.current) /\ x.current = q.current
               /\ ~r.slots[1].used => /\ w = pos[1]
                                      /\ q.current = 1 => Idle(x.slots, x.current)
                                      /\ q.current > 1 => Ending(x.slots)
<1> DEFINE t == q.slots
           c == q.current
           m == Len(t)
           l == t[1].ptr.list
           n == Taken(l, avail)
           r == Rest(l, avail)
           js == Refilled(q, r)
           x == IF r.slots[1].used THEN js ELSE Retire(js)
           w == pos[0] + n
           D == Sent(l, avail)
           to == pos[1]
<1>1. /\ t \in Seq(JobType) /\ m \in Nat /\ c \in 1 .. m /\ c \in Nat /\ pos \in [0 .. m -> Nat]
      /\ \A i, j \in 0 .. m : i <= j => pos[i] <= pos[j]
      /\ \A j \in 1 .. m : Fills(t[j], pos[j - 1], pos[j], j = 1)
      /\ q = [slots |-> t, current |-> c]
  BY DEF Lined, QueueType
<1>2. 1 \in 1 .. m /\ 1 \in 0 .. m /\ 0 \in 0 .. m /\ m \in 0 .. m /\ 1 \in 1 .. c /\ 1 <= m /\ m \in 1 .. m
  BY <1>1
<1>3. /\ t[1].flags = {"WRITEV"} /\ t[1].active /\ (\A j \in 1 .. c : t[j].active)
      /\ c > 1 => t[2] = EndJob
  BY <1>2 DEF Busy
<1>4. Fills(t[1], pos[0], to, TRUE)
  <2>1. \A j \in 1 .. m : j - 1 = 0 /\ (j = 1) = TRUE => Fills(t[j], pos[0], pos[j], TRUE)
    BY <1>1
  <2>2. 1 - 1 = 0 /\ (1 = 1) = TRUE
    OBVIOUS
  <2> QED  BY <1>2, <2>1, <2>2
<1>5. t[1] = DataJob(l) /\ Stretch(l, pos[0], to, TRUE) /\ l.current > 1
  <2>1. t[1] # EndJob /\ ~Spent(t[1])
    BY <1>3, JobFields DEF Spent
  <2>2. PICK k \in ListType : t[1] = DataJob(k) /\ Stretch(k, pos[0], to, TRUE) /\ k.current > 1
    BY <1>4, <2>1 DEF Fills, Holds
  <2>3. l = k
    BY <2>2, JobFields
  <2> QED  BY <2>2, <2>3
<1> HIDE DEF l, t, c, m, to
<1>6. /\ n \in 1 .. avail /\ w <= to /\ pos[0] \in Nat /\ to \in Nat
      /\ \A k \in 1 .. n : ByteOf(Chunk(l), k) = pos[0] + k
      /\ r \in ListType
      /\ OwnedIn(r) = OwnedIn(l) \ D
      /\ D \subseteq 1 .. to
      /\ r.slots[1].used => Holds(DataJob(r), w, to, TRUE)
      /\ ~r.slots[1].used => w = to /\ Empty(r)
  BY <1>5, ServeRun
<1> HIDE DEF n, r, D
<1>7. pos[1] <= pos[m] /\ pos[m] \in Nat
  BY <1>1, <1>2
<1>8. w \in Nat /\ pos[0] <= w /\ w <= pos[1] /\ w <= pos[m]
  <2>1. n \in Nat
    BY <1>6
  <2> HIDE DEF w
  <2>2. w \in Nat /\ pos[0] <= w
    BY <1>6, <2>1 DEF w
  <2> QED  BY <1>6, <1>7, <2>2 DEF to
<1> HIDE DEF w
<1> DEFINE Goal == /\ x \in QueueType /\ OwnedBy(x.slots) = OwnedBy(t) \ D
                   /\ \E pos2 : /\ Lined(x.slots, x.current, pos2) /\ pos2[0] = w
                                /\ pos2[Len(x.slots)] = pos[m]
                                /\ r.slots[1].used => pos2[1] = pos[1]
                   /\ r.slots[1].used => Busy(x.slots, x.current) /\ x.current = c
                   /\ ~r.slots[1].used => /\ w = pos[1]
                                          /\ c = 1 => Idle(x.slots, x.current)
                                          /\ c > 1 => Ending(x.slots)
<1>9. js = WithHead(q, DataJob(r)) /\ Retire(js) = WithLast(q, DoneJob(r))
  BY <1>1, <1>2, <1>5, RetireIs, SMTT(30) DEF t, m
<1> HIDE DEF js
<1>10. Buffers(t[1]) = OwnedIn(l) /\ Buffers(DataJob(r)) = OwnedIn(r) /\ Buffers(DoneJob(r)) = OwnedIn(r)
  BY <1>5, JobFields DEF Buffers
<1>11. ASSUME r.slots[1].used  PROVE Goal
  <2> DEFINE s == DataJob(r)
             u == Put(t, 1, s)
  <2>1. Served(t, c, pos, s, w, D)
    <3>1. Fills(s, w, pos[1], TRUE)
      BY <1>6, <1>11 DEF Fills, to
    <3>2. Buffers(s) = Buffers(t[1]) \ D /\ D \subseteq 1 .. pos[1]
      BY <1>6, <1>10 DEF to
    <3> HIDE DEF s
    <3> QED  BY <1>8, <3>1, <3>2 DEF Served, t, c
  <2>2. s.active /\ s.flags = {"WRITEV"}
    BY JobFields
  <2> HIDE DEF s
  <2>3. /\ u \in Seq(JobType) /\ Len(u) = m /\ u[1] = s
        /\ \A j \in 2 .. m : u[j] = t[j]
        /\ OwnedBy(u) = OwnedBy(t) \ D
        /\ \E pos2 : /\ Lined(u, c, pos2) /\ pos2[0] = w
                     /\ \A i \in 1 .. m : pos2[i] = pos[i]
    BY <2>1, HeadRun DEF m
  <2> HIDE DEF u
  <2>4. x = [slots |-> u, current |-> c]
    BY <1>9, <1>11 DEF u, s, WithHead, t, c
  <2> HIDE DEF x
  <2>5. x.slots = u /\ x.current = c /\ x \in QueueType
    BY <1>1, <2>3, <2>4 DEF QueueType
  <2>6. Busy(u, c)
    <3>1. \A j \in 1 .. c : j = 1 \/ j \in 2 .. m
      BY <1>1
    <3>2. \A j \in 1 .. c : u[j].active
      BY <1>3, <2>2, <2>3, <3>1
    <3>3. c > 1 => 2 \in 2 .. m
      BY <1>1
    <3> QED  BY <1>3, <2>2, <2>3, <3>2, <3>3 DEF Busy
  <2> QED  BY <1>2, <1>11, <2>3, <2>5, <2>6
<1>12. ASSUME ~r.slots[1].used  PROVE Goal
  <2> DEFINE s == DoneJob(r)
             u == Put(t, 1, s)
             v == IF c = 1 THEN u ELSE Rotated(u, c)
  <2>0. Spent(s)
    BY <1>6, <1>12 DEF Spent
  <2>1. Served(t, c, pos, s, w, D)
    <3>1. Fills(s, w, pos[1], TRUE)
      BY <1>6, <1>12, <2>0 DEF Fills, to
    <3>2. Buffers(s) = Buffers(t[1]) \ D /\ D \subseteq 1 .. pos[1]
      BY <1>6, <1>10 DEF to
    <3> HIDE DEF s
    <3> QED  BY <1>8, <3>1, <3>2 DEF Served, t, c
  <2>2. ~s.active
    BY JobFields
  <2> HIDE DEF s
  <2>3. /\ u \in Seq(JobType) /\ Len(u) = m /\ u[1] = s
        /\ \A j \in 2 .. m : u[j] = t[j]
        /\ OwnedBy(u) = OwnedBy(t) \ D
        /\ \E pos2 : /\ Lined(u, c, pos2) /\ pos2[0] = w
                     /\ \A i \in 1 .. m : pos2[i] = pos[i]
    BY <2>1, HeadRun DEF m
  <2> HIDE DEF u
  <2>4. x = [slots |-> v, current |-> c]
    BY <1>9, <1>12 DEF u, s, WithLast, t, c
  <2> HIDE DEF x
  <2>5. PICK po : Lined(u, c, po) /\ po[0] = w /\ \A i \in 1 .. m : po[i] = pos[i]
    BY <2>3
  <2>6. w = pos[1] /\ po[1] = pos[1] /\ po[m] = pos[m]
    BY <1>2, <1>6, <1>12, <2>5 DEF to
  <2>7. CASE c = 1
    <3>1. x.slots = u /\ x.current = c /\ x \in QueueType
      BY <1>1, <2>3, <2>4, <2>7 DEF QueueType
    <3>2. Idle(u, c)
      BY <2>2, <2>3, <2>7 DEF Idle
    <3>3. ~(c > 1)
      BY <2>7
    <3> QED  BY <1>12, <2>3, <2>5, <2>6, <3>1, <3>2, <3>3
  <2>8. CASE c > 1
    <3>1. u[2] = EndJob
      <4>1. 2 \in 2 .. m
        BY <1>1, <2>8
      <4> QED  BY <1>3, <2>3, <2>8, <4>1
    <3>2. po[0] = po[1] /\ Spent(u[1])
      BY <2>0, <2>3, <2>5, <2>6
    <3> DEFINE z == Rotated(u, c)
    <3>3. /\ z \in Seq(JobType) /\ Len(z) = Len(u) /\ z[1] = EndJob
          /\ OwnedBy(z) = OwnedBy(u)
          /\ \E pos2 : Lined(z, c, pos2) /\ pos2[0] = po[0] /\ pos2[Len(u)] = po[Len(u)]
      BY <2>5, <2>8, <3>1, <3>2, RotateRun
    <3>4. c # 1
      BY <1>1, <2>8
    <3>5. v = z
      BY <3>4
    <3> HIDE DEF z, v
    <3>6. x.slots = z /\ x.current = c /\ x \in QueueType
      BY <1>1, <2>4, <3>3, <3>5 DEF QueueType
    <3>7. Ending(z)
      BY <3>3 DEF Ending
    <3> QED  BY <1>12, <2>3, <2>5, <2>6, <3>3, <3>4, <3>6, <3>7
  <2> QED  BY <1>1, <2>7, <2>8, SMTT(30)
<1>13. Goal
  BY <1>11, <1>12
<1> HIDE DEF x
<1> QED  BY <1>6, <1>8, <1>13 DEF t, c, m, l, n, r, js, x, w, D, to

\* A list with nothing to do is a place of no byte, anywhere in the stream.
LEMMA IdleRun ==
    ASSUME NEW t, NEW c, NEW pos, Lined(t, c, pos), Idle(t, c)
    PROVE  /\ pos[0] = pos[Len(t)] /\ OwnedBy(t) = {} /\ (\A j \in 1 .. Len(t) : ~t[j].active)
           /\ \A x \in Nat : \E pos2 : Lined(t, c, pos2) /\ pos2[0] = x /\ pos2[Len(t)] = x
<1> DEFINE n == Len(t)
<1>1. /\ t \in Seq(JobType) /\ n \in Nat /\ c \in 1 .. n /\ pos \in [0 .. n -> Nat]
      /\ \A j \in 1 .. n : Fills(t[j], pos[j - 1], pos[j], j = 1)
      /\ \A j \in c .. n : pos[j] = pos[n]
      /\ \A j \in c + 1 .. n : t[j] = NoJob
  BY DEF Lined
<1>2. c = 1 /\ ~t[1].active
  BY DEF Idle
<1> HIDE DEF n
<1>3. 1 \in 1 .. n /\ 1 \in c .. n /\ 0 \in 0 .. n /\ n \in 0 .. n /\ c + 1 = 2
  BY <1>1, <1>2
<1>4. Fills(t[1], pos[0], pos[1], TRUE)
  <2>1. \A j \in 1 .. n : j - 1 = 0 /\ (j = 1) = TRUE => Fills(t[j], pos[0], pos[j], TRUE)
    BY <1>1
  <2>2. 1 - 1 = 0 /\ (1 = 1) = TRUE
    OBVIOUS
  <2> QED  BY <1>3, <2>1, <2>2
<1>5. pos[0] = pos[1] /\ Spent(t[1])
  <2>1. t[1] # EndJob /\ \A l : t[1] # DataJob(l)
    BY <1>2, JobFields
  <2> QED  BY <1>4, <2>1 DEF Fills, Holds
<1>6. \A j \in 1 .. n : j = 1 \/ j \in c + 1 .. n
  BY <1>1, <1>2
<1>7. \A j \in 1 .. n : Spent(t[j]) /\ ~t[j].active
  BY <1>1, <1>2, <1>5, <1>6, JobFields DEF Spent
<1>8. ASSUME NEW j \in 1 .. n  PROVE Buffers(t[j]) = {}
  <2>1. Fills(t[j], 0, 0, TRUE) /\ TRUE \in BOOLEAN /\ 0 \in Nat
    BY <1>7 DEF Fills
  <2> QED  BY <1>7, <2>1, BuffersAre
<1>9. OwnedBy(t) = {}
  BY <1>8 DEF OwnedBy, n
<1>10. ASSUME NEW x \in Nat  PROVE \E pos2 : Lined(t, c, pos2) /\ pos2[0] = x /\ pos2[n] = x
  <2> DEFINE new == [i \in 0 .. n |-> x]
  <2>1. new \in [0 .. n -> Nat] /\ \A i \in 0 .. n : new[i] = x
    OBVIOUS
  <2> HIDE DEF new
  <2>2. ASSUME NEW j \in 1 .. n  PROVE Fills(t[j], new[j - 1], new[j], j = 1)
    <3>1. j \in 0 .. n /\ j - 1 \in 0 .. n
      BY <1>1
    <3>2. new[j - 1] = new[j] /\ Spent(t[j])
      BY <1>7, <2>1, <3>1
    <3> QED  BY <3>2 DEF Fills
  <2>3. \A i, k \in 0 .. n : i <= k => new[i] <= new[k]
    BY <2>1
  <2>4. \A j \in c .. n : new[j] = new[n]
    <3>1. \A j \in c .. n : j \in 0 .. n
      BY <1>1
    <3> QED  BY <1>3, <2>1, <3>1
  <2>5. Lined(t, c, new)
    BY <1>1, <2>1, <2>2, <2>3, <2>4 DEF Lined, n
  <2> QED  BY <1>3, <2>1, <2>5
<1>11. pos[0] = pos[n]
  BY <1>1, <1>3, <1>5
<1> QED  BY <1>7, <1>9, <1>10, <1>11 DEF n

\* A fresh job list.
LEMMA NewJobs ==
    LET q == NewPoolList(NoJob, 2)
    IN  /\ q \in QueueType /\ Idle(q.slots, q.current) /\ Len(q.slots) \in Nat
        /\ OwnedBy(q.slots) = {}
        /\ \A x \in Nat : \E pos : Lined(q.slots, q.current, pos) /\ pos[0] = x /\ pos[Len(q.slots)] = x
<1> DEFINE b == Block(NoJob, 2)
           q == NewPoolList(NoJob, 2)
           at == [i \in 0 .. 2 |-> 0]
<1>1. NoJob \in JobType /\ ~NoJob.active
  BY JobFields
<1>2. b \in Seq(JobType) /\ Len(b) = 2 /\ \A i \in 1 .. 2 : b[i] = NoJob
  <2> HIDE DEF NoJob
  <2> QED  BY <1>1 DEF Block
<1> HIDE DEF b
<1>3. q = [slots |-> b, current |-> 1]
  BY DEF NewPoolList, b
<1>4. q.slots = b /\ q.current = 1 /\ q \in QueueType
  BY <1>2, <1>3 DEF QueueType
<1>5. Idle(b, 1)
  BY <1>1, <1>2 DEF Idle
<1>6. at \in [0 .. 2 -> Nat] /\ \A i \in 0 .. 2 : at[i] = 0
  OBVIOUS
<1> HIDE DEF at, q
<1>7. Lined(b, 1, at)
  <2>1. ASSUME NEW j \in 1 .. 2  PROVE Fills(b[j], at[j - 1], at[j], j = 1)
    <3>1. at[j - 1] = at[j] /\ b[j] = NoJob
      BY <1>2, <1>6
    <3> QED  BY <3>1 DEF Fills, Spent
  <2>2. (\A i, k \in 0 .. 2 : i <= k => at[i] <= at[k]) /\ \A j \in 1 .. 2 : at[j] = at[2]
    BY <1>6
  <2>3. \A j \in 1 + 1 .. 2 : b[j] = NoJob
    BY <1>2
  <2> QED  BY <1>2, <1>6, <2>1, <2>2, <2>3 DEF Lined
<1>8. /\ OwnedBy(b) = {}
      /\ \A x \in Nat : \E pos : Lined(b, 1, pos) /\ pos[0] = x /\ pos[Len(b)] = x
  BY <1>5, <1>7, IdleRun
<1>9. Len(b) \in Nat
  BY <1>2
<1> QED  BY <1>4, <1>5, <1>8, <1>9 DEF q

\* The bytes of a stretch (ape_socket_packet_pool_cleaner).
LEMMA HeldIs ==
    ASSUME NEW l, NEW from, NEW to, NEW first, Stretch(l, from, to, first)
    PROVE  HeldBy(l) = to - from
<1> DEFINE c == l.current
           n == Len(l.slots)
<1>1. /\ l \in ListType /\ l.slots \in Seq(PacketType) /\ n \in Nat /\ c \in 1 .. n
      /\ Pending(l) = 1 .. c - 1 /\ from \in Nat /\ to \in Nat
  BY PendingIs
<1>2. PICK at \in [0 .. n -> Nat] :
         Placed(l, at, first) /\ at[0] = from /\ at[c - 1] = to /\ at[n] = to
  BY DEF Stretch
<1> DEFINE q == [i \in DOMAIN l.slots |-> IF i \in Pending(l) THEN Left(l.slots[i]) ELSE 0]
           g == [i \in 0 .. n |-> at[i] - from]
<1>3. ASSUME NEW i \in 1 .. n
      PROVE  /\ (IF i \in Pending(l) THEN Left(l.slots[i]) ELSE 0) = at[i] - at[i - 1]
             /\ at[i] \in Nat /\ at[i - 1] \in Nat /\ i \in 0 .. n /\ i - 1 \in 0 .. n
  <2>1. i \in 0 .. n /\ i - 1 \in 0 .. n /\ c - 1 \in 0 .. n /\ n \in 0 .. n
    BY <1>1
  <2>2. at[i] \in Nat /\ at[i - 1] \in Nat
    BY <2>1
  <2>3. CASE i < c
    <3> DEFINE b == l.slots[i].base
               o == l.slots[i].off
               e == l.slots[i].len
    <3>1. b + o = at[i - 1] /\ b + e = at[i]
      BY <1>2, <2>3 DEF Placed
    <3>2. b \in Nat /\ o \in Nat /\ e \in Nat
      <4>1. l.slots[i] \in PacketType
        BY <1>1
      <4> QED  BY <4>1, JobsAssumption DEF PacketType
    <3>3. Left(l.slots[i]) = e - o /\ i \in Pending(l)
      BY <1>1, <2>3 DEF Left
    <3> HIDE DEF b, o, e
    <3>4. e - o = (b + e) - (b + o)
      BY <3>2
    <3> QED  BY <2>1, <2>2, <3>1, <3>3, <3>4
  <2>4. CASE ~(i < c)
    <3>1. i \notin Pending(l) /\ c - 1 <= i - 1 /\ c - 1 <= i /\ i - 1 <= n /\ i <= n
      BY <1>1, <2>4
    <3>2. at[c - 1] <= at[i - 1] /\ at[i - 1] <= at[n] /\ at[c - 1] <= at[i] /\ at[i] <= at[n]
      BY <1>2, <2>1, <3>1 DEF Placed
    <3>3. at[i] = to /\ at[i - 1] = to
      BY <1>1, <1>2, <2>2, <3>2
    <3> QED  BY <1>1, <2>1, <2>2, <3>1, <3>3
  <2> QED  BY <2>3, <2>4
<1>4. DOMAIN l.slots = 1 .. n
  BY <1>1
<1>5. q \in Seq(Int) /\ Len(q) = n /\ \A i \in 1 .. n : q[i] = at[i] - at[i - 1]
  <2>1. q = [i \in 1 .. n |-> IF i \in Pending(l) THEN Left(l.slots[i]) ELSE 0]
    BY <1>4
  <2>2. \A i \in 1 .. n : (IF i \in Pending(l) THEN Left(l.slots[i]) ELSE 0) \in Int
    BY <1>3
  <2> DEFINE v(i) == IF i \in Pending(l) THEN Left(l.slots[i]) ELSE 0
  <2>3. \A i \in 1 .. n : v(i) \in Int /\ v(i) = at[i] - at[i - 1]
    BY <1>3, <2>2
  <2>4. q = [i \in 1 .. n |-> v(i)]
    BY <2>1
  <2> HIDE DEF v, q, n
  <2>5. q \in Seq(Int) /\ Len(q) = n /\ \A i \in 1 .. n : q[i] = v(i)
    BY <1>1, <2>3, <2>4
  <2> QED  BY <2>3, <2>5
<1>6. g \in [0 .. n -> Int] /\ \A i \in 0 .. n : g[i] = at[i] - from
  BY <1>1
<1>7. HeldBy(l) = Totals(q)[n]
  BY DEF HeldBy
<1> HIDE DEF q, g, n, c
<1>8. g[0] = 0 /\ \A i \in 1 .. n : g[i] = g[i - 1] + q[i]
  <2>1. g[0] = 0
    BY <1>1, <1>2, <1>6
  <2>2. ASSUME NEW i \in 1 .. n  PROVE g[i] = g[i - 1] + q[i]
    <3>1. g[i] = at[i] - from /\ g[i - 1] = at[i - 1] - from /\ q[i] = at[i] - at[i - 1]
      BY <1>3, <1>5, <1>6
    <3> DEFINE a == at[i]
               d == at[i - 1]
    <3>2. a \in Nat /\ d \in Nat /\ from \in Nat
      BY <1>1, <1>3
    <3> HIDE DEF a, d
    <3>3. a - from = (d - from) + (a - d)
      BY <3>2
    <3> QED  BY <3>1, <3>3 DEF a, d
  <2> QED  BY <2>1, <2>2
<1>9. Totals(q) = g
  BY <1>5, <1>6, <1>8, TotalsAre
<1> QED  BY <1>1, <1>2, <1>6, <1>7, <1>9

\* The slots whose lists ape_socket_job_pool_cleaner goes through are those
\* with bytes to send.
LEMMA CleanedIs ==
    ASSUME NEW pos, Lined(jobs.slots, jobs.current, pos), NEW j \in 1 .. Len(jobs.slots)
    PROVE  /\ j \in Cleaned => /\ jobs.slots[j] = DataJob(jobs.slots[j].ptr.list)
                               /\ HeldBy(jobs.slots[j].ptr.list) = pos[j] - pos[j - 1]
           /\ j \notin Cleaned => pos[j] = pos[j - 1] /\ Buffers(jobs.slots[j]) = {}
           /\ pos[j] \in Nat /\ pos[j - 1] \in Nat
<1> DEFINE t == jobs.slots
           n == Len(t)
           s == t[j]
           from == pos[j - 1]
           to == pos[j]
           first == (j = 1)
<1>1. t \in Seq(JobType) /\ n \in Nat /\ pos \in [0 .. n -> Nat] /\ Fills(s, from, to, first)
  BY DEF Lined
<1>2. j \in 0 .. n /\ j - 1 \in 0 .. n /\ first \in BOOLEAN /\ j \in DOMAIN t
  BY <1>1
<1>3. from \in Nat /\ to \in Nat
  BY <1>1, <1>2
<1>4. j \in Cleaned <=> s.active /\ s.flags = {"WRITEV"}
  BY <1>2 DEF Cleaned
<1> HIDE DEF s, from, to, first
<1>5. CASE \E l \in ListType : s = DataJob(l) /\ Stretch(l, from, to, first) /\ l.current > 1
  <2>1. PICK l \in ListType : s = DataJob(l) /\ Stretch(l, from, to, first)
    BY <1>5
  <2>2. s.active /\ s.flags = {"WRITEV"} /\ s.ptr.list = l
    BY <2>1, JobFields
  <2>3. HeldBy(l) = to - from
    BY <2>1, HeldIs
  <2> QED  BY <1>3, <1>4, <2>1, <2>2, <2>3 DEF s, from, to
<1>6. CASE from = to /\ (s = EndJob \/ Spent(s))
  <2>1. ~(s.active /\ s.flags = {"WRITEV"}) /\ (~s.active \/ s = EndJob)
    BY <1>6, JobFields DEF Spent
  <2>2. Buffers(s) = {}
    BY <1>1, <1>2, <1>3, <2>1, BuffersAre
  <2> QED  BY <1>3, <1>4, <1>6, <2>1, <2>2 DEF s, from, to
<1> QED  BY <1>1, <1>5, <1>6 DEF Fills, Holds

\* Freeing a socket gives back what its jobs still hold: bytes and buffers.
LEMMA FreeRun ==
    ASSUME NEW pos, Lined(jobs.slots, jobs.current, pos)
    PROVE  /\ CleanedBytes = pos[Len(jobs.slots)] - pos[0]
           /\ OwnedBy(jobs.slots) \
                UNION {{jobs.slots[j].ptr.list.slots[i].base + 1 :
                          i \in Pending(jobs.slots[j].ptr.list)} : j \in Cleaned} = {}
<1> DEFINE t == jobs.slots
           n == Len(t)
           v(j) == IF j \in Cleaned THEN HeldBy(t[j].ptr.list) ELSE 0
           q == [j \in 1 .. n |-> v(j)]
           g == [j \in 0 .. n |-> pos[j] - pos[0]]
<1>1. /\ t \in Seq(JobType) /\ n \in Nat /\ DOMAIN t = 1 .. n /\ pos \in [0 .. n -> Nat]
  BY DEF Lined
<1>2. ASSUME NEW j \in 1 .. n
      PROVE  /\ j \in Cleaned => t[j] = DataJob(t[j].ptr.list)
             /\ j \notin Cleaned => Buffers(t[j]) = {}
             /\ v(j) = pos[j] - pos[j - 1] /\ v(j) \in Int
             /\ pos[j] \in Nat /\ pos[j - 1] \in Nat
  <2>1. /\ j \in Cleaned => /\ t[j] = DataJob(t[j].ptr.list)
                            /\ HeldBy(t[j].ptr.list) = pos[j] - pos[j - 1]
        /\ j \notin Cleaned => pos[j] = pos[j - 1] /\ Buffers(t[j]) = {}
        /\ pos[j] \in Nat /\ pos[j - 1] \in Nat
    BY CleanedIs
  <2> HIDE DEF t
  <2> QED  BY <2>1
<1>3. CleanedBytes = Totals(q)[n]
  BY <1>1 DEF CleanedBytes
<1> HIDE DEF v, t
<1>4. q \in Seq(Int) /\ Len(q) = n /\ \A j \in 1 .. n : q[j] = v(j)
  <2> HIDE DEF n
  <2> QED  BY <1>1, <1>2
<1>5. g \in [0 .. n -> Int] /\ \A j \in 0 .. n : g[j] = pos[j] - pos[0]
  BY <1>1
<1> HIDE DEF q, g, n
<1>6. g[0] = 0 /\ \A j \in 1 .. n : g[j] = g[j - 1] + q[j]
  <2>0. 0 \in 0 .. n
    BY <1>1
  <2>1. g[0] = 0 /\ pos[0] \in Nat
    BY <1>1, <1>5, <2>0
  <2>2. ASSUME NEW j \in 1 .. n  PROVE g[j] = g[j - 1] + q[j]
    <3> DEFINE a == pos[j]
               d == pos[j - 1]
               o == pos[0]
    <3>0. j \in 0 .. n /\ j - 1 \in 0 .. n
      BY <1>1
    <3>1. g[j] = a - o /\ g[j - 1] = d - o /\ q[j] = a - d
      BY <1>2, <1>4, <1>5, <3>0
    <3>2. a \in Nat /\ d \in Nat /\ o \in Nat
      BY <1>2, <2>1
    <3> HIDE DEF a, d, o
    <3>3. a - o = (d - o) + (a - d)
      BY <3>2
    <3> QED  BY <3>1, <3>3
  <2> QED  BY <2>1, <2>2
<1>7. Totals(q) = g
  BY <1>4, <1>5, <1>6, TotalsAre
<1>8. n \in 0 .. n
  BY <1>1
<1>9. CleanedBytes = pos[n] - pos[0]
  BY <1>3, <1>5, <1>7, <1>8
<1>10. ASSUME NEW x \in OwnedBy(t)
       PROVE  \E j \in Cleaned : x \in {t[j].ptr.list.slots[i].base + 1 : i \in Pending(t[j].ptr.list)}
  <2>1. PICK j \in 1 .. n : x \in Buffers(t[j])
    BY DEF OwnedBy, n
  <2>2. j \in Cleaned /\ t[j] = DataJob(t[j].ptr.list)
    BY <1>2, <2>1
  <2> DEFINE l == t[j].ptr.list
  <2>3. Buffers(t[j]) = OwnedIn(l)
    <3>1. t[j].ptr.kind = "list"
      BY <2>2, JobFields
    <3> QED  BY <3>1 DEF Buffers
  <2> HIDE DEF l
  <2>4. \E i \in Pending(l) : x = l.slots[i].base + 1
    BY <2>1, <2>3 DEF OwnedIn
  <2> QED  BY <2>2, <2>4 DEF l
<1> QED  BY <1>9, <1>10 DEF t, n

-----------------------------------------------------------------------------
(* The inductive invariant, for an application that writes and shuts down, *)
(* no room appearing between the two write() calls of one                  *)
(* APE_socket_write.                                                       *)

WritesOnly == FileLens = {} /\ VecLens = {} /\ AckDuringWrite = FALSE

Kinds ==
    /\ state \in {"ONLINE", "SHUTDOWN", "FREED"}
    /\ wb \in BOOLEAN /\ nospace \in BOOLEAN /\ edge \in BOOLEAN
    /\ room \in 0 .. SndBuf /\ pc \in {"idle", "read", "jobs"} /\ njobs \in {0, 1}
    /\ accepted \in 0 .. MaxStream /\ promise \in -1 .. MaxStream
    /\ how \in {"none", "graceful", "forced"}
    /\ buffered \in 0 .. MaxStream
    /\ jobs \in QueueType

\* What went out is the beginning of the stream
WireInv == wire \in Seq(Nat) /\ \A i \in 1 .. Len(wire) : wire[i] = i

\* What the jobs hold is what follows, up to the last byte accepted; a
\* shutdown behind the first job comes after everything it waits for
LineAt(pos) ==
    /\ Lined(jobs.slots, jobs.current, pos) /\ pos[0] = Len(wire)
    /\ pos[Len(jobs.slots)] <= accepted
    /\ state = "ONLINE" => pos[Len(jobs.slots)] = accepted
    /\ state # "FREED" => buffered = pos[Len(jobs.slots)] - Len(wire)
    /\ Busy(jobs.slots, jobs.current) /\ jobs.current > 1 => promise <= pos[1]
LineInv == \E pos : LineAt(pos)

MemInv ==
    /\ heap = OwnedBy(jobs.slots)
    /\ total = IF state = "FREED" THEN 0 ELSE buffered

IsBusy   == Busy(jobs.slots, jobs.current)
IsIdle   == Idle(jobs.slots, jobs.current)
IsEnding == Ending(jobs.slots)

ShapeInv ==
    /\ IsBusy \/ IsIdle \/ IsEnding
    /\ pc = "jobs" => state = "ONLINE"
    /\ state = "ONLINE" <=> how = "none"
    /\ how = "graceful" => Len(wire) >= promise

\* Who is to move while the socket is online
TurnInv ==
    state = "ONLINE" =>
        /\ IsEnding => pc = "jobs" /\ promise # -1 /\ Len(wire) >= promise
        /\ wb => IsBusy /\ (edge \/ nospace) /\ pc # "jobs"
        /\ pc = "idle" /\ IsBusy => wb
        /\ pc = "jobs" /\ IsBusy => njobs = 0
        /\ IsIdle => promise = -1
        /\ IsBusy => (jobs.current = 1 <=> promise = -1)

OutInv == Kinds /\ WireInv /\ LineInv /\ MemInv /\ ShapeInv /\ TurnInv

\* The shapes exclude each other, and the head tells them apart.
LEMMA Shapes ==
    ASSUME OutInv
    PROVE  /\ IsBusy => HeadJob.active /\ HeadJob.flags = {"WRITEV"} /\ ~IsIdle /\ ~IsEnding
           /\ IsIdle => ~HeadJob.active /\ ~IsEnding
           /\ IsEnding => HeadJob.active /\ HeadJob.flags = {"SHUTDOWN"}
           /\ jobs.slots \in Seq(JobType) /\ Len(jobs.slots) \in Nat
           /\ jobs.current \in 1 .. Len(jobs.slots) /\ Len(wire) \in Nat /\ Len(wire) <= accepted
<1>1. PICK pos : LineAt(pos)
  BY DEF OutInv, LineInv
<1>2. /\ jobs.slots \in Seq(JobType) /\ Len(jobs.slots) \in Nat
      /\ jobs.current \in 1 .. Len(jobs.slots)
  BY <1>1 DEF LineAt, Lined
<1>3. 1 \in 1 .. jobs.current
  BY <1>2
<1>4. IsBusy => HeadJob.active /\ HeadJob.flags = {"WRITEV"}
  BY <1>3 DEF IsBusy, Busy, HeadJob
<1>5. IsIdle => ~HeadJob.active
  BY DEF IsIdle, Idle, HeadJob
<1>6. IsEnding => HeadJob.active /\ HeadJob.flags = {"SHUTDOWN"}
  BY JobFields DEF IsEnding, Ending, HeadJob
<1>7. {"WRITEV"} # {"SHUTDOWN"}
  BY JobFields
<1>8. Len(wire) \in Nat /\ Len(wire) <= accepted
  <2>1. Len(wire) \in Nat
    BY DEF OutInv, WireInv
  <2> DEFINE n == Len(jobs.slots)
  <2>2. pos \in [0 .. n -> Nat] /\ 0 \in 0 .. n /\ n \in 0 .. n
        /\ \A i, k \in 0 .. n : i <= k => pos[i] <= pos[k]
    BY <1>1, <1>2 DEF LineAt, Lined
  <2>3. pos[0] <= pos[n] /\ pos[n] \in Nat /\ pos[0] \in Nat
    BY <1>2, <2>2
  <2>4. pos[0] = Len(wire) /\ pos[n] <= accepted /\ accepted \in Nat
    BY <1>1, JobsAssumption DEF LineAt, OutInv, Kinds
  <2> HIDE DEF n
  <2> QED  BY <2>1, <2>3, <2>4
<1> QED  BY <1>2, <1>4, <1>5, <1>6, <1>7, <1>8

\* A call finds the list busy or idle, as Blocked says.
LEMMA CallFinds ==
    ASSUME OutInv, AppRuns
    PROVE  (Blocked => IsBusy) /\ (~Blocked => IsIdle)
<1>1. ~IsEnding
  BY DEF AppRuns, OutInv, TurnInv
<1>2. wb => IsBusy
  BY DEF AppRuns, OutInv, TurnInv
<1>3. IsBusy \/ IsIdle
  BY <1>1 DEF OutInv, ShapeInv
<1>4. (IsBusy => HeadJob.active) /\ (IsIdle => ~HeadJob.active)
  BY Shapes
<1> QED  BY <1>2, <1>3, <1>4 DEF Blocked

\* An idle list: everything accepted went out.
LEMMA IdleIs ==
    ASSUME OutInv, IsIdle, state = "ONLINE"
    PROVE  /\ Len(wire) = accepted /\ buffered = 0 /\ heap = {}
           /\ \A x \in Nat : \E pos : /\ Lined(jobs.slots, jobs.current, pos)
                                      /\ pos[0] = x /\ pos[Len(jobs.slots)] = x
<1>1. PICK pos : LineAt(pos)
  BY DEF OutInv, LineInv
<1>2. Lined(jobs.slots, jobs.current, pos) /\ pos[0] = Len(wire) /\ pos[Len(jobs.slots)] = accepted
      /\ buffered = pos[Len(jobs.slots)] - Len(wire)
  BY <1>1 DEF LineAt
<1>3. /\ pos[0] = pos[Len(jobs.slots)] /\ OwnedBy(jobs.slots) = {}
      /\ \A x \in Nat : \E pos2 : /\ Lined(jobs.slots, jobs.current, pos2)
                                  /\ pos2[0] = x /\ pos2[Len(jobs.slots)] = x
  BY <1>2, IdleRun DEF IsIdle
<1>4. accepted \in Nat
  BY JobsAssumption DEF OutInv, Kinds
<1> QED  BY <1>2, <1>3, <1>4 DEF OutInv, MemInv

\* What ape_socket_queue_data does to the list, the accounts and the heap.
LEMMA QueueStep ==
    ASSUME NEW pos, Lined(jobs.slots, jobs.current, pos), jobs \in QueueType, IsBusy \/ IsIdle,
           NEW len \in Nat, NEW off \in Nat, off < len, NEW cls \in {"copy", "auto", "own"},
           pos[Len(jobs.slots)] = accepted + off, HeadJob.active => off = 0,
           accepted \in Nat, accepted + len <= MaxStream, heap = OwnedBy(jobs.slots),
           QueueData(len, off, cls)
    PROVE  /\ jobs' \in QueueType /\ IsBusy' /\ (jobs'.current = 1 <=> jobs.current = 1)
           /\ \E pos2 : /\ Lined(jobs'.slots, jobs'.current, pos2) /\ pos2[0] = pos[0]
                        /\ pos2[Len(jobs'.slots)] = accepted + len
                        /\ jobs'.current > 1 => pos2[1] = pos[1]
           /\ heap' = OwnedBy(jobs'.slots)
           /\ buffered' = buffered + (len - off) /\ total' = total + (len - off)
           /\ pc' = pc
           /\ (state' = state /\ how' = how) \/ (state' = "SHUTDOWN" /\ how' = "forced")
<1> DEFINE p == Packet(accepted, len, off, cls)
           j == JobGetSlot(jobs, "WRITEV")
           r == [j EXCEPT !.slots[j.current].ptr = ListPtr(AddPacket(PacketList(@), p))]
<1>1. /\ p.used /\ p.base = accepted /\ p.len = len /\ p.off = off /\ p.cls = cls
  BY DEF Packet
<1>2. p \in PacketType
  <2>1. accepted \in 0 .. MaxStream /\ len \in 0 .. MaxStream /\ off \in 0 .. MaxStream
    BY JobsAssumption
  <2> QED  BY <2>1 DEF Packet, PacketType
<1> HIDE DEF p
<1>3. p.base + p.off = pos[Len(jobs.slots)] /\ pos[Len(jobs.slots)] < p.base + p.len
      /\ (jobs.slots[1].active => p.off = 0) /\ p.base + p.len = accepted + len
  BY <1>1 DEF HeadJob
<1>4. /\ CurrentPtr(j).kind # "file" /\ r \in QueueType
      /\ Busy(r.slots, r.current) /\ (r.current = 1 <=> jobs.current = 1)
      /\ \E pos2 : /\ Lined(r.slots, r.current, pos2) /\ pos2[0] = pos[0]
                   /\ pos2[Len(r.slots)] = p.base + p.len
                   /\ r.current > 1 => pos2[1] = pos[1]
      /\ OwnedBy(r.slots) =
           OwnedBy(jobs.slots) \cup (IF Owned(p.cls) THEN {p.base + 1} ELSE {})
  BY <1>1, <1>2, <1>3, QueueRun DEF IsBusy, IsIdle
<1>5. /\ jobs' = r
      /\ heap' = (IF Owned(cls) THEN heap \cup {accepted + 1} ELSE heap)
      /\ buffered' = buffered + (len - off) /\ total' = total + (len - off)
      /\ pc' = pc
      /\ (state' = state /\ how' = how) \/ (state' = "SHUTDOWN" /\ how' = "forced")
  <2> DEFINE f == CurrentPtr(j).kind = "file"
  <2>1. ~f
    BY <1>4
  <2> HIDE DEF j
  <2>2. /\ heap' = (IF Owned(cls) THEN heap \cup {accepted + 1} ELSE heap)
        /\ buffered' = buffered + QueuedBytes(len, off)
        /\ total' = total + QueuedBytes(len, off)
        /\ (IF BufLimit # 0 /\ buffered + QueuedBytes(len, off) > BufLimit
            THEN ApeShutdown("forced") ELSE UNCHANGED <<state, how>>)
        /\ UNCHANGED pc
    BY <2>1, Zenon DEF QueueData, j
  <2>3. jobs' = r
    <3> HIDE DEF r
    <3> QED  BY <2>1, Zenon DEF QueueData, j, r, p
  <2> QED  BY <2>2, <2>3 DEF ApeShutdown, QueuedBytes
<1> HIDE DEF r
<1>6. heap' = OwnedBy(jobs'.slots)
  BY <1>1, <1>4, <1>5
<1>7. IsBusy'
  BY <1>4, <1>5 DEF IsBusy
<1> QED  BY <1>3, <1>4, <1>5, <1>6, <1>7

\* Handing the kernel the next k bytes of the stream.
LEMMA Appended ==
    ASSUME NEW s \in Seq(Nat), \A i \in 1 .. Len(s) : s[i] = i, NEW k \in Nat,
           NEW b, b = [i \in 1 .. k |-> Len(s) + i]
    PROVE  /\ s \o b \in Seq(Nat) /\ Len(s \o b) = Len(s) + k
           /\ \A i \in 1 .. Len(s) + k : (s \o b)[i] = i
<1>1. b \in Seq(Nat) /\ Len(b) = k /\ \A i \in 1 .. k : b[i] = Len(s) + i
  <2>1. \A i \in 1 .. k : Len(s) + i \in Nat
    OBVIOUS
  <2> QED  BY <2>1
<1>2. /\ s \o b \in Seq(Nat) /\ Len(s \o b) = Len(s) + Len(b)
      /\ \A i \in 1 .. Len(s) : (s \o b)[i] = s[i]
      /\ \A i \in Len(s) + 1 .. Len(s) + Len(b) : (s \o b)[i] = b[i - Len(s)]
  BY <1>1
<1>3. Len(s) \in Nat
  OBVIOUS
<1> DEFINE w == s \o b
           n == Len(s)
<1> HIDE DEF w
<1>4. ASSUME NEW i \in 1 .. n + k  PROVE w[i] = i
  <2>1. CASE i <= n
    BY <1>2, <2>1 DEF w
  <2>2. CASE i > n
    <3>1. i - n \in 1 .. k /\ i \in n + 1 .. n + k /\ n + (i - n) = i
      BY <1>3, <2>2
    <3>2. w[i] = b[i - n] /\ b[i - n] = n + (i - n)
      BY <1>1, <1>2, <3>1 DEF w
    <3> QED  BY <3>1, <3>2
  <2> QED  BY <1>3, <2>1, <2>2
<1> QED  BY <1>1, <1>2, <1>4 DEF w

\* The wire once the kernel took k more bytes.
Extends(k) ==
    /\ wire' \in Seq(Nat) /\ Len(wire') = Len(wire) + k
    /\ \A i \in 1 .. Len(wire) + k : wire'[i] = i

\* It took them from the buffer of the call: they are what follows when
\* everything before the call went out.
LEMMA CallExtends ==
    ASSUME WireInv, Len(wire) = accepted, NEW k \in Nat, NEW len \in Nat, k <= len,
           wire' = wire \o Bytes(accepted, accepted + k, accepted + len)
    PROVE  Extends(k)
<1>1. wire \in Seq(Nat) /\ (\A i \in 1 .. Len(wire) : wire[i] = i) /\ accepted \in Nat
  BY DEF WireInv
<1> DEFINE b == Bytes(accepted, accepted + k, accepted + len)
<1>2. b = [i \in 1 .. k |-> Len(wire) + i]
  <2>1. (accepted + k) - accepted = k
    BY <1>1
  <2>2. \A i \in 1 .. k : accepted + i <= accepted + len
    BY <1>1
  <2> QED  BY <2>1, <2>2 DEF Bytes
<1> HIDE DEF b
<1>3. /\ wire \o b \in Seq(Nat) /\ Len(wire \o b) = Len(wire) + k
      /\ \A i \in 1 .. Len(wire) + k : (wire \o b)[i] = i
  BY <1>1, <1>2, Appended
<1> QED  BY <1>3 DEF b, Extends

\* A step that leaves the list and the stream alone.
LEMMA Untouched ==
    ASSUME OutInv, UNCHANGED <<jobVars, streamVars, promise>>,
           state' = state \/ (state = "ONLINE" /\ state' = "SHUTDOWN")
    PROVE  /\ WireInv' /\ LineInv' /\ MemInv' /\ (IsBusy' <=> IsBusy) /\ (IsIdle' <=> IsIdle)
           /\ (IsEnding' <=> IsEnding) /\ (IsBusy \/ IsIdle \/ IsEnding)
           /\ jobs' = jobs /\ accepted' = accepted /\ promise' = promise /\ wire' = wire
           /\ buffered' = buffered
<1>1. /\ jobs' = jobs /\ buffered' = buffered /\ total' = total /\ heap' = heap
      /\ accepted' = accepted /\ wire' = wire /\ promise' = promise
  BY DEF jobVars, streamVars
<1>2. PICK pos : LineAt(pos)
  BY DEF OutInv, LineInv
<1>3. LineAt(pos)'
  <2>1. state' = "ONLINE" => state = "ONLINE"
    OBVIOUS
  <2>2. state' # "FREED" => state # "FREED"
    OBVIOUS
  <2> QED  BY <1>1, <1>2, <2>1, <2>2 DEF LineAt
<1>4. LineInv'
  BY <1>3 DEF LineInv
<1>5. MemInv'
  BY <1>1 DEF OutInv, MemInv
<1>6. WireInv'
  BY <1>1 DEF OutInv, WireInv
<1>7. (IsBusy' <=> IsBusy) /\ (IsIdle' <=> IsIdle) /\ (IsEnding' <=> IsEnding)
  BY <1>1 DEF IsBusy, IsIdle, IsEnding
<1> QED  BY <1>1, <1>4, <1>5, <1>6, <1>7 DEF OutInv, ShapeInv

\* A step that shuts the socket down and leaves the list and the stream alone.
LEMMA Cuts ==
    ASSUME OutInv, UNCHANGED <<jobVars, streamVars, promise>>, state = "ONLINE",
           UNCHANGED <<wb, room, nospace, edge, njobs>>, pc' \in {"idle", "read"},
           state' = "SHUTDOWN", how' \in {"forced", "graceful"},
           how' = "graceful" => Len(wire) >= promise
    PROVE  OutInv'
<1>1. /\ WireInv' /\ LineInv' /\ MemInv' /\ (IsBusy' <=> IsBusy) /\ (IsIdle' <=> IsIdle)
      /\ (IsEnding' <=> IsEnding) /\ (IsBusy \/ IsIdle \/ IsEnding)
      /\ jobs' = jobs /\ accepted' = accepted /\ promise' = promise /\ wire' = wire
      /\ buffered' = buffered
  BY Untouched
<1>2. Kinds'
  BY <1>1 DEF OutInv, Kinds
<1>3. ShapeInv'
  BY <1>1 DEF ShapeInv
<1>4. TurnInv'
  BY DEF TurnInv
<1> QED  BY <1>1, <1>2, <1>3, <1>4 DEF OutInv

\* ... the kernel's buffer and the loop move, the socket stays as it is.
LEMMA Turns ==
    ASSUME OutInv, UNCHANGED <<jobVars, streamVars, endVars>>,
           wb' \in BOOLEAN, nospace' \in BOOLEAN, edge' \in BOOLEAN, room' \in 0 .. SndBuf,
           pc' \in {"idle", "read", "jobs"}, njobs' \in {0, 1},
           pc' = "jobs" => state = "ONLINE",
           state = "ONLINE" =>
               /\ IsEnding => pc' = "jobs"
               /\ wb' => IsBusy /\ (edge' \/ nospace') /\ pc' # "jobs"
               /\ pc' = "idle" /\ IsBusy => wb'
               /\ pc' = "jobs" /\ IsBusy => njobs' = 0
    PROVE  OutInv'
<1>0. state' = state /\ how' = how /\ promise' = promise
  BY DEF endVars
<1>1. /\ WireInv' /\ LineInv' /\ MemInv' /\ (IsBusy' <=> IsBusy) /\ (IsIdle' <=> IsIdle)
      /\ (IsEnding' <=> IsEnding) /\ (IsBusy \/ IsIdle \/ IsEnding)
      /\ jobs' = jobs /\ accepted' = accepted /\ promise' = promise /\ wire' = wire
      /\ buffered' = buffered
  BY <1>0, Untouched
<1>2. Kinds'
  BY <1>0, <1>1 DEF OutInv, Kinds
<1>3. ShapeInv'
  BY <1>0, <1>1 DEF ShapeInv, OutInv
<1>4. TurnInv'
  BY <1>0, <1>1 DEF TurnInv, OutInv
<1> QED  BY <1>1, <1>2, <1>3, <1>4 DEF OutInv

\* The shapes of a list exclude each other.
LEMMA Apart ==
    ASSUME NEW t, NEW c \in Nat, 1 <= c
    PROVE  /\ Busy(t, c) => ~Idle(t, c) /\ ~Ending(t)
           /\ Idle(t, c) => ~Ending(t)
<1>1. 1 \in 1 .. c
  OBVIOUS
<1>2. Busy(t, c) => t[1].active /\ t[1].flags = {"WRITEV"}
  BY <1>1 DEF Busy
<1>3. Ending(t) => t[1].active /\ t[1].flags = {"SHUTDOWN"}
  BY JobFields DEF Ending
<1>4. {"WRITEV"} # {"SHUTDOWN"}
  BY JobFields
<1> QED  BY <1>2, <1>3, <1>4 DEF Idle

\* A call that gives the kernel k bytes and queues the rest of its data.
LEMMA Stores ==
    ASSUME OutInv, AppRuns, NEW k \in Nat, NEW len \in Nat, k < len,
           NEW cls \in {"copy", "auto", "own"}, IsBusy \/ IsIdle, HeadJob.active => k = 0,
           NEW pos, Lined(jobs.slots, jobs.current, pos), pos[0] = Len(wire) + k,
           pos[Len(jobs.slots)] = accepted + k, jobs.current > 1 => promise <= pos[1],
           Extends(k), accepted' = accepted + len, accepted + len <= MaxStream,
           QueueData(len, k, cls), UNCHANGED <<promise, njobs>>,
           wb' \in BOOLEAN, nospace' \in BOOLEAN, edge' \in BOOLEAN, room' \in 0 .. SndBuf,
           wb' => edge' \/ nospace', pc = "idle" => wb'
    PROVE  OutInv'
<1>0. /\ state = "ONLINE" /\ pc \in {"idle", "read"} /\ accepted \in Nat /\ promise' = promise
      /\ njobs' = njobs /\ heap = OwnedBy(jobs.slots) /\ total = buffered /\ jobs \in QueueType
      /\ MaxStream \in Nat /\ how = "none" /\ Len(wire) \in Nat /\ Len(wire) <= accepted
  <2>1. Len(wire) \in Nat /\ Len(wire) <= accepted
    BY Shapes
  <2> QED  BY <2>1, JobsAssumption DEF AppRuns, OutInv, Kinds, MemInv, ShapeInv
<1>1. /\ jobs' \in QueueType /\ IsBusy' /\ (jobs'.current = 1 <=> jobs.current = 1)
      /\ \E pos2 : /\ Lined(jobs'.slots, jobs'.current, pos2) /\ pos2[0] = pos[0]
                   /\ pos2[Len(jobs'.slots)] = accepted + len
                   /\ jobs'.current > 1 => pos2[1] = pos[1]
      /\ heap' = OwnedBy(jobs'.slots)
      /\ buffered' = buffered + (len - k) /\ total' = total + (len - k)
      /\ pc' = pc
      /\ (state' = state /\ how' = how) \/ (state' = "SHUTDOWN" /\ how' = "forced")
  BY <1>0, QueueStep
<1>2. PICK pos2 : /\ Lined(jobs'.slots, jobs'.current, pos2) /\ pos2[0] = pos[0]
                  /\ pos2[Len(jobs'.slots)] = accepted + len
                  /\ jobs'.current > 1 => pos2[1] = pos[1]
  BY <1>1
<1>3. buffered = accepted - Len(wire)
  <2>1. PICK po : LineAt(po)
    BY DEF OutInv, LineInv
  <2> QED  BY <1>0, <2>1 DEF LineAt
<1>4. Len(wire') = Len(wire) + k /\ WireInv'
  BY DEF Extends, WireInv
<1>5. buffered' = (accepted + len) - Len(wire') /\ buffered' \in 0 .. MaxStream
  <2>1. buffered' = buffered + (len - k)
    BY <1>1
  <2> DEFINE w == Len(wire)
             a == accepted
             x == Len(wire')
             z == buffered'
             m == MaxStream
  <2>2. /\ w \in Nat /\ a \in Nat /\ w <= a /\ m \in Nat /\ a + len <= m /\ x = w + k
        /\ z = (a - w) + (len - k)
    BY <1>0, <1>3, <1>4, <2>1
  <2> HIDE DEF w, a, x, z, m
  <2>3. z = (a + len) - x /\ z \in 0 .. m
    BY <2>2
  <2> QED  BY <2>3 DEF w, a, x, z, m
<1>6. /\ state' # "FREED" /\ state' \in {"ONLINE", "SHUTDOWN"}
      /\ (state' = "ONLINE" <=> how' = "none") /\ how' \in {"none", "forced"}
  BY <1>0, <1>1
<1>7. Kinds'
  <2>1. accepted' \in 0 .. MaxStream
    BY <1>0
  <2>2. pc' \in {"idle", "read", "jobs"} /\ njobs' \in {0, 1} /\ promise' \in -1 .. MaxStream
    BY <1>0, <1>1 DEF OutInv, Kinds
  <2>3. how' \in {"none", "graceful", "forced"} /\ state' \in {"ONLINE", "SHUTDOWN", "FREED"}
    BY <1>6
  <2> QED  BY <1>1, <1>5, <2>1, <2>2, <2>3 DEF Kinds
<1>8. jobs'.current \in 1 .. Len(jobs'.slots) /\ Len(jobs'.slots) \in Nat
  BY <1>2 DEF Lined
<1>9. jobs'.current > 1 => jobs.current > 1
  <2>1. jobs.current \in 1 .. Len(jobs.slots) /\ Len(jobs.slots) \in Nat
    BY Shapes
  <2> QED  BY <1>1, <1>8, <2>1
<1>10. LineAt(pos2)'
  <2>1. accepted + len <= accepted'
    BY <1>0
  <2>2. jobs'.current > 1 => promise' <= pos2[1]
    BY <1>0, <1>2, <1>9
  <2>3. pos2[0] = Len(wire') /\ pos2[Len(jobs'.slots)] = accepted + len
    BY <1>2, <1>4
  <2>4. pos2[Len(jobs'.slots)] <= accepted' /\ pos2[Len(jobs'.slots)] = accepted'
    BY <2>1, <2>3
  <2>5. buffered' = pos2[Len(jobs'.slots)] - Len(wire')
    BY <1>5, <2>3
  <2> QED  BY <1>2, <2>2, <2>3, <2>4, <2>5 DEF LineAt
<1>11. LineInv'
  BY <1>10 DEF LineInv
<1>12. MemInv'
  BY <1>0, <1>1, <1>6 DEF MemInv
<1>13. ~IsIdle' /\ ~IsEnding'
  <2>1. jobs'.current \in Nat /\ 1 <= jobs'.current
    BY <1>8
  <2> QED  BY <1>1, <2>1, Apart DEF IsBusy, IsIdle, IsEnding
<1>14. ShapeInv'
  BY <1>0, <1>1, <1>6 DEF ShapeInv
<1>15. jobs.current = 1 <=> promise = -1
  BY <1>0 DEF OutInv, TurnInv, IsIdle, Idle
<1>16. TurnInv'
  <2>1. jobs'.current = 1 <=> promise' = -1
    BY <1>0, <1>1, <1>15
  <2>2. pc' # "jobs" /\ (pc' = "idle" => wb') /\ (wb' => edge' \/ nospace')
    BY <1>0, <1>1
  <2> QED  BY <1>1, <1>13, <2>1, <2>2 DEF TurnInv
<1> QED  BY <1>4, <1>7, <1>11, <1>12, <1>14, <1>16 DEF OutInv

\* APE_socket_write behind pending output.
LEMMA DoWriteQueued ==
    ASSUME OutInv, NEW len \in Lens, NEW cls \in Classes, WriteQueued(len, cls)
    PROVE  OutInv'
<1>1. /\ AppRuns /\ Blocked /\ accepted + len <= MaxStream /\ QueueData(len, 0, cls)
      /\ accepted' = accepted + len
      /\ UNCHANGED <<wb, kernelVars, wire, promise, njobs>>
  BY DEF WriteQueued
<1>2. len \in Nat /\ 0 < len /\ cls \in {"copy", "auto", "own"} /\ 0 \in Nat
  BY JobsAssumption
<1>3. IsBusy /\ (pc = "idle" => wb) /\ (wb => edge \/ nospace)
  BY <1>1, CallFinds DEF AppRuns, OutInv, TurnInv
<1>4. PICK pos : LineAt(pos)
  BY DEF OutInv, LineInv
<1>5. Len(wire) \in Nat /\ accepted \in Nat
  BY Shapes, JobsAssumption DEF OutInv, Kinds
<1>6. /\ Lined(jobs.slots, jobs.current, pos) /\ pos[0] = Len(wire) + 0
      /\ pos[Len(jobs.slots)] = accepted + 0 /\ (jobs.current > 1 => promise <= pos[1])
  BY <1>1, <1>3, <1>4, <1>5 DEF LineAt, AppRuns, IsBusy
<1>7. Extends(0)
  BY <1>1, <1>5 DEF Extends, OutInv, WireInv
<1>8. /\ promise' = promise /\ njobs' = njobs /\ wb' = wb
      /\ nospace' = nospace /\ edge' = edge /\ room' = room
  BY <1>1 DEF kernelVars
<1>9. /\ wb' \in BOOLEAN /\ nospace' \in BOOLEAN /\ edge' \in BOOLEAN /\ room' \in 0 .. SndBuf
      /\ (wb' => edge' \/ nospace') /\ (pc = "idle" => wb')
  BY <1>3, <1>8 DEF OutInv, Kinds
<1>10. \A k \in Nat : /\ k < len /\ (HeadJob.active => k = 0) /\ pos[0] = Len(wire) + k
                      /\ pos[Len(jobs.slots)] = accepted + k /\ Extends(k) /\ QueueData(len, k, cls)
                      => OutInv'
  BY <1>1, <1>2, <1>3, <1>6, <1>8, <1>9, Stores
<1> QED  BY <1>1, <1>2, <1>6, <1>7, <1>10, Zenon

\* APE_socket_write that the kernel takes in part.
LEMMA DoWriteSome ==
    ASSUME OutInv, NEW len \in Lens, NEW cls \in Classes, WriteSome(len, cls, 0)
    PROVE  OutInv'
<1> DEFINE k == room
<1>0. room \in Nat /\ len \in Nat /\ cls \in {"copy", "auto", "own"} /\ accepted \in Nat
      /\ room <= SndBuf /\ SndBuf \in Nat
  BY JobsAssumption DEF OutInv, Kinds
<1>1. Least(len, 0) = 0
  BY <1>0, JobsAssumption DEF Least
<1>2. k + Least(len, 0) = k /\ 0 - Least(len, 0) = 0
  BY <1>0, <1>1
<1>3. /\ AppRuns /\ ~Blocked /\ accepted + len <= MaxStream /\ k < len
      /\ wire' = wire \o Bytes(accepted, accepted + k, accepted + len)
      /\ accepted' = accepted + len /\ room' = 0
      /\ \/ k < len /\ wb' = TRUE /\ nospace' = TRUE /\ QueueData(len, k, cls)
         \/ k >= len
      /\ UNCHANGED <<edge, promise, njobs>>
  BY <1>2 DEF WriteSome, RestOff
<1>4. wb' = TRUE /\ nospace' = TRUE /\ QueueData(len, k, cls)
  BY <1>0, <1>3
<1>5. IsIdle /\ state = "ONLINE"
  BY <1>3, CallFinds DEF AppRuns
<1>6. Len(wire) = accepted /\ \A x \in Nat : \E pos : /\ Lined(jobs.slots, jobs.current, pos)
                                                     /\ pos[0] = x /\ pos[Len(jobs.slots)] = x
  BY <1>5, IdleIs
<1>7. PICK pos : /\ Lined(jobs.slots, jobs.current, pos)
                 /\ pos[0] = accepted + k /\ pos[Len(jobs.slots)] = accepted + k
  <2>1. accepted + k \in Nat
    BY <1>0
  <2> QED  BY <1>6, <2>1
<1>8. Extends(k)
  <2>1. WireInv /\ k \in Nat /\ k <= len
    BY <1>0, <1>3 DEF OutInv
  <2> HIDE DEF k
  <2> QED  BY <1>0, <1>3, <1>6, <2>1, CallExtends
<1>9. ~(jobs.current > 1) /\ ~HeadJob.active
  BY <1>5, Shapes DEF IsIdle, Idle
<1>10. edge' \in BOOLEAN /\ nospace' \in BOOLEAN /\ wb' \in BOOLEAN /\ room' \in 0 .. SndBuf
  BY <1>0, <1>3, <1>4 DEF OutInv, Kinds
<1> QED  BY <1>0, <1>3, <1>4, <1>5, <1>6, <1>7, <1>8, <1>9, <1>10, Stores

\* A call on an idle list that gives the kernel k of its len bytes and keeps
\* none: all of them, or it fails.
LEMMA Passes ==
    ASSUME OutInv, AppRuns, IsIdle, NEW k \in Nat, NEW len \in Nat, k <= len, Extends(k),
           accepted' = accepted + len, accepted + len <= MaxStream,
           UNCHANGED <<wb, jobVars, nospace, edge, promise, pc, njobs>>, room' \in 0 .. SndBuf,
           \/ state' = state /\ how' = how /\ k = len
           \/ state' = "SHUTDOWN" /\ how' = "forced"
    PROVE  OutInv'
<1>0. /\ jobs' = jobs /\ buffered' = buffered /\ total' = total /\ heap' = heap
      /\ wb' = wb /\ nospace' = nospace /\ edge' = edge /\ promise' = promise
      /\ pc' = pc /\ njobs' = njobs
  BY DEF jobVars
<1>1. state = "ONLINE" /\ how = "none" /\ pc \in {"idle", "read"} /\ accepted \in Nat /\ MaxStream \in Nat
  BY JobsAssumption DEF AppRuns, OutInv, ShapeInv, Kinds
<1>2. /\ Len(wire) = accepted /\ buffered = 0 /\ heap = {}
      /\ \A x \in Nat : \E pos : /\ Lined(jobs.slots, jobs.current, pos)
                                 /\ pos[0] = x /\ pos[Len(jobs.slots)] = x
  BY <1>1, IdleIs
<1>3. Len(wire') = accepted + k /\ WireInv' /\ Len(wire') \in Nat
  BY <1>1, <1>2 DEF Extends, WireInv
<1>4. PICK pos : /\ Lined(jobs.slots, jobs.current, pos)
                 /\ pos[0] = Len(wire') /\ pos[Len(jobs.slots)] = Len(wire')
  BY <1>2, <1>3
<1>5. ~IsBusy' /\ IsIdle' /\ ~IsEnding'
  <2>1. ~IsBusy /\ ~IsEnding
    BY Shapes
  <2> QED  BY <1>0, <2>1 DEF IsBusy, IsIdle, IsEnding
<1>6. /\ state' # "FREED" /\ state' \in {"ONLINE", "SHUTDOWN"} /\ (state' = "ONLINE" => k = len)
      /\ (state' = "ONLINE" <=> how' = "none") /\ how' \in {"none", "forced"}
  BY <1>1
<1>7. Kinds'
  <2>1. accepted' \in 0 .. MaxStream
    BY <1>1
  <2>2. how' \in {"none", "graceful", "forced"} /\ state' \in {"ONLINE", "SHUTDOWN", "FREED"}
    BY <1>6
  <2> QED  BY <1>0, <2>1, <2>2 DEF OutInv, Kinds
<1>8. LineAt(pos)'
  <2>1. Len(wire') <= accepted' /\ (state' = "ONLINE" => Len(wire') = accepted')
    BY <1>1, <1>3, <1>6
  <2>2. buffered' = Len(wire') - Len(wire')
    BY <1>0, <1>2, <1>3
  <2> QED  BY <1>0, <1>4, <1>5, <2>1, <2>2 DEF LineAt, IsBusy
<1>9. LineInv'
  BY <1>8 DEF LineInv
<1>10. MemInv'
  BY <1>0, <1>1, <1>6 DEF MemInv, OutInv
<1>11. ShapeInv'
  BY <1>0, <1>1, <1>5, <1>6 DEF ShapeInv
<1>12. TurnInv'
  <2>1. ~wb /\ promise = -1
    <3>1. ~IsBusy
      BY Shapes
    <3> QED  BY <1>1, <3>1 DEF OutInv, TurnInv
  <2> QED  BY <1>0, <1>5, <2>1 DEF TurnInv
<1> QED  BY <1>3, <1>7, <1>9, <1>10, <1>11, <1>12 DEF OutInv

\* APE_socket_write that the kernel takes at once.
LEMMA DoWriteAll ==
    ASSUME OutInv, NEW len \in Lens, WriteAll(len)  PROVE OutInv'
<1>1. /\ AppRuns /\ ~Blocked /\ accepted + len <= MaxStream /\ len <= room
      /\ wire' = wire \o Bytes(accepted, accepted + len, accepted + len)
      /\ room' = room - len /\ accepted' = accepted + len
      /\ UNCHANGED <<wb, jobVars, nospace, edge, endVars, pc, njobs>>
  BY DEF WriteAll
<1>2. len \in Nat /\ room \in 0 .. SndBuf /\ SndBuf \in Nat /\ WireInv /\ len <= len
  BY JobsAssumption DEF OutInv, Kinds
<1>3. IsIdle /\ state = "ONLINE"
  BY <1>1, CallFinds DEF AppRuns
<1>4. Len(wire) = accepted
  BY <1>3, IdleIs
<1>5. Extends(len)
  BY <1>1, <1>2, <1>4, CallExtends
<1>6. UNCHANGED <<wb, jobVars, nospace, edge, promise, pc, njobs>> /\ state' = state /\ how' = how
      /\ room' \in 0 .. SndBuf
  BY <1>1, <1>2 DEF endVars
<1> QED  BY <1>1, <1>2, <1>3, <1>5, <1>6, Passes

\* APE_socket_write that fails.
LEMMA DoWriteError ==
    ASSUME OutInv, NEW len \in Lens, WriteError(len)  PROVE OutInv'
<1>1. /\ AppRuns /\ ~Blocked /\ accepted + len <= MaxStream /\ accepted' = accepted + len
      /\ \/ UNCHANGED <<wire, room>>
         \/ /\ room < len
            /\ wire' = wire \o Bytes(accepted, accepted + room, accepted + len)
            /\ room' = 0
      /\ state' = "SHUTDOWN" /\ how' = "forced"
      /\ UNCHANGED <<wb, jobVars, nospace, edge, promise, pc, njobs>>
  BY DEF WriteError, ApeShutdown
<1>2. len \in Nat /\ room \in 0 .. SndBuf /\ SndBuf \in Nat /\ WireInv /\ 0 <= len /\ 0 \in Nat
  BY JobsAssumption DEF OutInv, Kinds
<1>3. IsIdle /\ state = "ONLINE"
  BY <1>1, CallFinds DEF AppRuns
<1>4. Len(wire) = accepted
  BY <1>3, IdleIs
<1>5. \E k \in Nat : k <= len /\ Extends(k)
  <2>1. CASE UNCHANGED <<wire, room>>
    <3>1. Extends(0)
      BY <1>2, <2>1 DEF Extends, WireInv
    <3> QED  BY <1>2, <3>1
  <2>2. CASE room < len /\ wire' = wire \o Bytes(accepted, accepted + room, accepted + len)
    <3> DEFINE k == room
    <3>1. k \in Nat /\ k <= len /\ wire' = wire \o Bytes(accepted, accepted + k, accepted + len)
      BY <1>2, <2>2
    <3> HIDE DEF k
    <3>2. Extends(k)
      BY <1>2, <1>4, <3>1, CallExtends
    <3> QED  BY <3>1, <3>2
  <2> QED  BY <1>1, <2>1, <2>2
<1>6. room' \in 0 .. SndBuf
  BY <1>1, <1>2
<1> QED  BY <1>1, <1>2, <1>3, <1>5, <1>6, Passes

\* APE_socket_shutdown.
LEMMA DoShutdown ==
    ASSUME OutInv, Shutdown  PROVE OutInv'
<1>0. /\ AppRuns /\ promise' = (IF promise = -1 THEN accepted ELSE promise)
      /\ UNCHANGED <<wb, buffered, total, heap, kernelVars, streamVars, pc, njobs>>
  BY DEF Shutdown
<1>1. /\ wb' = wb /\ buffered' = buffered /\ total' = total /\ heap' = heap /\ room' = room
      /\ nospace' = nospace /\ edge' = edge /\ accepted' = accepted /\ wire' = wire
      /\ pc' = pc /\ njobs' = njobs
  BY <1>0 DEF kernelVars, streamVars
<1>2. /\ state = "ONLINE" /\ how = "none" /\ pc \in {"idle", "read"} /\ accepted \in Nat
      /\ accepted <= MaxStream /\ MaxStream \in Nat /\ promise \in -1 .. MaxStream
      /\ jobs \in QueueType /\ heap = OwnedBy(jobs.slots) /\ total = buffered
      /\ Len(wire) \in Nat /\ Len(wire) <= accepted
  <2>1. Len(wire) \in Nat /\ Len(wire) <= accepted
    BY Shapes
  <2> QED  BY <1>0, <2>1, JobsAssumption DEF AppRuns, OutInv, ShapeInv, Kinds, MemInv
<1>3. promise' \in -1 .. MaxStream /\ promise' # -1
  BY <1>0, <1>2
<1>4. CASE Blocked /\ jobs' = JobGetSlot(jobs, "SHUTDOWN") /\ state' = state /\ how' = how
  <2>1. IsBusy
    BY <1>0, <1>4, CallFinds
  <2>2. PICK pos : LineAt(pos)
    BY DEF OutInv, LineInv
  <2>3. /\ Lined(jobs.slots, jobs.current, pos) /\ pos[0] = Len(wire)
        /\ pos[Len(jobs.slots)] = accepted /\ buffered = accepted - Len(wire)
        /\ jobs.current > 1 => promise <= pos[1]
    BY <1>2, <2>1, <2>2 DEF LineAt, IsBusy
  <2>4. /\ jobs' \in QueueType /\ Busy(jobs'.slots, jobs'.current) /\ jobs'.current > 1
        /\ \E pos2 : /\ Lined(jobs'.slots, jobs'.current, pos2) /\ pos2[0] = pos[0]
                     /\ pos2[Len(jobs'.slots)] = pos[Len(jobs.slots)] /\ pos2[1] = pos[1]
        /\ OwnedBy(jobs'.slots) = OwnedBy(jobs.slots)
        /\ jobs.current = 1 => pos[1] = pos[Len(jobs.slots)]
    <3>1. jobs' = JobGetSlot(jobs, "SHUTDOWN")
      BY <1>4
    <3> QED  BY <1>2, <2>1, <2>3, <3>1, AskRun DEF IsBusy
  <2>5. PICK pos2 : /\ Lined(jobs'.slots, jobs'.current, pos2) /\ pos2[0] = pos[0]
                    /\ pos2[Len(jobs'.slots)] = pos[Len(jobs.slots)] /\ pos2[1] = pos[1]
    BY <2>4
  <2>6. promise' <= pos2[1]
    <3>1. jobs.current = 1 <=> promise = -1
      BY <1>2, <2>1 DEF OutInv, TurnInv
    <3>2. CASE promise = -1
      <4>1. promise' = accepted /\ pos2[1] = accepted
        BY <1>0, <2>3, <2>4, <2>5, <3>1, <3>2
      <4> QED  BY <1>2, <4>1
    <3>3. CASE promise # -1
      <4>1. jobs.current > 1
        <5>1. jobs.current \in 1 .. Len(jobs.slots) /\ Len(jobs.slots) \in Nat
          BY Shapes
        <5> QED  BY <3>1, <3>3, <5>1
      <4> QED  BY <1>0, <2>3, <2>5, <3>3, <4>1
    <3> QED  BY <3>2, <3>3
  <2>7. LineAt(pos2)'
    <3>1. /\ pos2[0] = Len(wire') /\ pos2[Len(jobs'.slots)] = accepted'
          /\ pos2[Len(jobs'.slots)] <= accepted' /\ buffered' = pos2[Len(jobs'.slots)] - Len(wire')
      BY <1>1, <1>2, <2>3, <2>5
    <3> QED  BY <2>5, <2>6, <3>1 DEF LineAt
  <2>8. IsBusy' /\ ~IsIdle' /\ ~IsEnding'
    <3>1. jobs'.current \in Nat /\ 1 <= jobs'.current
      <4>1. jobs'.current \in 1 .. Len(jobs'.slots) /\ Len(jobs'.slots) \in Nat
        BY <2>5 DEF Lined
      <4> QED  BY <4>1
    <3> QED  BY <2>4, <3>1, Apart DEF IsBusy, IsIdle, IsEnding
  <2>9. Kinds'
    BY <1>1, <1>3, <1>4, <2>4 DEF OutInv, Kinds
  <2>10. ShapeInv'
    BY <1>1, <1>2, <1>4, <2>8 DEF ShapeInv
  <2>11. TurnInv'
    <3>1. (wb => edge \/ nospace) /\ (pc = "idle" => wb) /\ pc # "jobs"
      BY <1>2, <2>1 DEF OutInv, TurnInv
    <3>2. jobs'.current # 1
      BY <2>4
    <3> QED  BY <1>1, <1>3, <2>8, <3>1, <3>2 DEF TurnInv
  <2>12. MemInv'
    BY <1>1, <1>2, <1>4, <2>4 DEF MemInv
  <2>13. WireInv'
    BY <1>1 DEF OutInv, WireInv
  <2> QED  BY <2>7, <2>9, <2>10, <2>11, <2>12, <2>13 DEF OutInv, LineInv
<1>5. CASE ~Blocked /\ ApeShutdown("graceful") /\ jobs' = jobs
  <2>0. state' = "SHUTDOWN" /\ how' = "graceful" /\ jobs' = jobs
    BY <1>5 DEF ApeShutdown
  <2>1. IsIdle
    BY <1>0, <1>5, CallFinds
  <2>2. Len(wire) = accepted /\ promise = -1
    BY <1>2, <2>1, IdleIs DEF OutInv, TurnInv
  <2>3. ~IsBusy' /\ IsIdle'
    <3>1. ~IsBusy
      BY <2>1, Shapes
    <3> QED  BY <2>0, <2>1, <3>1 DEF IsBusy, IsIdle
  <2>4. PICK pos : LineAt(pos)
    BY DEF OutInv, LineInv
  <2>5. LineAt(pos)'
    BY <1>1, <1>2, <2>0, <2>3, <2>4 DEF LineAt, IsBusy
  <2>6. Kinds'
    BY <1>1, <1>3, <2>0 DEF OutInv, Kinds
  <2>7. ShapeInv'
    BY <1>0, <1>1, <1>2, <2>0, <2>2, <2>3 DEF ShapeInv
  <2>8. TurnInv'
    BY <2>0 DEF TurnInv
  <2>9. MemInv' /\ WireInv'
    BY <1>1, <1>2, <2>0 DEF OutInv, WireInv, MemInv
  <2> QED  BY <2>5, <2>6, <2>7, <2>8, <2>9 DEF OutInv, LineInv
<1> QED  BY <1>4, <1>5 DEF Shutdown

\* APE_socket_shutdown_now, and a writev() that fails: the socket is cut.
LEMMA DoCut ==
    ASSUME OutInv, ShutdownNow \/ WritevError  PROVE OutInv'
<1>1. /\ state = "ONLINE" /\ state' = "SHUTDOWN" /\ how' = "forced"
      /\ UNCHANGED <<jobVars, streamVars, promise>> /\ UNCHANGED <<wb, room, nospace, edge, njobs>>
      /\ pc' \in {"idle", "read"}
  <2>1. CASE ShutdownNow
    BY <2>1 DEF ShutdownNow, AppRuns, ApeShutdown, kernelVars
  <2>2. CASE WritevError
    BY <2>2 DEF WritevError, RunsJob, ApeShutdown, kernelVars, OutInv, ShapeInv
  <2> QED  BY <2>1, <2>2
<1> QED  BY <1>1, Cuts

\* The SHUTDOWN job at the head: what it waits for went out.
LEMMA DoJobShutdown ==
    ASSUME OutInv, JobShutdown  PROVE OutInv'
<1>1. /\ pc = "jobs" /\ HeadJob.active /\ HeadJob.flags = {"SHUTDOWN"}
      /\ state' = "SHUTDOWN" /\ how' = "graceful" /\ pc' = "idle"
      /\ UNCHANGED <<jobVars, streamVars, promise>> /\ UNCHANGED <<wb, room, nospace, edge, njobs>>
  BY DEF JobShutdown, RunsJob, ApeShutdown, kernelVars
<1>2. state = "ONLINE"
  BY <1>1 DEF OutInv, ShapeInv
<1>3. IsEnding
  <2>1. {"WRITEV"} # {"SHUTDOWN"}
    BY JobFields
  <2>2. ~IsIdle /\ ~IsBusy
    BY <1>1, <2>1, Shapes
  <2> QED  BY <2>2 DEF OutInv, ShapeInv
<1>4. Len(wire) >= promise
  BY <1>2, <1>3 DEF OutInv, TurnInv
<1> QED  BY <1>1, <1>2, <1>4, Cuts

\* The loop and the peer: nothing of the list moves.
LEMMA DoTurn ==
    ASSUME OutInv, WriteEvent \/ ReadDone \/ JobNone \/ WritevRefused \/ Ack
    PROVE  OutInv'
<1>0. /\ wb \in BOOLEAN /\ nospace \in BOOLEAN /\ edge \in BOOLEAN /\ room \in 0 .. SndBuf
      /\ pc \in {"idle", "read", "jobs"} /\ njobs \in {0, 1} /\ SndBuf \in Nat
      /\ pc = "jobs" => state = "ONLINE"
  BY JobsAssumption DEF OutInv, Kinds, ShapeInv
<1>1. state = "ONLINE" =>
        /\ IsEnding => pc = "jobs"
        /\ wb => IsBusy /\ (edge \/ nospace) /\ pc # "jobs"
        /\ pc = "idle" /\ IsBusy => wb
        /\ pc = "jobs" /\ IsBusy => njobs = 0
  BY DEF OutInv, TurnInv
<1>2. (IsBusy => HeadJob.active /\ HeadJob.flags = {"WRITEV"})
      /\ (IsEnding => HeadJob.active /\ HeadJob.flags = {"SHUTDOWN"})
      /\ (IsIdle => ~HeadJob.active) /\ (IsBusy \/ IsIdle \/ IsEnding)
      /\ {"WRITEV"} # {"SHUTDOWN"}
  BY Shapes, JobFields DEF OutInv, ShapeInv
<1>3. CASE WriteEvent
  <2>1. /\ pc = "idle" /\ wb' = FALSE /\ edge' = FALSE /\ pc' = "read" /\ state = "ONLINE"
        /\ UNCHANGED <<jobVars, streamVars, endVars>> /\ UNCHANGED <<room, nospace, njobs>>
    BY <1>3 DEF WriteEvent, EventFlag
  <2> QED  BY <1>0, <1>1, <2>1, Turns
<1>4. CASE ReadDone
  <2>1. /\ pc = "read" /\ pc' = (IF state = "ONLINE" /\ ~wb THEN "jobs" ELSE "idle") /\ njobs' = 0
        /\ UNCHANGED <<jobVars, streamVars, endVars>> /\ UNCHANGED <<wb, room, nospace, edge>>
    BY <1>4 DEF ReadDone, kernelVars
  <2> QED  BY <1>0, <1>1, <2>1, Turns
<1>5. CASE JobNone
  <2>1. /\ pc = "jobs" /\ ~HeadJob.active /\ pc' = "idle"
        /\ UNCHANGED <<jobVars, streamVars, endVars>> /\ UNCHANGED <<wb, room, nospace, edge, njobs>>
    BY <1>5 DEF JobNone, kernelVars
  <2> QED  BY <1>0, <1>1, <1>2, <2>1, Turns
<1>6. CASE WritevRefused
  <2>1. /\ pc = "jobs" /\ HeadJob.flags = {"WRITEV"} /\ HeadJob.active
        /\ wb' = TRUE /\ nospace' = TRUE /\ pc' = "idle"
        /\ UNCHANGED <<jobVars, streamVars, endVars>> /\ UNCHANGED <<room, edge, njobs>>
    BY <1>6 DEF WritevRefused, RunsJob
  <2> QED  BY <1>0, <1>1, <1>2, <2>1, Turns
<1>7. CASE Ack
  <2>1. /\ room' \in 0 .. SndBuf /\ edge' = (edge \/ nospace) /\ nospace' = FALSE
        /\ UNCHANGED <<jobVars, streamVars, endVars>> /\ UNCHANGED <<wb, pc, njobs>>
    BY <1>0, <1>7 DEF Ack
  <2>2. edge' \in BOOLEAN
    BY <1>0, <2>1
  <2> QED  BY <1>0, <1>1, <2>1, <2>2, Turns
<1> QED  BY <1>3, <1>4, <1>5, <1>6, <1>7

\* The busy job of the loop.
LEMMA JobFinds ==
    ASSUME OutInv, pc = "jobs", HeadJob.active
    PROVE  /\ state = "ONLINE" /\ HeadJob.flags \in {{"WRITEV"}, {"SHUTDOWN"}}
           /\ HeadJob.flags = {"WRITEV"} => IsBusy
<1>1. (IsBusy => HeadJob.active /\ HeadJob.flags = {"WRITEV"})
      /\ (IsEnding => HeadJob.active /\ HeadJob.flags = {"SHUTDOWN"})
      /\ (IsIdle => ~HeadJob.active) /\ (IsBusy \/ IsIdle \/ IsEnding)
      /\ {"WRITEV"} # {"SHUTDOWN"}
  BY Shapes, JobFields DEF OutInv, ShapeInv
<1> QED  BY <1>1 DEF OutInv, ShapeInv

\* What one writev() of ape_socket_do_jobs does.
LEMMA WritevIs ==
    ASSUME OutInv, Writev, NEW pos, LineAt(pos)
    PROVE  \E n \in 1 .. room :
             /\ Extends(n) /\ Len(wire) + n <= accepted
             /\ room' = room - n /\ buffered' = buffered - n /\ total' = total - n
             /\ jobs' \in QueueType /\ heap' = OwnedBy(jobs'.slots)
             /\ \E pos2 : /\ Lined(jobs'.slots, jobs'.current, pos2) /\ pos2[0] = Len(wire) + n
                          /\ pos2[Len(jobs'.slots)] = pos[Len(jobs.slots)]
                          /\ IsBusy' => pos2[1] = pos[1]
             /\ \/ IsBusy' /\ jobs'.current = jobs.current /\ njobs' = njobs
                \/ /\ Len(wire) + n = pos[1] /\ njobs' = njobs + 1 /\ ~IsBusy'
                   /\ jobs.current = 1 => IsIdle'
                   /\ jobs.current > 1 => IsEnding'
<1> DEFINE l == HeadJob.ptr.list
           n == Taken(l, room)
           r == Rest(l, room)
           js == Refilled(jobs, r)
           x == IF r.slots[1].used THEN js ELSE Retire(js)
           b == [k \in 1 .. n |-> ByteOf(Chunk(l), k)]
<1>1. /\ pc = "jobs" /\ HeadJob.active /\ HeadJob.flags = {"WRITEV"} /\ room > 0
      /\ wire' = wire \o b /\ room' = room - n /\ buffered' = buffered - n /\ total' = total - n
      /\ heap' = heap \ Sent(l, room)
      /\ IF r.slots[1].used THEN jobs' = js /\ njobs' = njobs
                            ELSE jobs' = Retire(js) /\ njobs' = njobs + 1
  BY DEF Writev, RunsJob, Taken, Rest, Sent, Refilled
<1>2. IsBusy /\ state = "ONLINE"
  BY <1>1, JobFinds
<1>3. /\ Lined(jobs.slots, jobs.current, pos) /\ pos[0] = Len(wire)
      /\ pos[Len(jobs.slots)] = accepted /\ jobs \in QueueType /\ room \in Nat
      /\ heap = OwnedBy(jobs.slots) /\ WireInv
  BY <1>2, JobsAssumption, SMTT(30) DEF LineAt, OutInv, Kinds, MemInv
<1>4. /\ n \in 1 .. room /\ pos[0] + n <= pos[Len(jobs.slots)] /\ pos[0] \in Nat
      /\ \A k \in 1 .. n : ByteOf(Chunk(l), k) = pos[0] + k
      /\ x \in QueueType /\ OwnedBy(x.slots) = OwnedBy(jobs.slots) \ Sent(l, room)
      /\ \E pos2 : /\ Lined(x.slots, x.current, pos2) /\ pos2[0] = pos[0] + n
                   /\ pos2[Len(x.slots)] = pos[Len(jobs.slots)]
                   /\ r.slots[1].used => pos2[1] = pos[1]
      /\ r.slots[1].used => Busy(x.slots, x.current) /\ x.current = jobs.current
      /\ ~r.slots[1].used => /\ pos[0] + n = pos[1]
                             /\ jobs.current = 1 => Idle(x.slots, x.current)
                             /\ jobs.current > 1 => Ending(x.slots)
  BY <1>1, <1>2, <1>3, SendRun DEF IsBusy, HeadJob
<1>5. jobs' = x /\ njobs' = IF r.slots[1].used THEN njobs ELSE njobs + 1
  BY <1>1
<1>6. Extends(n)
  <2>1. b = [k \in 1 .. n |-> Len(wire) + k]
    BY <1>3, <1>4, SMTT(30)
  <2>2. n \in Nat /\ wire \in Seq(Nat) /\ \A i \in 1 .. Len(wire) : wire[i] = i
    BY <1>3, <1>4 DEF WireInv
  <2> HIDE DEF b, n
  <2>3. /\ wire \o b \in Seq(Nat) /\ Len(wire \o b) = Len(wire) + n
        /\ \A i \in 1 .. Len(wire) + n : (wire \o b)[i] = i
    BY <2>1, <2>2, Appended
  <2> QED  BY <1>1, <2>3, SMTT(30) DEF Extends
<1> DEFINE u == r.slots[1].used
<1> HIDE DEF x, n, l, u
<1>7. /\ jobs' \in QueueType /\ heap' = OwnedBy(jobs'.slots) /\ Len(wire) + n <= accepted
      /\ \E pos2 : /\ Lined(jobs'.slots, jobs'.current, pos2) /\ pos2[0] = Len(wire) + n
                   /\ pos2[Len(jobs'.slots)] = pos[Len(jobs.slots)]
                   /\ u => pos2[1] = pos[1]
      /\ u => IsBusy' /\ jobs'.current = jobs.current /\ njobs' = njobs
      /\ ~u => /\ Len(wire) + n = pos[1] /\ njobs' = njobs + 1
               /\ jobs.current = 1 => IsIdle'
               /\ jobs.current > 1 => IsEnding'
  BY <1>1, <1>3, <1>4, <1>5 DEF IsBusy, IsIdle, IsEnding, u
<1>8. ~u => ~IsBusy'
  <2>1. jobs.current \in 1 .. Len(jobs.slots) /\ Len(jobs.slots) \in Nat
    BY Shapes
  <2>2. jobs'.current \in 1 .. Len(jobs'.slots) /\ Len(jobs'.slots) \in Nat
    BY <1>7 DEF Lined
  <2>3. jobs'.current \in Nat /\ 1 <= jobs'.current /\ (jobs.current = 1 \/ jobs.current > 1)
    BY <2>1, <2>2
  <2>4. IsBusy' => ~IsIdle' /\ ~IsEnding'
    BY <2>3, Apart DEF IsBusy, IsIdle, IsEnding
  <2> QED  BY <1>7, <2>3, <2>4
<1>9. \E pos2 : /\ Lined(jobs'.slots, jobs'.current, pos2) /\ pos2[0] = Len(wire) + n
                /\ pos2[Len(jobs'.slots)] = pos[Len(jobs.slots)]
                /\ IsBusy' => pos2[1] = pos[1]
  BY <1>7, <1>8
<1>10. \/ IsBusy' /\ jobs'.current = jobs.current /\ njobs' = njobs
       \/ /\ Len(wire) + n = pos[1] /\ njobs' = njobs + 1 /\ ~IsBusy'
          /\ jobs.current = 1 => IsIdle'
          /\ jobs.current > 1 => IsEnding'
  BY <1>7, <1>8
<1>11. n \in 1 .. room /\ room' = room - n /\ buffered' = buffered - n /\ total' = total - n
  BY <1>1, <1>4
<1> QED  BY <1>6, <1>7, <1>9, <1>10, <1>11, SMTT(30)

\* ape_socket_do_jobs sends some of a WRITEV job.
LEMMA DoWritev ==
    ASSUME OutInv, Writev  PROVE OutInv'
<1>1. PICK pos : LineAt(pos)
  BY DEF OutInv, LineInv
<1>2. PICK n \in 1 .. room :
         /\ Extends(n) /\ Len(wire) + n <= accepted
         /\ room' = room - n /\ buffered' = buffered - n /\ total' = total - n
         /\ jobs' \in QueueType /\ heap' = OwnedBy(jobs'.slots)
         /\ \E pos2 : /\ Lined(jobs'.slots, jobs'.current, pos2) /\ pos2[0] = Len(wire) + n
                      /\ pos2[Len(jobs'.slots)] = pos[Len(jobs.slots)]
                      /\ IsBusy' => pos2[1] = pos[1]
         /\ \/ IsBusy' /\ jobs'.current = jobs.current /\ njobs' = njobs
            \/ /\ Len(wire) + n = pos[1] /\ njobs' = njobs + 1 /\ ~IsBusy'
               /\ jobs.current = 1 => IsIdle'
               /\ jobs.current > 1 => IsEnding'
  BY <1>1, WritevIs
<1>3. PICK pos2 : /\ Lined(jobs'.slots, jobs'.current, pos2) /\ pos2[0] = Len(wire) + n
                  /\ pos2[Len(jobs'.slots)] = pos[Len(jobs.slots)]
                  /\ IsBusy' => pos2[1] = pos[1]
  BY <1>2, SMTT(30)
<1>4. /\ pc = "jobs" /\ HeadJob.active /\ HeadJob.flags = {"WRITEV"}
      /\ UNCHANGED <<wb, nospace, edge, accepted, endVars, pc>>
  BY DEF Writev, RunsJob
<1>5. /\ wb' = wb /\ nospace' = nospace /\ edge' = edge /\ accepted' = accepted
      /\ state' = state /\ promise' = promise /\ how' = how /\ pc' = pc
  BY <1>4 DEF endVars
<1>6. IsBusy /\ state = "ONLINE"
  BY <1>4, JobFinds
<1>7. /\ ~wb /\ njobs = 0 /\ (jobs.current = 1 <=> promise = -1)
  BY <1>4, <1>6 DEF OutInv, TurnInv
<1>8. /\ pos[Len(jobs.slots)] = accepted /\ buffered = accepted - Len(wire)
      /\ (jobs.current > 1 => promise <= pos[1]) /\ total = buffered
  BY <1>1, <1>6 DEF LineAt, OutInv, MemInv, IsBusy
<1>9. /\ Len(wire) \in Nat /\ accepted \in Nat /\ accepted <= MaxStream /\ MaxStream \in Nat
      /\ room \in 0 .. SndBuf /\ SndBuf \in Nat /\ jobs.current \in Nat /\ jobs.current >= 1
  BY Shapes, JobsAssumption DEF OutInv, Kinds
<1>10. WireInv' /\ Len(wire') = Len(wire) + n
  BY <1>2 DEF Extends, WireInv
<1>11. buffered' = accepted - Len(wire') /\ buffered' \in 0 .. MaxStream /\ room' \in 0 .. SndBuf
  <2> DEFINE w == Len(wire)
             a == accepted
             v == Len(wire')
             z == buffered'
             m == MaxStream
  <2>1. /\ w \in Nat /\ a \in Nat /\ a <= m /\ m \in Nat /\ v = w + n /\ z = (a - w) - n
        /\ w + n <= a /\ n \in Nat
    BY <1>2, <1>8, <1>9, <1>10
  <2> HIDE DEF w, a, v, z, m
  <2>2. z = a - v /\ z \in 0 .. m
    BY <2>1
  <2>3. room' \in 0 .. SndBuf
    BY <1>2, <1>9
  <2> QED  BY <2>2, <2>3 DEF w, a, v, z, m
<1>12. njobs' \in {0, 1} /\ (IsBusy' => njobs' = 0)
  BY <1>2, <1>7
<1>13. Kinds'
  BY <1>2, <1>5, <1>11, <1>12 DEF OutInv, Kinds
<1>14. LineAt(pos2)'
  <2>1. pos2[0] = Len(wire') /\ pos2[Len(jobs'.slots)] = accepted'
    BY <1>3, <1>5, <1>8, <1>10
  <2>2. pos2[Len(jobs'.slots)] <= accepted' /\ buffered' = pos2[Len(jobs'.slots)] - Len(wire')
    BY <1>5, <1>9, <1>11, <2>1
  <2>3. IsBusy' /\ jobs'.current > 1 => promise' <= pos2[1]
    BY <1>2, <1>3, <1>5, <1>8
  <2> QED  BY <1>3, <2>1, <2>2, <2>3 DEF LineAt, IsBusy
<1>15. MemInv'
  <2>1. total' = buffered'
    BY <1>2, <1>8
  <2> QED  BY <1>2, <1>5, <1>6, <2>1 DEF MemInv
<1>16. IsBusy' \/ IsIdle' \/ IsEnding'
  BY <1>2, <1>9
<1>17. ShapeInv'
  BY <1>5, <1>6, <1>16 DEF ShapeInv, OutInv
<1>18. jobs'.current \in Nat /\ 1 <= jobs'.current
  <2>1. jobs'.current \in 1 .. Len(jobs'.slots) /\ Len(jobs'.slots) \in Nat
    BY <1>3 DEF Lined
  <2> QED  BY <2>1
<1>19. (IsBusy' => ~IsIdle' /\ ~IsEnding') /\ (IsIdle' => ~IsEnding')
  BY <1>18, Apart DEF IsBusy, IsIdle, IsEnding
<1>20. IsEnding' => promise # -1 /\ Len(wire') >= promise
  <2> SUFFICES ASSUME IsEnding'  PROVE promise # -1 /\ Len(wire') >= promise
    OBVIOUS
  <2>1. Len(wire') = pos[1] /\ jobs.current # 1
    BY <1>2, <1>10, <1>19
  <2>2. jobs.current > 1
    BY <1>9, <2>1
  <2>3. promise <= pos[1] /\ promise \in Int /\ Len(wire') \in Nat
    BY <1>2, <1>8, <1>9, <1>10, <2>2 DEF OutInv, Kinds
  <2> QED  BY <1>7, <2>1, <2>3
<1>21. IsIdle' => promise = -1
  <2> SUFFICES ASSUME IsIdle'  PROVE promise = -1
    OBVIOUS
  <2>1. ~(jobs.current > 1)
    BY <1>2, <1>19
  <2> QED  BY <1>7, <1>9, <2>1
<1>22. IsBusy' => (jobs'.current = 1 <=> promise = -1)
  BY <1>2, <1>7
<1>23. TurnInv'
  BY <1>4, <1>5, <1>7, <1>12, <1>20, <1>21, <1>22 DEF TurnInv
<1> QED  BY <1>10, <1>13, <1>14, <1>15, <1>17, <1>23 DEF OutInv, LineInv

\* ape_socket_free.
LEMMA DoFree ==
    ASSUME OutInv, Free  PROVE OutInv'
<1>1. /\ pc = "idle" /\ state = "SHUTDOWN" /\ state' = "FREED"
      /\ heap' = heap \ UNION {{jobs.slots[j].ptr.list.slots[i].base + 1 :
                                  i \in Pending(jobs.slots[j].ptr.list)} : j \in Cleaned}
      /\ total' = total - CleanedBytes
      /\ jobs' = NewPoolList(NoJob, 2)
      /\ UNCHANGED <<wb, buffered, kernelVars, streamVars, promise, how, pc, njobs>>
  BY DEF Free
<1>2. /\ wb' = wb /\ buffered' = buffered /\ room' = room /\ nospace' = nospace /\ edge' = edge
      /\ accepted' = accepted /\ wire' = wire /\ promise' = promise /\ how' = how /\ pc' = pc
      /\ njobs' = njobs
  BY <1>1 DEF kernelVars, streamVars
<1>3. PICK pos : LineAt(pos)
  BY DEF OutInv, LineInv
<1>4. /\ Lined(jobs.slots, jobs.current, pos) /\ pos[0] = Len(wire)
      /\ buffered = pos[Len(jobs.slots)] - Len(wire) /\ total = buffered
      /\ heap = OwnedBy(jobs.slots) /\ buffered \in Nat
  BY <1>1, <1>3, JobsAssumption DEF LineAt, OutInv, MemInv, Kinds
<1>5. /\ CleanedBytes = pos[Len(jobs.slots)] - pos[0]
      /\ OwnedBy(jobs.slots) \
           UNION {{jobs.slots[j].ptr.list.slots[i].base + 1 :
                     i \in Pending(jobs.slots[j].ptr.list)} : j \in Cleaned} = {}
  BY <1>4, FreeRun
<1>6. total' = 0 /\ heap' = {}
  <2>1. CleanedBytes = buffered
    BY <1>4, <1>5
  <2>2. total' = 0
    BY <1>1, <1>4, <2>1
  <2>3. heap' = {}
    BY <1>1, <1>4, <1>5
  <2> QED  BY <2>2, <2>3
<1>7. /\ jobs' \in QueueType /\ Idle(jobs'.slots, jobs'.current) /\ OwnedBy(jobs'.slots) = {}
      /\ \A x \in Nat : \E po : /\ Lined(jobs'.slots, jobs'.current, po)
                                /\ po[0] = x /\ po[Len(jobs'.slots)] = x
  BY <1>1, NewJobs
<1>8. Len(wire) \in Nat /\ Len(wire) <= accepted
  BY Shapes
<1>9. PICK po : Lined(jobs'.slots, jobs'.current, po) /\ po[0] = Len(wire) /\ po[Len(jobs'.slots)] = Len(wire)
  BY <1>7, <1>8
<1>10. IsIdle' /\ ~IsBusy'
  <2>1. jobs'.current \in Nat /\ 1 <= jobs'.current
    BY <1>7 DEF Idle
  <2> QED  BY <1>7, <2>1, Apart DEF IsIdle, IsBusy
<1>11. LineAt(po)'
  BY <1>1, <1>2, <1>8, <1>9, <1>10 DEF LineAt, IsBusy
<1>12. Kinds' /\ WireInv'
  BY <1>1, <1>2, <1>7 DEF OutInv, Kinds, WireInv
<1>13. MemInv' /\ TurnInv'
  BY <1>1, <1>6, <1>7 DEF MemInv, TurnInv
<1>14. ShapeInv'
  BY <1>1, <1>2, <1>10 DEF ShapeInv, OutInv
<1> QED  BY <1>11, <1>12, <1>13, <1>14 DEF OutInv, LineInv

\* The socket as it is when it comes online.
LEMMA OutInit ==
    ASSUME Init  PROVE OutInv
<1>1. /\ state = "ONLINE" /\ wb = FALSE /\ jobs = NewPoolList(NoJob, 2) /\ buffered = 0
      /\ total = 0 /\ heap = {} /\ room = SndBuf /\ nospace = FALSE /\ edge = TRUE
      /\ pc = "idle" /\ njobs = 0 /\ accepted = 0 /\ wire = <<>> /\ promise = -1 /\ how = "none"
  BY DEF Init
<1>2. /\ jobs \in QueueType /\ IsIdle /\ OwnedBy(jobs.slots) = {} /\ 0 \in Nat
      /\ \A x \in Nat : \E pos : /\ Lined(jobs.slots, jobs.current, pos)
                                 /\ pos[0] = x /\ pos[Len(jobs.slots)] = x
  BY <1>1, NewJobs DEF IsIdle
<1>3. PICK pos : Lined(jobs.slots, jobs.current, pos) /\ pos[0] = 0 /\ pos[Len(jobs.slots)] = 0
  BY <1>2
<1>4. ~IsBusy /\ ~IsEnding
  <2>1. jobs.current \in Nat /\ 1 <= jobs.current
    BY <1>2 DEF IsIdle, Idle
  <2> QED  BY <1>2, <2>1, Apart DEF IsIdle, IsBusy, IsEnding
<1>5. Len(wire) = 0 /\ wire \in Seq(Nat)
  BY <1>1
<1>6. Kinds
  <2>1. SndBuf \in 0 .. SndBuf /\ 0 \in 0 .. MaxStream /\ -1 \in -1 .. MaxStream
    BY JobsAssumption
  <2>2. wb \in BOOLEAN /\ nospace \in BOOLEAN /\ edge \in BOOLEAN
    BY <1>1
  <2> QED  BY <1>1, <1>2, <2>1, <2>2, Zenon DEF Kinds
<1>7. WireInv
  BY <1>5 DEF WireInv
<1>8. LineAt(pos)
  <2>1. pos[0] = Len(wire) /\ pos[Len(jobs.slots)] = accepted
        /\ accepted <= accepted /\ buffered = accepted - Len(wire)
    <3>1. accepted = 0 /\ buffered = 0
      BY <1>1
    <3>2. accepted <= accepted /\ buffered = accepted - Len(wire)
      BY <1>5, <3>1
    <3> QED  BY <1>3, <1>5, <3>1, <3>2
  <2> QED  BY <1>3, <1>4, <2>1, Zenon DEF LineAt, IsBusy
<1>9. MemInv
  BY <1>1, <1>2 DEF MemInv
<1>10. ShapeInv
  BY <1>1, <1>2 DEF ShapeInv
<1>11. TurnInv
  BY <1>1, <1>4 DEF TurnInv
<1> QED  BY <1>6, <1>7, <1>8, <1>9, <1>10, <1>11 DEF OutInv, LineInv

\* Which steps there are when the application only writes and shuts down.
LEMMA StepIs ==
    ASSUME WritesOnly, OutInv, Next
    PROVE  \/ \E len \in Lens : WriteAll(len) \/ WriteError(len)
           \/ \E len \in Lens, cls \in Classes : WriteQueued(len, cls) \/ WriteSome(len, cls, 0)
           \/ Shutdown \/ ShutdownNow \/ WritevError \/ JobShutdown \/ Writev \/ Free
           \/ WriteEvent \/ ReadDone \/ JobNone \/ WritevRefused \/ Ack
<1>1. CASE App
  <2>1. AckDuringWrite = FALSE /\ FileLens = {} /\ VecLens = {}
    BY DEF WritesOnly
  <2>2. (IF AckDuringWrite THEN 0 .. SndBuf ELSE {0}) = {0}
    BY <2>1
  <2> QED  BY <1>1, <2>1, <2>2 DEF App
<1>2. CASE Jobs
  <2>1. ~(SendfileRefused \/ SendfileSome \/ SendfileDone)
    <3>1. {"SENDFILE"} \notin {{"WRITEV"}, {"SHUTDOWN"}}
      OBVIOUS
    <3> QED  BY <3>1, JobFinds DEF SendfileRefused, SendfileSome, SendfileDone, RunsJob
  <2>2. ~JobDefault
    BY JobFinds DEF JobDefault
  <2> QED  BY <1>2, <2>1, <2>2 DEF Jobs
<1> QED  BY <1>1, <1>2 DEF Next

\* Every step keeps the invariant.
LEMMA OutStep ==
    ASSUME WritesOnly, OutInv, [Next]_vars  PROVE OutInv'
<1>1. CASE UNCHANGED vars
  <2>1. /\ UNCHANGED <<jobVars, streamVars, endVars>>
        /\ UNCHANGED <<wb, nospace, edge, room, pc, njobs>>
    BY <1>1 DEF vars, kernelVars
  <2> QED  BY <2>1, Turns DEF OutInv, Kinds, ShapeInv, TurnInv
<1>2. CASE Next
  <2>1. ASSUME NEW len \in Lens, WriteAll(len) \/ WriteError(len)  PROVE OutInv'
    BY <2>1, DoWriteAll, DoWriteError
  <2>2. ASSUME NEW len \in Lens, NEW cls \in Classes, WriteQueued(len, cls)  PROVE OutInv'
    BY <2>2, DoWriteQueued
  <2>3. ASSUME NEW len \in Lens, NEW cls \in Classes, WriteSome(len, cls, 0)  PROVE OutInv'
    BY <2>3, DoWriteSome
  <2>4. CASE Shutdown
    BY <2>4, DoShutdown
  <2>5. CASE ShutdownNow \/ WritevError
    BY <2>5, DoCut
  <2>6. CASE JobShutdown
    BY <2>6, DoJobShutdown
  <2>7. CASE Writev
    BY <2>7, DoWritev
  <2>8. CASE Free
    BY <2>8, DoFree
  <2>9. CASE WriteEvent \/ ReadDone \/ JobNone \/ WritevRefused \/ Ack
    BY <2>9, DoTurn
  <2> QED  BY <1>2, <2>1, <2>2, <2>3, <2>4, <2>5, <2>6, <2>7, <2>8, <2>9, StepIs
<1> QED  BY <1>1, <1>2

\* The jobs hold exactly the accepted bytes that did not go out, in order,
\* in every reachable state.
THEOREM OutputConsistent ==
    ASSUME WritesOnly  PROVE Spec => []OutInv
<1>1. Init => OutInv
  BY OutInit
<1>2. OutInv /\ [Next]_vars => OutInv'
  BY OutStep
<1> QED  BY <1>1, <1>2, PTL DEF Spec

-----------------------------------------------------------------------------
(* What follows from the invariant.                                        *)

\* The slots of the job list, one by one.
LEMMA SlotsAre ==
    ASSUME OutInv, NEW j \in DOMAIN jobs.slots
    PROVE  /\ JobTypeOK(jobs.slots[j])
           /\ \A x \in Buffers(jobs.slots[j]) : x \in 1 .. MaxStream
           /\ j > jobs.current => ~jobs.slots[j].active
<1> DEFINE s == jobs.slots[j]
           n == Len(jobs.slots)
<1>1. PICK pos : LineAt(pos)
  BY DEF OutInv, LineInv
<1>2. /\ jobs.slots \in Seq(JobType) /\ n \in Nat /\ pos \in [0 .. n -> Nat]
      /\ jobs.current \in 1 .. n /\ pos[n] <= accepted /\ accepted \in 0 .. MaxStream
      /\ \A i, k \in 0 .. n : i <= k => pos[i] <= pos[k]
      /\ \A i \in 1 .. n : Fills(jobs.slots[i], pos[i - 1], pos[i], i = 1)
      /\ \A i \in jobs.current + 1 .. n : jobs.slots[i] = NoJob
  <2>1. Lined(jobs.slots, jobs.current, pos) /\ pos[n] <= accepted
    BY <1>1, Zenon DEF LineAt
  <2>2. accepted \in 0 .. MaxStream
    BY DEF OutInv, Kinds
  <2> HIDE DEF NoJob
  <2> QED  BY <2>1, <2>2 DEF Lined
<1>3. j \in 1 .. n /\ (j = 1) \in BOOLEAN
  BY <1>2
<1>4. Fills(s, pos[j - 1], pos[j], j = 1) /\ pos[j - 1] \in Nat /\ pos[j] \in Nat /\ pos[j] <= pos[n]
      /\ pos[n] \in Nat
  <2>1. j \in 0 .. n /\ j - 1 \in 0 .. n /\ n \in 0 .. n /\ j <= n
    BY <1>2, <1>3
  <2> QED  BY <1>2, <1>3, <2>1
<1> DEFINE a == pos[j - 1]
           b == pos[j]
           f == j = 1
<1>5. Fills(s, a, b, f) /\ a \in Nat /\ b \in Nat /\ b <= accepted /\ f \in BOOLEAN
  BY <1>2, <1>3, <1>4
<1> HIDE DEF a, b, f, s
<1>6. ASSUME NEW x \in Buffers(s)  PROVE x \in 1 .. MaxStream
  <2>1. x \in Nat /\ 1 <= x /\ x <= b
    BY <1>5, BuffersAre
  <2> QED  BY <1>2, <1>5, <2>1, JobsAssumption
<1>7. j > jobs.current => ~s.active
  <2> SUFFICES ASSUME j > jobs.current  PROVE ~s.active
    OBVIOUS
  <2>1. s = NoJob
    BY <1>2, <1>3 DEF s
  <2> QED  BY <2>1, JobFields
<1>8. JobTypeOK(s)
  <2>1. ASSUME NEW l \in ListType, l.current \in 1 .. Len(l.slots)
        PROVE  Range(l.slots) \subseteq PacketType /\ l.current \in DOMAIN l.slots
    <3>1. l.slots \in Seq(PacketType)
      BY DEF ListType
    <3> QED  BY <2>1, <3>1 DEF Range
  <2>2. ASSUME NEW l \in ListType, l.current \in 1 .. Len(l.slots), s = DataJob(l) \/ s = DoneJob(l)
        PROVE  JobTypeOK(s)
    <3>0. \A v \in BOOLEAN : [active |-> v, flags |-> {"WRITEV"}, ptr |-> ListPtr(l)].active \in BOOLEAN
      OBVIOUS
    <3>1. s.active \in BOOLEAN
      BY <2>2, <3>0, Zenon DEF DataJob, DoneJob
    <3>3. s.flags = {"WRITEV"} /\ s.ptr.kind = "list" /\ s.ptr.list = l
      BY <2>2, JobFields
    <3>2. Range(l.slots) \subseteq PacketType /\ l.current \in DOMAIN l.slots
      BY <2>1, <2>2
    <3> QED  BY <3>1, <3>2, <3>3 DEF JobTypeOK
  <2>3. CASE s = NoJob \/ s = EndJob
    <3>1. \A v \in BOOLEAN : \A g : [active |-> v, flags |-> g, ptr |-> NullPtr].active \in BOOLEAN
      OBVIOUS
    <3>2. s.active \in BOOLEAN
      BY <2>3, <3>1, Zenon DEF NoJob, EndJob
    <3>3. s.ptr = NullPtr /\ s.flags \subseteq {"WRITEV", "SENDFILE", "SHUTDOWN"}
      BY <2>3, JobFields
    <3> QED  BY <3>2, <3>3 DEF JobTypeOK
  <2>4. \A l : Empty(l) => l.current \in 1 .. Len(l.slots)
    BY DEF Empty, ListType
  <2>5. \A l : Stretch(l, a, b, f) => l.current \in 1 .. Len(l.slots)
    BY DEF Stretch
  <2> QED  BY <1>5, <2>2, <2>3, <2>4, <2>5, FillsCases
<1> QED  BY <1>6, <1>7, <1>8 DEF s

\* The buffers of the heap are those of the pending packets.
LEMMA OwnedIs ==
    ASSUME OutInv  PROVE OwnedPending = OwnedBy(jobs.slots)
<1>1. DOMAIN jobs.slots = 1 .. Len(jobs.slots)
  BY Shapes
<1>2. ASSUME NEW x \in OwnedPending  PROVE x \in OwnedBy(jobs.slots)
  <2>1. PICK j \in 1 .. Len(jobs.slots) :
          jobs.slots[j].ptr.kind = "list" /\ x \in OwnedIn(jobs.slots[j].ptr.list)
    BY <1>1 DEF OwnedPending, OwnedIn
  <2> QED  BY <2>1 DEF OwnedBy, Buffers
<1>3. ASSUME NEW x \in OwnedBy(jobs.slots)  PROVE x \in OwnedPending
  <2>1. PICK j \in DOMAIN jobs.slots : x \in Buffers(jobs.slots[j])
    BY <1>1 DEF OwnedBy
  <2>2. jobs.slots[j].ptr.kind = "list" /\ x \in OwnedIn(jobs.slots[j].ptr.list)
    BY <2>1 DEF Buffers
  <2> QED  BY <2>2 DEF OwnedPending, OwnedIn
<1> QED  BY <1>2, <1>3

\* The cursors stay inside their lists, the accounts above zero.
THEOREM TypeCorrect ==
    ASSUME WritesOnly  PROVE Spec => []TypeOK
<1>1. OutInv => TypeOK
  <2> SUFFICES ASSUME OutInv  PROVE TypeOK
    OBVIOUS
  <2>1. /\ jobs.current \in DOMAIN jobs.slots /\ Len(wire) <= accepted
    BY Shapes
  <2>2. \A i \in DOMAIN jobs.slots : JobTypeOK(jobs.slots[i])
    BY SlotsAre
  <2>3. heap \subseteq 1 .. MaxStream
    <3> SUFFICES ASSUME NEW x \in OwnedBy(jobs.slots)  PROVE x \in 1 .. MaxStream
      BY DEF OutInv, MemInv
    <3>1. PICK j \in DOMAIN jobs.slots : x \in Buffers(jobs.slots[j])
      BY Shapes DEF OwnedBy
    <3> QED  BY <3>1, SlotsAre
  <2>4. total \in 0 .. MaxStream
    BY JobsAssumption DEF OutInv, MemInv, Kinds
  <2>5. pc \in {"idle", "read", "jobs", "crash"} /\ njobs \in Nat
    BY DEF OutInv, Kinds
  <2>6. Kinds
    BY DEF OutInv
  <2> QED  BY <2>1, <2>2, <2>3, <2>4, <2>5, <2>6, Zenon DEF TypeOK, Kinds
<1> QED  BY <1>1, OutputConsistent, PTL

\* StreamIntact: what the peer gets is a prefix of what the application
\* wrote, however the kernel splits it (APE_socket_write,
\* ape_socket_queue_data, ape_socket_do_jobs).
THEOREM StreamKept ==
    ASSUME WritesOnly  PROVE Spec => []StreamIntact
<1>1. OutInv => StreamIntact
  BY DEF OutInv, WireInv, StreamIntact
<1> QED  BY <1>1, OutputConsistent, PTL

\* AccountsExact: current_buffer_memory_bytes is what was written and not yet
\* sent, and ape_socket_free gives all of it back.
THEOREM AccountsKept ==
    ASSUME WritesOnly  PROVE Spec => []AccountsExact
<1>1. OutInv => AccountsExact
  <2> SUFFICES ASSUME OutInv  PROVE AccountsExact
    OBVIOUS
  <2>1. PICK pos : LineAt(pos)
    BY DEF OutInv, LineInv
  <2>2. state = "ONLINE" => buffered = accepted - Len(wire)
    BY <2>1 DEF LineAt
  <2> QED  BY <2>2 DEF OutInv, MemInv, AccountsExact
<1> QED  BY <1>1, OutputConsistent, PTL

\* HeapExact: a buffer the library owns lives exactly as long as a packet
\* that needs it (ape_socket_release_data, the pool cleaners).
THEOREM HeapKept ==
    ASSUME WritesOnly  PROVE Spec => []HeapExact
<1>1. OutInv => HeapExact
  BY OwnedIs DEF OutInv, MemInv, HeapExact
<1> QED  BY <1>1, OutputConsistent, PTL

\* GracefulShutdown: a queued shutdown closes the socket only after
\* everything written before it reached the kernel.
THEOREM ShutdownWaits ==
    ASSUME WritesOnly  PROVE Spec => []GracefulShutdown
<1>1. OutInv => GracefulShutdown
  BY DEF OutInv, ShapeInv, GracefulShutdown
<1> QED  BY <1>1, OutputConsistent, PTL

\* ShutdownKept: a queued shutdown is not lost among the data jobs that
\* come, go and are reused around it.
THEOREM ShutdownStays ==
    ASSUME WritesOnly  PROVE Spec => []ShutdownKept
<1>1. OutInv => ShutdownKept
  <2> SUFFICES ASSUME OutInv, promise # -1, state = "ONLINE"
               PROVE  \E j \in DOMAIN jobs.slots :
                         jobs.slots[j].active /\ jobs.slots[j].flags = {"SHUTDOWN"}
    BY DEF ShutdownKept
  <2>1. /\ jobs.slots \in Seq(JobType) /\ Len(jobs.slots) \in Nat
        /\ jobs.current \in 1 .. Len(jobs.slots)
    BY Shapes
  <2>2. IsEnding \/ (IsBusy /\ jobs.current > 1)
    BY <2>1 DEF OutInv, ShapeInv, TurnInv
  <2>3. CASE IsEnding
    <3>1. 1 \in DOMAIN jobs.slots /\ jobs.slots[1] = EndJob
      BY <2>1, <2>3 DEF IsEnding, Ending
    <3> QED  BY <3>1, JobFields
  <2>4. CASE IsBusy /\ jobs.current > 1
    <3>1. 2 \in DOMAIN jobs.slots /\ jobs.slots[2] = EndJob
      BY <2>1, <2>4 DEF IsBusy, Busy
    <3> QED  BY <3>1, JobFields
  <2> QED  BY <2>2, <2>3, <2>4
<1> QED  BY <1>1, OutputConsistent, PTL

\* HeadFirst: the head of the list, the only job a call looks at before it
\* bypasses the list, is active while any job is.
THEOREM HeadDecides ==
    ASSUME WritesOnly  PROVE Spec => []HeadFirst
<1>1. OutInv => HeadFirst
  <2> SUFFICES ASSUME OutInv, NEW j \in DOMAIN jobs.slots, jobs.slots[j].active, ~HeadJob.active
               PROVE  FALSE
    BY DEF HeadFirst
  <2>1. IsIdle /\ DOMAIN jobs.slots = 1 .. Len(jobs.slots) /\ Len(jobs.slots) \in Nat
    BY Shapes DEF OutInv, ShapeInv
  <2>2. jobs.current = 1
    BY <2>1 DEF IsIdle, Idle
  <2>3. j = 1 \/ j > jobs.current
    BY <2>1, <2>2
  <2> QED  BY <2>3, SlotsAre DEF HeadJob
<1> QED  BY <1>1, OutputConsistent, PTL

\* NoLostWakeup: while a job waits and the loop does not work on it, a write
\* edge is there or will come.
THEOREM WakeupComes ==
    ASSUME WritesOnly  PROVE Spec => []NoLostWakeup
<1>1. OutInv => NoLostWakeup
  <2> SUFFICES ASSUME OutInv, pc = "idle", state = "ONLINE", HeadJob.active
               PROVE  edge \/ nospace
    BY DEF NoLostWakeup
  <2>1. IsBusy
    BY Shapes DEF OutInv, ShapeInv, TurnInv
  <2> QED  BY <2>1 DEF OutInv, TurnInv
<1> QED  BY <1>1, OutputConsistent, PTL

\* DrainReported: one call of ape_socket_do_jobs finishes one job at most
\* before the list is empty, so that its result is the 1 on_drain waits for.
THEOREM DrainCounted ==
    ASSUME WritesOnly  PROVE Spec => []DrainReported
<1>1. OutInv => DrainReported
  BY DEF OutInv, Kinds, DrainReported
<1> QED  BY <1>1, OutputConsistent, PTL

-----------------------------------------------------------------------------
(* The refinement of ByteStream.                                           *)

\* While data is queued not everything went out.
LEMMA BusyPending ==
    ASSUME OutInv, IsBusy, state = "ONLINE"
    PROVE  Len(wire) < accepted
<1> DEFINE n == Len(jobs.slots)
           s == jobs.slots[1]
<1>1. PICK pos : LineAt(pos)
  BY DEF OutInv, LineInv
<1>2. /\ n \in Nat /\ pos \in [0 .. n -> Nat] /\ jobs.current \in 1 .. n
      /\ pos[n] = accepted /\ pos[0] = Len(wire)
      /\ \A i, k \in 0 .. n : i <= k => pos[i] <= pos[k]
      /\ \A i \in 1 .. n : Fills(jobs.slots[i], pos[i - 1], pos[i], i = 1)
  BY <1>1 DEF LineAt, Lined
<1>3. /\ 1 \in 1 .. n /\ 1 \in 0 .. n /\ n \in 0 .. n /\ 0 \in 0 .. n /\ 1 <= n /\ 1 - 1 = 0
      /\ (1 = 1) = TRUE
  BY <1>2
<1>4. /\ pos[1] <= pos[n] /\ pos[0] \in Nat /\ pos[1] \in Nat /\ pos[n] \in Nat
  BY <1>2, <1>3
<1>5. Fills(s, pos[0], pos[1], TRUE)
  <2>1. \A i \in 1 .. n : i - 1 = 0 /\ (i = 1) = TRUE => Fills(jobs.slots[i], pos[0], pos[i], TRUE)
    BY <1>2, Zenon
  <2> QED  BY <1>3, <2>1, Zenon
<1> DEFINE a == pos[0]
           b == pos[1]
<1>6. s.active /\ s.flags = {"WRITEV"}
  BY Shapes DEF HeadJob
<1> HIDE DEF s, a, b
<1>7. PICK l \in ListType : Stretch(l, a, b, TRUE) /\ l.current > 1
  <2>1. Fills(s, a, b, TRUE) /\ TRUE \in BOOLEAN
    BY <1>5 DEF a, b
  <2>2. s # EndJob /\ s # NoJob /\ \A l : s # DoneJob(l)
    BY <1>6, JobFields
  <2> QED  BY <2>1, <2>2, FillsCases
<1>8. a < b
  BY <1>7, PendingIs
<1> QED  BY <1>2, <1>4, <1>8 DEF a, b

\* What a write appends to the wire.
LEMMA WireGrows ==
    ASSUME OutInv, NEW k \in Nat, NEW e,
           wire' = wire \o Bytes(accepted, accepted + k, accepted + e), e \in Nat
    PROVE  Len(wire') >= Len(wire)
<1>1. wire \in Seq(Nat) /\ accepted \in Nat
  BY JobsAssumption DEF OutInv, WireInv, Kinds
<1>2. (accepted + k) - accepted = k
  BY <1>1
<1> DEFINE b == Bytes(accepted, accepted + k, accepted + e)
<1>3. b \in Seq(Nat)
  BY <1>1, <1>2 DEF Bytes, Garbage
<1> HIDE DEF b
<1>4. Len(wire \o b) = Len(wire) + Len(b) /\ Len(b) \in Nat /\ Len(wire) \in Nat
  BY <1>1, <1>3
<1> QED  BY <1>4 DEF b

\* What is known of the stream, before and after a step
FirstSent ==
    /\ Len(wire) \in Nat /\ Len(wire) <= accepted /\ accepted \in Nat
    /\ wire = Stream!FirstBytes(Len(wire))

\* The invariant says what went out.
LEMMA StreamIs ==
    OutInv => FirstSent
<1> SUFFICES ASSUME OutInv  PROVE FirstSent
  OBVIOUS
<1>1. wire \in Seq(Nat) /\ \A i \in 1 .. Len(wire) : wire[i] = i
  BY DEF OutInv, WireInv
<1>2. wire = [i \in 1 .. Len(wire) |-> i]
  BY <1>1
<1>3. accepted \in Nat
  BY JobsAssumption DEF OutInv, Kinds
<1> QED  BY <1>2, <1>3, Shapes DEF FirstSent, Stream!FirstBytes

\* It says so after a step, too.
LEMMA StreamThen ==
    OutInv' => FirstSent'
BY StreamIs, PTL

\* A call that hands bytes over.
LEMMA Hands ==
    ASSUME OutInv, NEW len \in Lens, NEW cls,
           \/ WriteAll(len) \/ WriteError(len)
           \/ WriteQueued(len, cls) \/ WriteSome(len, cls, 0)
    PROVE  /\ accepted' = accepted + len /\ Len(wire') >= Len(wire) /\ promise' = promise
           /\ how' \in {how, "forced"} /\ state = "ONLINE"
<1>0. len \in Nat /\ room \in Nat /\ accepted \in Nat /\ Len(wire) \in Nat
  BY JobsAssumption, StreamIs DEF OutInv, Kinds, FirstSent
<1>1. CASE WriteAll(len)
  <2>1. wire' = wire \o Bytes(accepted, accepted + len, accepted + len)
    BY <1>1 DEF WriteAll
  <2>2. Len(wire') >= Len(wire)
    BY <1>0, <2>1, WireGrows
  <2> QED  BY <1>1, <2>2 DEF WriteAll, AppRuns, endVars
<1>2. CASE WriteError(len)
  <2>1. \/ wire' = wire
        \/ wire' = wire \o Bytes(accepted, accepted + room, accepted + len)
    BY <1>2 DEF WriteError
  <2>2. Len(wire') >= Len(wire)
    BY <1>0, <2>1, WireGrows
  <2> QED  BY <1>2, <2>2 DEF WriteError, AppRuns, ApeShutdown
<1>3. CASE WriteQueued(len, cls)
  <2>1. how' \in {how, "forced"}
    BY <1>3 DEF WriteQueued, QueueData, ApeShutdown
  <2> QED  BY <1>0, <1>3, <2>1 DEF WriteQueued, AppRuns
<1>4. CASE WriteSome(len, cls, 0)
  <2>1. Least(len, 0) = 0 /\ room + 0 = room
    BY <1>0 DEF Least
  <2>2. wire' = wire \o Bytes(accepted, accepted + room, accepted + len)
    BY <1>4, <2>1 DEF WriteSome
  <2>3. Len(wire') >= Len(wire)
    BY <1>0, <2>2, WireGrows
  <2>4. how' \in {how, "forced"}
    BY <1>4 DEF WriteSome, QueueData, ApeShutdown
  <2> QED  BY <1>4, <2>3, <2>4 DEF WriteSome, AppRuns
<1> QED  BY <1>1, <1>2, <1>3, <1>4

\* ByteStream's steps, one by one.
LEMMA StreamStep ==
    ASSUME WritesOnly, OutInv, OutInv', [Next]_vars
    PROVE  [Stream!Next]_(Stream!vars)
<1>1. /\ Len(wire) \in Nat /\ Len(wire) <= accepted /\ accepted \in Nat
      /\ wire = Stream!FirstBytes(Len(wire))
  BY StreamIs DEF FirstSent
<1>2. /\ Len(wire') \in Nat /\ Len(wire') <= accepted' /\ accepted' \in Nat
      /\ wire' = Stream!FirstBytes(Len(wire'))
  BY StreamThen DEF FirstSent
<1>3. state = "ONLINE" <=> how = "none"
  BY DEF OutInv, ShapeInv
<1>4. CASE UNCHANGED vars
  BY <1>4 DEF vars, streamVars, endVars, Stream!vars
<1>5. ASSUME NEW len \in Lens, NEW cls,
             \/ WriteAll(len) \/ WriteError(len)
             \/ WriteQueued(len, cls) \/ WriteSome(len, cls, 0)
      PROVE  Stream!Put
  <2>1. /\ accepted' = accepted + len /\ Len(wire') >= Len(wire) /\ promise' = promise
        /\ how' \in {how, "forced"} /\ state = "ONLINE"
    BY <1>5, Hands
  <2>2. len \in Nat /\ len > 0
    BY JobsAssumption
  <2> QED  BY <1>1, <1>2, <1>3, <2>1, <2>2 DEF Stream!Put
<1>6. CASE Shutdown
  <2>1. /\ AppRuns /\ state = "ONLINE" /\ accepted' = accepted /\ wire' = wire
        /\ promise' = (IF promise = -1 THEN accepted ELSE promise)
        /\ (Blocked /\ how' = how) \/ (~Blocked /\ how' = "graceful")
    BY <1>6 DEF Shutdown, AppRuns, ApeShutdown, streamVars
  <2>2. (Blocked => IsBusy) /\ (~Blocked => IsIdle)
    BY <2>1, CallFinds
  <2>3. CASE Blocked
    <3>1. Len(wire) # accepted /\ how' = how
      BY <1>1, <2>1, <2>2, <2>3, BusyPending
    <3>2. CASE promise = -1
      BY <1>3, <2>1, <3>1, <3>2 DEF Stream!Ask, Stream!Next
    <3>3. CASE promise # -1
      BY <2>1, <3>1, <3>3 DEF Stream!vars
    <3> QED  BY <3>2, <3>3
  <2>4. CASE ~Blocked
    <3>1. Len(wire) = accepted /\ promise = -1 /\ how' = "graceful"
      BY <2>1, <2>2, <2>4, IdleIs DEF OutInv, TurnInv
    <3> QED  BY <1>3, <2>1, <3>1 DEF Stream!Ask, Stream!Next
  <2> QED  BY <2>3, <2>4
<1>7. CASE ShutdownNow \/ WritevError
  <2>1. state = "ONLINE"
    BY <1>7 DEF ShutdownNow, AppRuns, WritevError, RunsJob, OutInv, ShapeInv
  <2> QED  BY <1>3, <1>7, <2>1
           DEF ShutdownNow, WritevError, ApeShutdown, streamVars, Stream!Cut, Stream!Next
<1>8. CASE JobShutdown
  <2>1. pc = "jobs" /\ HeadJob.active /\ HeadJob.flags = {"SHUTDOWN"} /\ {"WRITEV"} # {"SHUTDOWN"}
        /\ state = "ONLINE"
    BY <1>8, JobFields DEF JobShutdown, RunsJob, OutInv, ShapeInv
  <2>2. IsEnding
    BY <2>1, Shapes DEF OutInv, ShapeInv
  <2>3. promise # -1 /\ Len(wire) >= promise
    BY <2>1, <2>2 DEF OutInv, TurnInv
  <2> QED  BY <1>3, <1>8, <2>1, <2>3
           DEF JobShutdown, ApeShutdown, streamVars, Stream!Finish, Stream!Next
<1>9. CASE Writev
  <2>1. PICK pos : LineAt(pos)
    BY DEF OutInv, LineInv
  <2>2. PICK n \in 1 .. room : Extends(n) /\ Len(wire) + n <= accepted
    BY <1>9, <2>1, WritevIs
  <2>3. room \in Nat /\ state = "ONLINE"
    <3>1. pc = "jobs"
      BY <1>9 DEF Writev, RunsJob
    <3>2. state = "ONLINE"
      BY <3>1 DEF OutInv, ShapeInv
    <3>3. room \in Nat
      BY JobsAssumption DEF OutInv, Kinds
    <3> QED  BY <3>2, <3>3, SMTT(30)
  <2>4. Len(wire') \in Len(wire) + 1 .. accepted
    <3> DEFINE w == Len(wire)
               v == Len(wire')
    <3>1. w \in Nat /\ v = w + n /\ n \in Nat /\ 1 <= n /\ w + n <= accepted /\ accepted \in Nat
      BY <1>1, <2>2, <2>3 DEF Extends
    <3> HIDE DEF w, v
    <3>2. v \in w + 1 .. accepted
      BY <3>1, SMTT(30)
    <3> QED  BY <3>2 DEF w, v
  <2>5. UNCHANGED <<accepted, promise, how>>
    BY <1>9 DEF Writev, endVars
  <2> QED  BY <1>2, <1>3, <2>3, <2>4, <2>5 DEF Stream!Deliver, Stream!Next
<1>10. CASE Free \/ WriteEvent \/ ReadDone \/ JobNone \/ WritevRefused \/ Ack
  BY <1>10 DEF Free, WriteEvent, ReadDone, JobNone, WritevRefused, Ack, streamVars, endVars,
               Stream!vars
<1>11. CASE Next
  <2>1. \A len \in Lens : \A cls :
          WriteAll(len) \/ WriteError(len) \/ WriteQueued(len, cls) \/ WriteSome(len, cls, 0)
            => Stream!Next
    BY <1>5 DEF Stream!Next
  <2> QED  BY <1>6, <1>7, <1>8, <1>9, <1>10, <1>11, <2>1, StepIs
<1> QED  BY <1>4, <1>11

\* The safety half of the refinement StreamSpec: the bytes handed over go
\* out in order, each once, and an end that was asked for comes after them,
\* however the kernel, the loop and the calls from on_read interleave.
THEOREM ImplementsStream ==
    ASSUME WritesOnly
    PROVE  Spec => Stream!Init /\ [][Stream!Next]_(Stream!vars)
<1>1. Init => Stream!Init
  BY DEF Init, Stream!Init
<1>2. OutInv /\ OutInv' /\ [Next]_vars => [Stream!Next]_(Stream!vars)
  BY StreamStep
<1> QED  BY <1>1, <1>2, OutputConsistent, PTL DEF Spec

=============================================================================
