-------------------------- MODULE ApeEvents_proofs --------------------------
(***************************************************************************)
(* Proofs about ApeEvents with each of its back ends, for any number of    *)
(* sockets, resolver slots and descriptor numbers, any size of a batch and *)
(* of the hash table of select.                                            *)
(***************************************************************************)
EXTENDS ApeEvents, ApeHash_proofs, SequenceTheorems

-----------------------------------------------------------------------------
(* The inductive invariant.                                                *)

\* Who opened the number of a descriptor
Owner(e) == IF e \in Sockets THEN e ELSE Ares

KernType == [evd : Evds \cup {0}, want : SUBSET Both]
InfoType == [fd : Fds \cup {0}, evd : Evds \cup {0}, want : SUBSET Both]

\* The books of the kernel, and those of select: the table finds for a number
\* the fdinfo of that number, and each fdinfo that is not freed is found.
KernInv ==
    /\ kern \in [Fds -> KernType]
    /\ \A f \in Fds : kern[f].evd = 0 => kern[f] = Unwatched

TableFinds ==
    /\ info \in [Addrs -> InfoType]
    /\ \A f \in Nat : Seek(htbl, f) # 0 =>
         f \in Fds /\ Seek(htbl, f) \in Addrs /\ info[Seek(htbl, f)].fd = f
    /\ \A p \in Addrs : info[p] # NoInfo =>
         info[p].fd \in Fds /\ info[p].evd \in Evds /\ Seek(htbl, info[p].fd) = p

BooksInv == KernInv /\ TableInv(htbl) /\ TableFinds

\* Whom the back end names for a number, 0 for nobody
NamedBy(f) ==
    IF handler = "select" THEN IF Seek(htbl, f) = 0 THEN 0 ELSE info[Seek(htbl, f)].evd
    ELSE kern[f].evd

Names == [f \in Fds |-> NamedBy(f)]

KindsInv ==
    /\ handler \in {"epoll", "kqueue", "select"}
    /\ pc \in {"batch", "handler", "timers"}
    /\ fd \in [Evds -> Fds \cup {0}] /\ st \in [Evds -> SockStates \cup {"used"}]
    /\ opened \in [Fds -> Int] /\ BooksInv
    /\ \A s \in Sockets : st[s] # "used"
    /\ \A e \in SlotEvds : st[e] \in {"none", "used"} /\ (st[e] = "used" <=> fd[e] # 0)

\* A watched descriptor is open, and the back end names its holder; a socket
\* that was not added yet has its number to itself.
Held(e) ==
    /\ st[e] \in Watchable =>
         fd[e] \in Fds /\ opened[fd[e]] = Owner(e) /\ Names[fd[e]] = e
    /\ st[e] = "pending" =>
         fd[e] \in Fds /\ opened[fd[e]] = Owner(e) /\ Names[fd[e]] = 0

\* Whom the back end names for a number is watched under it.
Named(f) == Names[f] # 0 => st[Names[f]] \in Watchable /\ fd[Names[f]] = f

HoldInv == (\A e \in Evds : Held(e)) /\ \A f \in Fds : Named(f)

\* The entries still to be dispatched are of sockets that were not freed, for
\* which the timers have to run, and they do only behind the batch.  With
\* select they are addresses of fdinfos that were not freed either.
EntryGood(x) ==
    IF handler = "select" THEN x \in Addrs /\ info[x] # NoInfo
    ELSE x \in Sockets => st[x] \in Live \cup {"offline"}

BatchInv ==
    /\ batch \in Seq(Nat) /\ (pc = "timers" => batch = <<>>)
    /\ \A i \in DOMAIN batch : EntryGood(batch[i])

\* The array of events is as large as the size that poll is given says.
RoomFor(size) == IF handler = "kqueue" THEN 2 * size ELSE size

RoomInv ==
    /\ nfd \in Int /\ basemem \in Nat \ {0}
    /\ handler = "select" => basemem = FdSetSize
    /\ room = RoomFor(basemem) /\ Len(batch) <= room

EvInv == KindsInv /\ HoldInv /\ BatchInv /\ RoomInv

-----------------------------------------------------------------------------
(* Numbers.                                                                *)

\* A set of numbers below a bound has a greatest one, which Max is.
LEMMA MaxIs ==
    ASSUME NEW S \in SUBSET Nat, S # {}, NEW b \in Nat, \A y \in S : y <= b
    PROVE  Max(S) \in S /\ \A y \in S : Max(S) >= y
<1> DEFINE T == {b - y : y \in S}
<1>1. T \in SUBSET Nat /\ T # {}
  <2>1. \A y \in S : b - y \in Nat
    OBVIOUS
  <2> QED  BY <2>1
<1>2. Min(T) \in T /\ \A y \in T : Min(T) <= y
  BY <1>1, MinIs
<1>3. PICK x \in S : Min(T) = b - x
  BY <1>2
<1>4. ASSUME NEW y \in S  PROVE x >= y
  <2>1. b - y \in T /\ b - x <= b - y
    BY <1>2, <1>3
  <2> QED  BY <2>1
<1>5. \E z \in S : \A y \in S : z >= y
  BY <1>4
<1> QED  BY <1>5 DEF Max

\* The names of the descriptors.
LEMMA NamesAre ==
    /\ Socks \in Nat /\ Slots \in Nat /\ MaxFd \in Nat /\ Fds \subseteq Nat \ {0}
    /\ Evds \subseteq Nat \ {0} /\ Sockets \subseteq Evds /\ SlotEvds \subseteq Evds
    /\ Sockets \cap SlotEvds = {} /\ Socks + 1 \in SlotEvds
    /\ \A e \in Evds : e \in Sockets \/ e \in SlotEvds
    /\ Ares \in Int /\ Ares # 0 /\ Ares \notin Evds
<1>1. Socks \in Nat /\ Slots \in Nat /\ Slots >= 1 /\ MaxFd \in Nat
  BY EventsAssumption
<1> QED  BY <1>1 DEF Fds, Evds, Sockets, SlotEvds, Ares

\* The number the system hands out is a free one.
LEMMA LowestFree ==
    ASSUME KindsInv, FreeFds # {}
    PROVE  Min(FreeFds) \in Fds /\ opened[Min(FreeFds)] = 0
<1>1. FreeFds \in SUBSET Nat
  BY NamesAre DEF FreeFds
<1> QED  BY <1>1, MinIs DEF FreeFds

\* The slot found for a new descriptor of c-ares is a free one.
LEMMA SlotIsFree ==
    ASSUME \E e \in SlotEvds : fd[e] = 0
    PROVE  FreeSlot \in SlotEvds /\ fd[FreeSlot] = 0
<1> DEFINE free == {e \in SlotEvds : fd[e] = 0 /\ e # Socks + 1}
<1>1. free \in SUBSET Nat
  BY NamesAre
<1>2. CASE free = {}
  BY <1>2, NamesAre DEF FreeSlot
<1>3. CASE free # {}
  <2>1. Min(free) \in free
    BY <1>1, <1>3, MinIs
  <2> QED  BY <1>3, <2>1 DEF FreeSlot
<1> QED  BY <1>2, <1>3

-----------------------------------------------------------------------------
(* The books of the back ends.                                             *)

\* What select has for a number is no freed fdinfo.
LEMMA FoundInfo ==
    ASSUME BooksInv, NEW f \in Nat, Seek(htbl, f) # 0
    PROVE  /\ f \in Fds /\ Seek(htbl, f) \in Addrs /\ info[Seek(htbl, f)] # NoInfo
           /\ info[Seek(htbl, f)].fd = f /\ info[Seek(htbl, f)].evd \in Evds
<1>1. f \in Fds /\ Seek(htbl, f) \in Addrs /\ info[Seek(htbl, f)].fd = f
  BY DEF BooksInv, TableFinds
<1>2. f # 0 /\ NoInfo.fd = 0
  BY <1>1, NamesAre DEF NoInfo
<1>3. info[Seek(htbl, f)] # NoInfo
  BY <1>1, <1>2
<1> QED  BY <1>1, <1>3 DEF BooksInv, TableFinds

\* The back end names descriptors.
LEMMA NamesType ==
    ASSUME BooksInv
    PROVE  /\ Names \in [Fds -> Evds \cup {0}]
           /\ \A f \in Fds : Names[f] = NamedBy(f)
<1>1. ASSUME NEW f \in Fds  PROVE NamedBy(f) \in Evds \cup {0}
  <2>1. f \in Nat
    BY NamesAre
  <2>2. CASE handler = "select"
    BY <2>1, <2>2, FoundInfo DEF NamedBy
  <2>3. CASE handler # "select"
    BY <2>3 DEF NamedBy, BooksInv, KernInv, KernType
  <2> QED  BY <2>2, <2>3
<1> QED  BY <1>1 DEF Names

\* The numbers that are watched are those somebody is named for.
LEMMA WatchedIs ==
    ASSUME BooksInv
    PROVE  Watched = {f \in Fds : Names[f] # 0}
<1>0. \A f \in Fds : f \in Nat /\ Names[f] = NamedBy(f)
  BY NamesType, NamesAre
<1>1. CASE handler = "select"
  <2>1. \A f \in Fds : Seek(htbl, f) # 0 <=> NamedBy(f) # 0
    BY <1>0, <1>1, FoundInfo, NamesAre DEF NamedBy
  <2> QED  BY <1>0, <1>1, <2>1 DEF Watched
<1>2. CASE handler # "select"
  <2>1. \A f \in Fds : kern[f] # Unwatched <=> NamedBy(f) # 0
    BY <1>2 DEF NamedBy, BooksInv, KernInv, Unwatched
  <2> QED  BY <1>0, <1>2, <2>1 DEF Watched
<1> QED  BY <1>1, <1>2

\* Where the books stay, so do the names.
LEMMA BooksSame ==
    ASSUME BooksInv, UNCHANGED <<handler, kern, htbl, info>>
    PROVE  BooksInv' /\ Names' = Names
BY DEF BooksInv, KernInv, TableFinds, Names, NamedBy

\* Fewer numbers than addresses: where one of them has none yet, there is one
\* to be had.
LEMMA SpareAddr ==
    ASSUME NEW f \in Fds, NEW T \in SUBSET Addrs, NEW key \in [T -> Fds \ {f}],
           \A a, b \in T : key[a] = key[b] => a = b
    PROVE  T # Addrs
<1> SUFFICES ASSUME T = Addrs PROVE FALSE
  OBVIOUS
<1>0. MaxFd \in Nat /\ MaxItems \in Nat /\ MaxFd <= MaxItems
  BY EventsAssumption, HashAssumption
<1>1. IsFiniteSet(Addrs) /\ Cardinality(Addrs) = MaxItems
  BY <1>0, FS_Interval DEF Addrs
<1>2. IsFiniteSet(Fds) /\ Cardinality(Fds) = MaxFd
  BY <1>0, FS_Interval DEF Fds
<1> DEFINE D == Fds \ {f}
<1>3. IsFiniteSet(D) /\ Cardinality(D) = MaxFd - 1
  BY <1>2, FS_RemoveElement
<1>4. Cardinality(D) < Cardinality(Addrs)
  BY <1>0, <1>1, <1>3
<1> HIDE DEF D
<1>5. key \in [Addrs -> D]
  BY DEF D
<1> DEFINE A == Addrs
<1>6. IsFiniteSet(A) /\ Cardinality(D) < Cardinality(A) /\ key \in [A -> D]
  BY <1>1, <1>4, <1>5
<1> HIDE DEF A
<1>7. \E a, b \in A : a # b /\ key[a] = key[b]
  BY <1>3, <1>6, FS_PigeonHole
<1> QED  BY <1>7 DEF A

\* event_select_add of a number that is not there.
LEMMA SelectAddIs ==
    ASSUME BooksInv, NEW e \in Evds, NEW f \in Fds, NEW want \in SUBSET Both,
           Seek(htbl, f) = 0, SelectAdd(e, f, want)
    PROVE  /\ BooksInv' /\ Seek(htbl', f) # 0 /\ info'[Seek(htbl', f)].evd = e
           /\ \A g \in Nat : g # f => Seek(htbl', g) = Seek(htbl, g)
           /\ \A x \in Addrs : info[x] # NoInfo => info'[x] = info[x]
<1> DEFINE T == {q \in Addrs : info[q] # NoInfo}
           p == NewAddr(f, T)
           i == [fd |-> f, evd |-> e, want |-> want]
<1>0. /\ f \in Nat /\ f # 0 /\ e # 0 /\ TableInv(htbl) /\ TableFinds /\ info \in [Addrs -> InfoType]
  BY NamesAre DEF BooksInv, TableFinds
<1>1. Allocated(htbl) # Addrs
  <2> DEFINE key == [a \in Allocated(htbl) |-> htbl.item[a].key]
  <2>1. ASSUME NEW a \in Allocated(htbl)
        PROVE  htbl.item[a].key \in Fds \ {f}
    <3>1. htbl.item[a].key \in Nat /\ htbl.item[a].content # 0
      BY <1>0 DEF TableInv, Keyed
    <3>2. Seek(htbl, htbl.item[a].key) # 0
      BY <1>0, <3>1, FoundIs
    <3> QED  BY <1>0, <3>1, <3>2 DEF TableFinds
  <2>2. Allocated(htbl) \in SUBSET Addrs
    BY <1>0, AllocatedAre
  <2>3. key \in [Allocated(htbl) -> Fds \ {f}]
    BY <2>1
  <2>4. \A a, b \in Allocated(htbl) : key[a] = key[b] => a = b
    BY <1>0 DEF TableInv, Keyed
  <2> HIDE DEF key
  <2> QED  BY <2>2, <2>3, <2>4, SpareAddr
<1>2. T # Addrs
  <2> DEFINE key == [q \in T |-> info[q].fd]
  <2>1. \A q \in T : info[q].fd \in Fds /\ Seek(htbl, info[q].fd) = q /\ q # 0
    BY <1>0, AddrsAre DEF TableFinds
  <2>2. key \in [T -> Fds \ {f}]
    BY <2>1
  <2>3. \A a, b \in T : key[a] = key[b] => a = b
    BY <2>1
  <2> HIDE DEF key
  <2> QED  BY <2>2, <2>3, SpareAddr
<1>3. p \in Addrs /\ info[p] = NoInfo
  <2>1. Addrs \ T \in SUBSET Nat /\ Addrs \ T # {}
    BY <1>2, AddrsAre
  <2>2. p \in Addrs \ T
    <3> HIDE DEF T
    <3> QED  BY <2>1, MinIs DEF NewAddr
  <2> QED  BY <2>2
<1> DEFINE h == Append64(htbl, f, p)
<1>4. /\ htbl' = h.h /\ kern' = kern
      /\ info' = Freed([info EXCEPT ![p] = i], h.cleaned)
  BY DEF SelectAdd
<1> HIDE DEF p
<1>5. p \in Nat \ {0}
  BY <1>3, AddrsAre
<1>6. /\ TableInv(h.h) /\ h.cleaned = {}
      /\ \A k \in Nat : Seek(h.h, k) = IF k = f THEN p ELSE Seek(htbl, k)
  BY <1>0, <1>1, <1>5, AppendSound
<1> HIDE DEF h
<1>7. /\ i \in InfoType /\ i.fd = f /\ i.evd = e
  BY DEF InfoType
<1> HIDE DEF i
<1>8. /\ info' \in [Addrs -> InfoType] /\ info'[p] = i
      /\ \A x \in Addrs : x # p => info'[x] = info[x]
  <2>1. [info EXCEPT ![p] = i] \in [Addrs -> InfoType]
    BY <1>0, <1>7
  <2> DEFINE m == [info EXCEPT ![p] = i]
  <2>2. m \in [Addrs -> InfoType] /\ m[p] = i /\ \A x \in Addrs : x # p => m[x] = info[x]
    BY <1>0, <1>3, <1>7, <2>1
  <2> HIDE DEF m
  <2>3. info' = [x \in Addrs |-> m[x]]
    BY <1>4, <1>6 DEF Freed, m
  <2> QED  BY <1>3, <2>2, <2>3
<1>9. \A k \in Nat : Seek(htbl', k) = IF k = f THEN p ELSE Seek(htbl, k)
  BY <1>4, <1>6
<1>10. \A x \in Addrs : info[x] # NoInfo => x # p
  BY <1>3
<1>11. TableFinds'
  <2>1. ASSUME NEW k \in Nat, Seek(htbl', k) # 0
        PROVE  k \in Fds /\ Seek(htbl', k) \in Addrs /\ info'[Seek(htbl', k)].fd = k
    <3>1. CASE k = f
      BY <1>3, <1>7, <1>8, <1>9, <3>1
    <3>2. CASE k # f
      <4>1. Seek(htbl', k) = Seek(htbl, k) /\ Seek(htbl, k) # 0
        BY <1>9, <2>1, <3>2
      <4>2. k \in Fds /\ Seek(htbl, k) \in Addrs /\ info[Seek(htbl, k)].fd = k
            /\ info[Seek(htbl, k)] # NoInfo
        BY <4>1, FoundInfo
      <4> QED  BY <1>8, <1>10, <4>1, <4>2
    <3> QED  BY <3>1, <3>2
  <2>2. ASSUME NEW x \in Addrs, info'[x] # NoInfo
        PROVE  info'[x].fd \in Fds /\ info'[x].evd \in Evds /\ Seek(htbl', info'[x].fd) = x
    <3>1. CASE x = p
      BY <1>0, <1>7, <1>8, <1>9, <3>1
    <3>2. CASE x # p
      <4>1. info'[x] = info[x] /\ info[x].fd \in Fds /\ info[x].evd \in Evds
            /\ Seek(htbl, info[x].fd) = x /\ info[x].fd \in Nat
        BY <1>0, <1>8, <2>2, <3>2, NamesAre DEF TableFinds
      <4>2. info[x].fd # f
        BY <4>1, AddrsAre
      <4> QED  BY <1>9, <4>1, <4>2
    <3> QED  BY <3>1, <3>2
  <2> QED  BY <1>8, <2>1, <2>2 DEF TableFinds
<1>12. BooksInv'
  BY <1>4, <1>6, <1>11 DEF BooksInv, KernInv
<1>13. Seek(htbl', f) = p /\ p # 0 /\ info'[p].evd = e
  BY <1>0, <1>5, <1>7, <1>8, <1>9
<1> QED  BY <1>8, <1>9, <1>10, <1>12, <1>13

\* event_select_del, of a number that is there or not.
LEMMA SelectDelIs ==
    ASSUME BooksInv, NEW f \in Fds, SelectDel(f), KernInv'
    PROVE  /\ BooksInv' /\ Seek(htbl', f) = 0
           /\ \A g \in Nat : g # f => Seek(htbl', g) = Seek(htbl, g)
           /\ \A x \in Addrs : info[x] # NoInfo /\ info[x].fd # f => info'[x] = info[x]
<1> DEFINE h == Erase64(htbl, f)
           p == Seek(htbl, f)
<1>0. f \in Nat /\ TableInv(htbl) /\ TableFinds /\ info \in [Addrs -> InfoType]
  BY NamesAre DEF BooksInv, TableFinds
<1>1. /\ htbl' = h.h /\ info' = Freed(info, h.cleaned)
  BY DEF SelectDel
<1>2. /\ TableInv(h.h) /\ h.cleaned = (IF p = 0 THEN {} ELSE {p})
      /\ \A k \in Nat : Seek(h.h, k) = IF k = f THEN 0 ELSE Seek(htbl, k)
  BY <1>0, EraseSound
<1> HIDE DEF h
<1>3. NoInfo \in InfoType /\ NoInfo.fd = 0
  BY DEF NoInfo, InfoType
<1>4. /\ info' \in [Addrs -> InfoType]
      /\ \A x \in Addrs : info'[x] = IF x = p THEN NoInfo ELSE info[x]
  <2>1. info' = [x \in Addrs |-> IF x \in h.cleaned THEN NoInfo ELSE info[x]]
    BY <1>1 DEF Freed
  <2>2. \A x \in Addrs : x \in h.cleaned <=> x = p
    BY <1>2, AddrsAre
  <2> HIDE DEF p
  <2> QED  BY <1>0, <1>3, <2>1, <2>2
<1>5. \A k \in Nat : Seek(htbl', k) = IF k = f THEN 0 ELSE Seek(htbl, k)
  BY <1>1, <1>2
<1>6. \A x \in Addrs : info[x] # NoInfo /\ x = p => info[x].fd = f
  BY <1>0, AddrsAre, FoundInfo
<1>7. TableFinds'
  <2>1. ASSUME NEW k \in Nat, Seek(htbl', k) # 0
        PROVE  k \in Fds /\ Seek(htbl', k) \in Addrs /\ info'[Seek(htbl', k)].fd = k
    <3>1. k # f /\ Seek(htbl', k) = Seek(htbl, k) /\ Seek(htbl, k) # 0
      BY <1>5, <2>1
    <3>2. k \in Fds /\ Seek(htbl, k) \in Addrs /\ info[Seek(htbl, k)].fd = k
          /\ info[Seek(htbl, k)] # NoInfo
      BY <3>1, FoundInfo
    <3>3. Seek(htbl, k) # p
      BY <1>6, <3>1, <3>2
    <3> QED  BY <1>4, <3>1, <3>2, <3>3
  <2>2. ASSUME NEW x \in Addrs, info'[x] # NoInfo
        PROVE  info'[x].fd \in Fds /\ info'[x].evd \in Evds /\ Seek(htbl', info'[x].fd) = x
    <3>1. info'[x] = info[x] /\ x # p
      BY <1>4, <2>2
    <3>2. info[x].fd \in Fds /\ info[x].evd \in Evds /\ Seek(htbl, info[x].fd) = x
          /\ info[x].fd \in Nat
      BY <1>0, <2>2, <3>1, NamesAre DEF TableFinds
    <3>3. info[x].fd # f
      BY <3>1, <3>2
    <3> QED  BY <1>5, <3>1, <3>2, <3>3
  <2> QED  BY <1>4, <2>1, <2>2 DEF TableFinds
<1>8. BooksInv'
  BY <1>1, <1>2, <1>7 DEF BooksInv
<1> QED  BY <1>0, <1>4, <1>5, <1>6, <1>8

-----------------------------------------------------------------------------
(* Who holds which number.                                                 *)

\* Only descriptor e and number f may change hands.
Others(e, f) ==
    /\ \A d \in Evds : d # e => st'[d] = st[d] /\ fd'[d] = fd[d]
    /\ \A g \in Fds : g # f => opened'[g] = opened[g] /\ Names'[g] = Names[g]

\* Nobody but e has a claim to f.
Alone(e, f) ==
    /\ \A d \in Evds : d # e /\ st[d] \in Watchable \cup {"pending"} => fd[d] # f
    /\ Names[f] \in {0, e}

\* A number that is free, or that is the one of e, is nobody else's.
LEMMA Unclaimed ==
    ASSUME KindsInv, HoldInv, NEW e \in Evds, NEW f \in Fds,
           opened[f] = 0 \/ (st[e] \in Watchable \cup {"pending"} /\ fd[e] = f)
    PROVE  Alone(e, f)
<1>1. Names[f] \in Evds \cup {0}
  BY NamesType DEF KindsInv
<1>2. \A d \in Evds : Owner(d) # 0
  BY NamesAre DEF Owner
<1>3. \A d \in Evds : st[d] \in Watchable \cup {"pending"} => opened[fd[d]] = Owner(d)
  BY DEF HoldInv, Held
<1>4. Names[f] # 0 => st[Names[f]] \in Watchable /\ fd[Names[f]] = f
  BY DEF HoldInv, Named
<1>5. CASE opened[f] = 0
  BY <1>1, <1>2, <1>3, <1>4, <1>5 DEF Alone
<1>6. CASE st[e] \in Watchable \cup {"pending"} /\ fd[e] = f
  <2>1. Names[f] \in {0, e}
    BY <1>6 DEF HoldInv, Held
  <2>2. ASSUME NEW d \in Evds, d # e, st[d] \in Watchable \cup {"pending"}, fd[d] = f
        PROVE  FALSE
    <3>1. Owner(d) = Owner(e)
      BY <1>3, <1>6, <2>2
    <3>2. d \in SlotEvds /\ e \in SlotEvds
      BY <2>2, <3>1, NamesAre DEF Owner
    <3>3. st[d] = "used" /\ st[e] = "used"
      BY <1>6, <2>2, <3>2 DEF KindsInv, Watchable, Live
    <3>4. Names[f] = d /\ Names[f] = e
      BY <1>6, <2>2, <3>3 DEF HoldInv, Held, Watchable
    <3> QED  BY <2>2, <3>4
  <2> QED  BY <2>1, <2>2 DEF Alone
<1> QED  BY <1>5, <1>6

\* e is watched under f from now on (events_add).
LEMMA Gains ==
    ASSUME KindsInv, HoldInv, NEW e \in Evds, NEW f \in Fds, Alone(e, f), Others(e, f),
           st'[e] \in Watchable, fd'[e] = f, opened'[f] = Owner(e), Names'[f] = e,
           st[e] \notin Watchable \/ fd[e] = f
    PROVE  HoldInv'
<1>0. e # 0 /\ "pending" \notin Watchable
  BY NamesAre DEF Watchable, Live
<1>1. ASSUME NEW d \in Evds  PROVE Held(d)'
  <2>1. CASE d = e
    BY <1>0, <2>1 DEF Held, Owner
  <2>2. CASE d # e
    <3>1. st'[d] = st[d] /\ fd'[d] = fd[d]
      BY <2>2 DEF Others
    <3>2. Held(d) /\ (st[d] \in Watchable \cup {"pending"} => fd[d] # f)
      BY <2>2 DEF HoldInv, Alone
    <3>3. fd[d] \in Fds /\ fd[d] # f => opened'[fd[d]] = opened[fd[d]] /\ Names'[fd[d]] = Names[fd[d]]
      BY DEF Others
    <3> QED  BY <3>1, <3>2, <3>3 DEF Held, Owner
  <2> QED  BY <2>1, <2>2
<1>2. ASSUME NEW g \in Fds  PROVE Named(g)'
  <2>1. CASE g = f
    BY <1>0, <2>1 DEF Named
  <2>2. CASE g # f
    <3>1. Names'[g] = Names[g] /\ Named(g)
      BY <2>2 DEF Others, HoldInv
    <3>2. Names[g] # 0 => Names[g] # e
      BY <2>2, <3>1 DEF Named
    <3>3. Names[g] # 0 => /\ Names[g] \in Evds
                             /\ st'[Names[g]] = st[Names[g]] /\ fd'[Names[g]] = fd[Names[g]]
      BY <3>2, NamesType DEF Others, KindsInv
    <3> QED  BY <3>1, <3>3 DEF Named
  <2> QED  BY <2>1, <2>2
<1> QED  BY <1>1, <1>2 DEF HoldInv

\* e has no number any more, or one that is not watched (close, socket).
LEMMA Loses ==
    ASSUME KindsInv, HoldInv, NEW e \in Evds, NEW f \in Fds, Alone(e, f), Others(e, f),
           st'[e] \notin Watchable, Names'[f] = 0,
           st'[e] = "pending" => fd'[e] = f /\ opened'[f] = Owner(e),
           st[e] \notin Watchable \/ fd[e] = f
    PROVE  HoldInv'
<1>1. ASSUME NEW d \in Evds  PROVE Held(d)'
  <2>1. CASE d = e
    BY <2>1 DEF Held, Owner
  <2>2. CASE d # e
    <3>1. st'[d] = st[d] /\ fd'[d] = fd[d]
      BY <2>2 DEF Others
    <3>2. Held(d) /\ (st[d] \in Watchable \cup {"pending"} => fd[d] # f)
      BY <2>2 DEF HoldInv, Alone
    <3>3. fd[d] \in Fds /\ fd[d] # f => opened'[fd[d]] = opened[fd[d]] /\ Names'[fd[d]] = Names[fd[d]]
      BY DEF Others
    <3> QED  BY <3>1, <3>2, <3>3 DEF Held, Owner
  <2> QED  BY <2>1, <2>2
<1>2. ASSUME NEW g \in Fds  PROVE Named(g)'
  <2>1. CASE g = f
    BY <2>1 DEF Named
  <2>2. CASE g # f
    <3>1. Names'[g] = Names[g] /\ Named(g)
      BY <2>2 DEF Others, HoldInv
    <3>2. Names[g] # 0 => Names[g] # e
      BY <2>2, <3>1 DEF Named
    <3>3. Names[g] # 0 => /\ Names[g] \in Evds
                             /\ st'[Names[g]] = st[Names[g]] /\ fd'[Names[g]] = fd[Names[g]]
      BY <3>2, NamesType DEF Others, KindsInv
    <3> QED  BY <3>1, <3>3 DEF Named
  <2> QED  BY <2>1, <2>2
<1> QED  BY <1>1, <1>2 DEF HoldInv

-----------------------------------------------------------------------------
(* The layer of ape_events.c.                                              *)

\* The array of events never gets smaller while entries are left in it.
LEMMA RoomKept ==
    ASSUME RoomInv, BatchInv, KindsInv, batch' = batch, handler' = handler, nfd' \in Int,
           (basemem' = basemem /\ room' = room) \/ SetSize(2 * basemem)
    PROVE  RoomInv'
<1>1. Len(batch) \in Nat
  BY LenProperties DEF BatchInv
<1>2. /\ basemem \in Nat \ {0} /\ room = RoomFor(basemem) /\ Len(batch) <= room
      /\ handler = "select" => basemem = FdSetSize
  BY DEF RoomInv
<1> DEFINE l == Len(batch)
<1> HIDE DEF l
<1>3. l \in Nat /\ l <= room
  BY <1>1, <1>2 DEF l
<1>4. l <= room' /\ basemem' \in Nat \ {0} /\ room' = RoomFor(basemem)'
      /\ (handler = "select" => basemem' = FdSetSize)
  <2>1. CASE basemem' = basemem /\ room' = room
    BY <1>2, <1>3, <2>1 DEF RoomFor
  <2>2. CASE handler = "epoll" /\ EpollSetSize(2 * basemem)
    BY <1>2, <1>3, <2>2 DEF EpollSetSize, RoomFor
  <2>3. CASE handler = "kqueue" /\ KqueueSetSize(2 * basemem)
    BY <1>2, <1>3, <2>3 DEF KqueueSetSize, RoomFor
  <2>4. CASE handler = "select" /\ SelectSetSize
    BY <1>2, <1>3, <2>4 DEF SelectSetSize, RoomFor
  <2> QED  BY <2>1, <2>2, <2>3, <2>4 DEF SetSize
<1>5. Len(batch') <= room'
  BY <1>4 DEF l
<1> QED  BY <1>4, <1>5 DEF RoomInv, RoomFor

\* With select, no entry still to come is of a fdinfo that is freed.
EntriesKept ==
    handler = "select" =>
        \A i \in DOMAIN batch : EntryGood(batch[i]) => info'[batch[i]] # NoInfo

\* Where nothing changes but in the books of the kernel, these tell.
LEMMA KernelNames ==
    ASSUME BooksInv, handler # "select", handler' = handler, KernInv', UNCHANGED <<htbl, info>>
    PROVE  BooksInv' /\ EntriesKept /\ \A g \in Fds : Names'[g] = kern'[g].evd
<1>1. BooksInv' /\ EntriesKept
  BY DEF BooksInv, TableFinds, EntriesKept
<1>2. \A g \in Fds : Names'[g] = kern'[g].evd
  BY DEF Names, NamedBy
<1> QED  BY <1>1, <1>2

\* One entry of the kernel that is written.
LEMMA KernWritten ==
    ASSUME KernInv, NEW f \in Fds, NEW k \in KernType, k.evd = 0 => k = Unwatched,
           kern' = [kern EXCEPT ![f] = k]
    PROVE  KernInv' /\ kern'[f] = k /\ \A g \in Fds : g # f => kern'[g] = kern[g]
BY DEF KernInv

\* What events_add does to the books and to the array.
LEMMA AddIs ==
    ASSUME KindsInv, RoomInv, BatchInv, NEW e \in Evds, NEW f \in Fds, NEW want \in SUBSET Both,
           Names[f] = 0, EventsAdd(e, f, want), batch' = batch, handler' = handler
    PROVE  /\ BooksInv' /\ Names'[f] = e
           /\ \A g \in Fds : g # f => Names'[g] = Names[g]
           /\ EntriesKept /\ RoomInv'
<1>0. BooksInv /\ KernInv /\ e # 0 /\ \A g \in Fds : g \in Nat /\ Names[g] = NamedBy(g)
  BY NamesType, NamesAre DEF KindsInv, BooksInv
<1>1. RoomInv'
  <2>1. nfd' = nfd + 1 /\ nfd' \in Int
    BY DEF EventsAdd, RoomInv
  <2>2. (basemem' = basemem /\ room' = room) \/ SetSize(2 * basemem)
    BY DEF EventsAdd
  <2> QED  BY <2>1, <2>2, RoomKept
<1>2. CASE handler # "select"
  <2>1. PICK w \in SUBSET Both :
          kern' = [kern EXCEPT ![f] = [evd |-> e, want |-> w]] /\ UNCHANGED <<htbl, info>>
    <3>1. (kern[f].want \cup want) \cap want \in SUBSET Both
      OBVIOUS
    <3> QED  BY <1>2, <3>1 DEF EventsAdd, EpollAdd, KqueueAdd
  <2> DEFINE k == [evd |-> e, want |-> w]
  <2>2. k \in KernType /\ k.evd = e
    BY DEF KernType
  <2> HIDE DEF k
  <2>3. KernInv' /\ kern'[f] = k /\ \A g \in Fds : g # f => kern'[g] = kern[g]
    BY <1>0, <2>1, <2>2, KernWritten DEF k
  <2>4. BooksInv' /\ EntriesKept /\ \A g \in Fds : Names'[g] = kern'[g].evd
    BY <1>0, <1>2, <2>1, <2>3, KernelNames
  <2>5. \A g \in Fds : Names[g] = kern[g].evd
    BY <1>0, <1>2 DEF NamedBy
  <2> QED  BY <1>1, <2>2, <2>3, <2>4, <2>5
<1>3. CASE handler = "select"
  <2>1. Seek(htbl, f) = 0
    BY <1>0, <1>3, FoundInfo, NamesAre DEF NamedBy
  <2>2. SelectAdd(e, f, want)
    BY <1>3 DEF EventsAdd
  <2>3. /\ BooksInv' /\ Seek(htbl', f) # 0 /\ info'[Seek(htbl', f)].evd = e
        /\ \A g \in Nat : g # f => Seek(htbl', g) = Seek(htbl, g)
        /\ \A x \in Addrs : info[x] # NoInfo => info'[x] = info[x]
    BY <1>0, <2>1, <2>2, SelectAddIs
  <2>4. EntriesKept
    BY <1>3, <2>3 DEF EntriesKept, EntryGood
  <2>5. \A g \in Fds : Names'[g] = IF Seek(htbl', g) = 0 THEN 0 ELSE info'[Seek(htbl', g)].evd
    BY <1>3 DEF Names, NamedBy
  <2>6. ASSUME NEW g \in Fds, g # f  PROVE Names'[g] = Names[g]
    <3>1. Names[g] = IF Seek(htbl, g) = 0 THEN 0 ELSE info[Seek(htbl, g)].evd
      BY <1>0, <1>3 DEF NamedBy
    <3>2. Seek(htbl', g) = Seek(htbl, g)
      BY <1>0, <2>3, <2>6
    <3>3. Seek(htbl, g) # 0 => Seek(htbl, g) \in Addrs /\ info[Seek(htbl, g)] # NoInfo
      BY <1>0, FoundInfo
    <3> QED  BY <2>3, <2>5, <3>1, <3>2, <3>3
  <2> QED  BY <1>1, <2>3, <2>4, <2>5, <2>6
<1> QED  BY <1>2, <1>3

\* What events_mod does: it changes the directions and not the holder.
LEMMA ModIs ==
    ASSUME KindsInv, NEW e \in Evds, fd[e] \in Fds, Names[fd[e]] = e, NEW want \in SUBSET Both,
           EventsMod(e, want), handler' = handler
    PROVE  BooksInv' /\ EntriesKept /\ \A g \in Fds : Names'[g] = Names[g]
<1>0. BooksInv /\ KernInv /\ e # 0 /\ \A g \in Fds : g \in Nat /\ Names[g] = NamedBy(g)
  BY NamesType, NamesAre DEF KindsInv, BooksInv
<1> DEFINE f == fd[e]
<1>1. CASE handler # "select"
  <2>1. PICK w \in SUBSET Both :
          kern' = [kern EXCEPT ![f] = [evd |-> e, want |-> w]] /\ UNCHANGED <<htbl, info>>
    <3>1. (kern[f].want \cup want) \cap want \in SUBSET Both
      OBVIOUS
    <3> QED  BY <1>1, <3>1 DEF EventsMod, EpollMod, KqueueMod, EpollAdd, KqueueAdd
  <2> DEFINE k == [evd |-> e, want |-> w]
  <2>2. k \in KernType /\ k.evd = e
    BY DEF KernType
  <2> HIDE DEF k
  <2>3. KernInv' /\ kern'[f] = k /\ \A g \in Fds : g # f => kern'[g] = kern[g]
    BY <1>0, <2>1, <2>2, KernWritten DEF k
  <2>4. BooksInv' /\ EntriesKept /\ \A g \in Fds : Names'[g] = kern'[g].evd
    BY <1>0, <1>1, <2>1, <2>3, KernelNames
  <2>5. \A g \in Fds : Names[g] = kern[g].evd
    BY <1>0, <1>1 DEF NamedBy
  <2> QED  BY <2>2, <2>3, <2>4, <2>5
<1>2. CASE handler = "select"
  <2> DEFINE p == Seek(htbl, f)
             m == [info EXCEPT ![p].want = want]
  <2>1. /\ f \in Nat /\ p # 0
    BY <1>0, <1>2, NamesAre DEF NamedBy
  <2>2. p \in Addrs /\ info[p] # NoInfo
    BY <1>0, <2>1, FoundInfo
  <2>3. info' = m /\ UNCHANGED <<kern, htbl>>
    BY <1>2, <2>1 DEF EventsMod, SelectMod
  <2> DEFINE i == [info[p] EXCEPT !.want = want]
  <2>4. info \in [Addrs -> InfoType] /\ info[p] \in InfoType /\ TableFinds
    BY <1>0, <2>2 DEF BooksInv, TableFinds
  <2>5. i \in InfoType /\ i.fd = info[p].fd /\ i.evd = info[p].evd
    BY <2>4 DEF InfoType
  <2>6. m = [info EXCEPT ![p] = i]
    OBVIOUS
  <2> HIDE DEF i, p, m
  <2>7. /\ info' \in [Addrs -> InfoType]
        /\ \A x \in Addrs : info'[x].fd = info[x].fd /\ info'[x].evd = info[x].evd
                            /\ (info'[x] # info[x] => x = p)
    BY <2>2, <2>3, <2>4, <2>5, <2>6
  <2>8. \A x \in Addrs : info[x] # NoInfo <=> info'[x] # NoInfo
    <3>1. \A x \in Addrs : info[x] # NoInfo => info[x].fd # 0
      BY <2>4, NamesAre DEF TableFinds
    <3>2. NoInfo.fd = 0
      BY DEF NoInfo
    <3> QED  BY <2>2, <2>7, <3>1, <3>2
  <2>9. TableFinds'
    BY <2>3, <2>4, <2>7, <2>8 DEF TableFinds
  <2>10. BooksInv'
    BY <1>0, <2>3, <2>9 DEF BooksInv, KernInv
  <2>11. EntriesKept
    BY <1>2, <2>8 DEF EntriesKept, EntryGood
  <2>12. ASSUME NEW g \in Fds  PROVE Names'[g] = Names[g]
    <3>1. Names'[g] = IF Seek(htbl, g) = 0 THEN 0 ELSE info'[Seek(htbl, g)].evd
      BY <1>2, <2>3 DEF Names, NamedBy
    <3>2. Names[g] = IF Seek(htbl, g) = 0 THEN 0 ELSE info[Seek(htbl, g)].evd
      BY <1>0, <1>2 DEF NamedBy
    <3>3. Seek(htbl, g) # 0 => Seek(htbl, g) \in Addrs
      BY <1>0, FoundInfo
    <3> QED  BY <2>7, <3>1, <3>2, <3>3
  <2> QED  BY <2>10, <2>11, <2>12
<1> QED  BY <1>1, <1>2

\* What close() does to the books of the kernel: the number is forgotten.
LEMMA CloseIs ==
    ASSUME KernInv, NEW f \in Fds, CloseFd(f)
    PROVE  /\ KernInv' /\ kern'[f].evd = 0
           /\ \A g \in Fds : g # f => kern'[g] = kern[g]
<1>1. Unwatched \in KernType /\ Unwatched.evd = 0
  BY DEF Unwatched, KernType
<1> QED  BY <1>1, KernWritten DEF CloseFd

\* What close() does where nobody is named for the number.
LEMMA CloseOnlyIs ==
    ASSUME KindsInv, NEW f \in Fds, Names[f] = 0, CloseFd(f),
           UNCHANGED <<handler, htbl, info>>
    PROVE  BooksInv' /\ EntriesKept /\ \A g \in Fds : Names'[g] = Names[g]
<1>0. BooksInv /\ KernInv /\ \A g \in Fds : Names[g] = NamedBy(g)
  BY NamesType DEF KindsInv, BooksInv
<1>1. /\ KernInv' /\ kern'[f].evd = 0
      /\ \A g \in Fds : g # f => kern'[g] = kern[g]
  BY <1>0, CloseIs
<1>2. BooksInv' /\ EntriesKept
  BY <1>0, <1>1 DEF BooksInv, TableFinds, EntriesKept, EntryGood
<1>3. ASSUME NEW g \in Fds  PROVE Names'[g] = Names[g]
  <2>1. CASE handler = "select"
    BY <1>0, <2>1 DEF Names, NamedBy
  <2>2. CASE handler # "select"
    <3>1. Names'[g] = kern'[g].evd /\ Names[g] = kern[g].evd /\ Names[f] = kern[f].evd
      BY <1>0, <2>2 DEF Names, NamedBy
    <3> QED  BY <1>1, <3>1
  <2> QED  BY <2>1, <2>2
<1> QED  BY <1>2, <1>3

\* What events_del and close() do to the number of a descriptor.  With select
\* the application may close what no entry still to come points at.
LEMMA DelIs ==
    ASSUME KindsInv, NEW e \in Evds, NEW f \in Fds, Names[f] \in {0, e},
           CloseFd(f), EventsDel(f), handler' = handler
    PROVE  /\ BooksInv' /\ Names'[f] = 0
           /\ \A g \in Fds : g # f => Names'[g] = Names[g]
           /\ MayClose(e) => EntriesKept
<1>0. BooksInv /\ KernInv /\ \A g \in Fds : g \in Nat /\ Names[g] = NamedBy(g)
  BY NamesType, NamesAre DEF KindsInv, BooksInv
<1>1. /\ KernInv' /\ kern'[f].evd = 0
      /\ \A g \in Fds : g # f => kern'[g] = kern[g]
  BY <1>0, CloseIs
<1>2. CASE handler # "select"
  <2>1. UNCHANGED <<htbl, info>>
    BY <1>2 DEF EventsDel
  <2>2. BooksInv' /\ EntriesKept /\ \A g \in Fds : Names'[g] = kern'[g].evd
    BY <1>0, <1>1, <1>2, <2>1, KernelNames
  <2>3. \A g \in Fds : Names[g] = kern[g].evd
    BY <1>0, <1>2 DEF NamedBy
  <2> QED  BY <1>1, <2>2, <2>3
<1>3. CASE handler = "select"
  <2>1. SelectDel(f)
    BY <1>3 DEF EventsDel
  <2>2. /\ BooksInv' /\ Seek(htbl', f) = 0
        /\ \A g \in Nat : g # f => Seek(htbl', g) = Seek(htbl, g)
        /\ \A x \in Addrs : info[x] # NoInfo /\ info[x].fd # f => info'[x] = info[x]
    BY <1>0, <1>1, <2>1, SelectDelIs
  <2>3. \A g \in Fds : Names'[g] = IF Seek(htbl', g) = 0 THEN 0 ELSE info'[Seek(htbl', g)].evd
    BY <1>3 DEF Names, NamedBy
  <2>4. \A g \in Fds : Names[g] = IF Seek(htbl, g) = 0 THEN 0 ELSE info[Seek(htbl, g)].evd
    BY <1>0, <1>3 DEF NamedBy
  <2>5. ASSUME NEW g \in Fds, g # f  PROVE Names'[g] = Names[g]
    <3>1. Seek(htbl', g) = Seek(htbl, g)
      BY <1>0, <2>2, <2>5
    <3>2. Seek(htbl, g) # 0 => /\ Seek(htbl, g) \in Addrs /\ info[Seek(htbl, g)] # NoInfo
                               /\ info[Seek(htbl, g)].fd = g
      BY <1>0, FoundInfo
    <3> QED  BY <2>2, <2>3, <2>4, <2>5, <3>1, <3>2
  <2>6. ASSUME MayClose(e)  PROVE EntriesKept
    <3>1. SUFFICES ASSUME NEW i \in DOMAIN batch, EntryGood(batch[i])
                   PROVE  info'[batch[i]] # NoInfo
      BY DEF EntriesKept
    <3> DEFINE x == batch[i]
    <3>2. x \in Addrs /\ info[x] # NoInfo /\ info[x].evd # e
      BY <1>3, <2>6, <3>1 DEF EntryGood, MayClose
    <3>3. /\ info[x].fd \in Fds /\ info[x].evd \in Evds /\ Seek(htbl, info[x].fd) = x
      BY <1>0, <3>2 DEF BooksInv, TableFinds
    <3> HIDE DEF x
    <3>4. info[x].fd # f
      BY <2>4, <3>2, <3>3, AddrsAre, NamesAre
    <3> QED  BY <2>2, <3>2, <3>4 DEF x
  <2> QED  BY <2>2, <2>3, <2>5, <2>6
<1> QED  BY <1>2, <1>3

-----------------------------------------------------------------------------
(* The parts of the invariant, for one descriptor that moves.              *)

\* Descriptor e comes to state s with number n, and f is opened by o.
Moves(e, f, s, n, o) ==
    /\ st' = [st EXCEPT ![e] = s] /\ fd' = [fd EXCEPT ![e] = n]
    /\ opened' = [opened EXCEPT ![f] = o]
    /\ \A g \in Fds : g # f => Names'[g] = Names[g]

\* The types, and who is left alone, when one descriptor moves.
LEMMA Moved ==
    ASSUME KindsInv, NEW e \in Evds, NEW f \in Fds, NEW s \in SockStates \cup {"used"},
           NEW n \in Fds \cup {0}, NEW o \in Int, Moves(e, f, s, n, o),
           BooksInv', handler' = handler, pc' = pc,
           e \in Sockets => s # "used",
           e \in SlotEvds => s \in {"none", "used"} /\ (s = "used" <=> n # 0)
    PROVE  /\ KindsInv' /\ Others(e, f)
           /\ st'[e] = s /\ fd'[e] = n /\ opened'[f] = o
<1>1. /\ st' \in [Evds -> SockStates \cup {"used"}] /\ st'[e] = s
      /\ \A d \in Evds : d # e => st'[d] = st[d]
  BY DEF KindsInv, Moves
<1>2. /\ fd' \in [Evds -> Fds \cup {0}] /\ fd'[e] = n
      /\ \A d \in Evds : d # e => fd'[d] = fd[d]
  BY DEF KindsInv, Moves
<1>3. /\ opened' \in [Fds -> Int] /\ opened'[f] = o
      /\ \A g \in Fds : g # f => opened'[g] = opened[g]
  BY DEF KindsInv, Moves
<1>4. Others(e, f)
  BY <1>1, <1>2, <1>3 DEF Others, Moves
<1>5. \A d \in Sockets : st'[d] # "used"
  BY <1>1, NamesAre DEF KindsInv
<1>6. \A d \in SlotEvds : st'[d] \in {"none", "used"} /\ (st'[d] = "used" <=> fd'[d] # 0)
  <2> SUFFICES ASSUME NEW d \in SlotEvds
               PROVE  st'[d] \in {"none", "used"} /\ (st'[d] = "used" <=> fd'[d] # 0)
    OBVIOUS
  <2>1. CASE d = e
    BY <1>1, <1>2, <2>1
  <2>2. CASE d # e
    BY <1>1, <1>2, <2>2, NamesAre DEF KindsInv
  <2> QED  BY <2>1, <2>2
<1>7. KindsInv'
  BY <1>1, <1>2, <1>3, <1>5, <1>6 DEF KindsInv
<1> QED  BY <1>1, <1>2, <1>3, <1>4, <1>7

\* A batch stays valid when no socket of it is freed; the timers free them.
LEMMA BatchKept ==
    ASSUME BatchInv, batch' = batch, pc' = pc, handler' = handler, pc = "timers" \/ EntriesKept,
           \A s \in Sockets : st[s] \in Live \cup {"offline"} =>
                                pc = "timers" \/ st'[s] \in Live \cup {"offline"}
    PROVE  BatchInv'
<1>1. CASE pc = "timers"
  BY <1>1 DEF BatchInv
<1>2. CASE pc # "timers"
  <2>1. ASSUME NEW i \in DOMAIN batch  PROVE EntryGood(batch[i])'
    <3>1. EntryGood(batch[i]) /\ batch'[i] = batch[i]
      BY <2>1 DEF BatchInv
    <3> QED  BY <1>2, <2>1, <3>1 DEF EntryGood, EntriesKept
  <2> QED  BY <1>2, <2>1 DEF BatchInv
<1> QED  BY <1>1, <1>2

\* A descriptor that is watched from now on, or still.
LEMMA GainStep ==
    ASSUME EvInv, NEW e \in Evds, NEW f \in Fds, NEW s \in Watchable, Alone(e, f),
           e \in Sockets => s \in Live, e \in SlotEvds => s = "used",
           Moves(e, f, s, f, Owner(e)), BooksInv', Names'[f] = e, EntriesKept,
           st[e] \notin Watchable \/ fd[e] = f,
           handler' = handler, batch' = batch, pc' = pc
    PROVE  KindsInv' /\ HoldInv' /\ BatchInv'
<1>1. s \in SockStates \cup {"used"} /\ (s \in Live => s # "used")
  BY DEF Watchable, Live, SockStates
<1>2. Owner(e) \in Int /\ f # 0
  BY NamesAre DEF Owner
<1>3. /\ KindsInv' /\ Others(e, f)
      /\ st'[e] = s /\ fd'[e] = f /\ opened'[f] = Owner(e)
  BY <1>1, <1>2, Moved DEF EvInv
<1>4. HoldInv'
  BY <1>3, Gains DEF EvInv
<1>5. \A d \in Sockets : st[d] \in Live \cup {"offline"} => st'[d] \in Live \cup {"offline"}
  BY <1>3, NamesAre DEF Others
<1>6. BatchInv'
  BY <1>5, BatchKept DEF EvInv
<1> QED  BY <1>3, <1>4, <1>6

\* A descriptor that is not watched, or not any more.
LEMMA LoseStep ==
    ASSUME EvInv, NEW e \in Evds, NEW f \in Fds, NEW s \in SockStates, NEW n \in Fds \cup {0},
           NEW o \in Int, Alone(e, f), s \notin Watchable,
           e \in SlotEvds => s = "none" /\ n = 0,
           s = "pending" => n = f /\ o = Owner(e),
           Moves(e, f, s, n, o), BooksInv', Names'[f] = 0, pc = "timers" \/ EntriesKept,
           st[e] \notin Watchable \/ fd[e] = f,
           e \in Sockets /\ st[e] \in Live \cup {"offline"} => pc = "timers" \/ s = "offline",
           handler' = handler, batch' = batch, pc' = pc
    PROVE  KindsInv' /\ HoldInv' /\ BatchInv'
<1>1. s # "used"
  BY DEF Watchable
<1>2. /\ KindsInv' /\ Others(e, f)
      /\ st'[e] = s /\ fd'[e] = n /\ opened'[f] = o
  BY <1>1, Moved DEF EvInv
<1>3. HoldInv'
  BY <1>2, Loses DEF EvInv
<1>4. \A d \in Sockets : st[d] \in Live \cup {"offline"} =>
                           pc = "timers" \/ st'[d] \in Live \cup {"offline"}
  BY <1>2, NamesAre DEF Others
<1>5. BatchInv'
  BY <1>4, BatchKept DEF EvInv
<1> QED  BY <1>2, <1>3, <1>5

\* Nobody is named for the number of who is not watched.
LEMMA NobodyNamed ==
    ASSUME HoldInv, NEW e \in Evds, NEW f \in Fds, Alone(e, f), st[e] \notin Watchable
    PROVE  Names[f] = 0
BY NamesAre DEF HoldInv, Named, Alone

\* Where books and batch stay, so do names and entries.
LEMMA BooksStay ==
    ASSUME KindsInv, UNCHANGED <<handler, watchVars>>
    PROVE  BooksInv' /\ Names' = Names /\ EntriesKept
<1>1. UNCHANGED <<handler, kern, htbl, info>>
  BY DEF watchVars
<1>2. EntriesKept
  BY <1>1 DEF EntriesKept, EntryGood
<1> QED  BY <1>1, <1>2, BooksSame DEF KindsInv

-----------------------------------------------------------------------------
(* Sockets.                                                                *)

\* APE_socket_new takes a number nobody has a claim to.
LEMMA SocketNewStep == ASSUME EvInv, NEW s \in Sockets, SocketNew(s)  PROVE EvInv'
<1> DEFINE f == Min(FreeFds)
<1>0. KindsInv /\ HoldInv /\ BatchInv /\ RoomInv /\ s \in Evds
  BY NamesAre DEF EvInv
<1>1. /\ st[s] = "none" /\ FreeFds # {} /\ UNCHANGED <<handler, watchVars, loopVars>>
      /\ st' = [st EXCEPT ![s] = "pending"] /\ fd' = [fd EXCEPT ![s] = f]
      /\ opened' = [opened EXCEPT ![f] = s]
  BY DEF SocketNew
<1>2. f \in Fds /\ opened[f] = 0
  BY <1>0, <1>1, LowestFree
<1> HIDE DEF f
<1>3. Alone(s, f)
  BY <1>0, <1>2, Unclaimed
<1>4. st[s] \notin Watchable
  BY <1>1 DEF Watchable, Live
<1>5. /\ Names[f] = 0 /\ Owner(s) = s /\ s \in Int
      /\ BooksInv' /\ Names' = Names /\ EntriesKept
  BY <1>0, <1>1, <1>2, <1>3, <1>4, NobodyNamed, BooksStay, NamesAre DEF Owner
<1>6. Moves(s, f, "pending", f, Owner(s)) /\ Names'[f] = 0
  BY <1>0, <1>1, <1>2, <1>5 DEF Moves
<1>7. /\ "pending" \in SockStates /\ "pending" \notin Watchable /\ st[s] \notin Watchable
      /\ st[s] \notin Live \cup {"offline"} /\ s \notin SlotEvds
  BY <1>1, NamesAre DEF SockStates, Watchable, Live
<1>8. handler' = handler /\ batch' = batch /\ pc' = pc
  BY <1>1 DEF loopVars
<1>9. KindsInv' /\ HoldInv' /\ BatchInv'
  BY <1>0, <1>2, <1>3, <1>5, <1>6, <1>7, <1>8, LoseStep
<1>10. RoomInv'
  BY <1>0, <1>1, <1>8 DEF RoomInv, RoomFor, watchVars
<1> QED  BY <1>9, <1>10 DEF EvInv

\* APE_socket_listen and APE_socket_connect add the number the socket has.
LEMMA WatchStep ==
    ASSUME EvInv, NEW s \in Sockets, NEW state \in {"server", "progress"}, Watch(s, state)
    PROVE  EvInv'
<1> DEFINE f == fd[s]
<1>0. KindsInv /\ HoldInv /\ BatchInv /\ RoomInv /\ s \in Evds
  BY NamesAre DEF EvInv
<1>1. /\ st[s] = "pending" /\ UNCHANGED <<handler, fd, opened, loopVars>>
      /\ st' = [st EXCEPT ![s] = state] /\ EventsAdd(s, f, Both)
  BY DEF Watch
<1>2. f \in Fds /\ opened[f] = Owner(s) /\ Names[f] = 0 /\ Both \in SUBSET Both
  BY <1>0, <1>1 DEF HoldInv, Held
<1>3. Alone(s, f)
  BY <1>0, <1>1, <1>2, Unclaimed
<1>4. handler' = handler /\ batch' = batch /\ pc' = pc
  BY <1>1 DEF loopVars
<1>5. /\ BooksInv' /\ Names'[f] = s /\ EntriesKept
      /\ \A g \in Fds : g # f => Names'[g] = Names[g]
      /\ RoomInv'
  BY <1>0, <1>1, <1>2, <1>4, AddIs
<1>6. Moves(s, f, state, f, Owner(s))
  BY <1>0, <1>1, <1>2, <1>5 DEF Moves, KindsInv
<1>7. state \in Live /\ state \in Watchable /\ s \notin SlotEvds
  BY NamesAre DEF Live, Watchable
<1> HIDE DEF f
<1>8. st[s] \notin Watchable
  BY <1>1 DEF Watchable, Live
<1>9. KindsInv' /\ HoldInv' /\ BatchInv'
  BY <1>0, <1>2, <1>3, <1>4, <1>5, <1>6, <1>7, <1>8, GainStep
<1> QED  BY <1>5, <1>9 DEF EvInv

\* A failed APE_socket_listen closes a number that was never added.
LEMMA ListenFailsStep == ASSUME EvInv, NEW s \in Sockets, ListenFails(s)  PROVE EvInv'
<1> DEFINE f == fd[s]
<1>0. KindsInv /\ HoldInv /\ BatchInv /\ RoomInv /\ s \in Evds
  BY NamesAre DEF EvInv
<1>1. /\ st[s] = "pending" /\ UNCHANGED <<handler, fd, htbl, info, nfd, basemem, room, loopVars>>
      /\ st' = [st EXCEPT ![s] = "failed"] /\ CloseFd(f)
  BY DEF ListenFails
<1>2. f \in Fds /\ Names[f] = 0
  BY <1>0, <1>1 DEF HoldInv, Held
<1>3. Alone(s, f)
  BY <1>0, <1>1, <1>2, Unclaimed
<1>4. BooksInv' /\ EntriesKept /\ \A g \in Fds : Names'[g] = Names[g]
  BY <1>0, <1>1, <1>2, CloseOnlyIs
<1>5. Moves(s, f, "failed", f, 0)
  BY <1>0, <1>1, <1>2, <1>4 DEF Moves, CloseFd, KindsInv
<1> HIDE DEF f
<1>6. /\ "failed" \in SockStates /\ "failed" \notin Watchable /\ st[s] \notin Watchable
      /\ st[s] \notin Live \cup {"offline"} /\ s \notin SlotEvds
  BY <1>1, NamesAre DEF SockStates, Watchable, Live
<1>7. handler' = handler /\ batch' = batch /\ pc' = pc
  BY <1>1 DEF loopVars
<1>8. KindsInv' /\ HoldInv' /\ BatchInv'
  BY <1>0, <1>2, <1>3, <1>4, <1>5, <1>6, <1>7, LoseStep
<1>9. RoomInv'
  BY <1>0, <1>1, <1>7 DEF RoomInv, RoomFor
<1> QED  BY <1>8, <1>9 DEF EvInv

\* ape_socket_close, of a socket that has its descriptor.
LEMMA SocketCloseStep ==
    ASSUME EvInv, NEW s \in Sockets, NEW after \in {"none", "offline"}, SocketClose(s, after),
           st[s] \in Live \cup {"pending"}, after = "none" => pc = "timers",
           pc = "timers" \/ MayClose(s), UNCHANGED loopVars
    PROVE  EvInv'
<1> DEFINE f == fd[s]
           n == IF after = "none" THEN 0 ELSE f
<1>0. KindsInv /\ HoldInv /\ BatchInv /\ RoomInv /\ s \in Evds
  BY NamesAre DEF EvInv
<1>1. /\ handler' = handler /\ st' = [st EXCEPT ![s] = after] /\ CloseFd(f)
      /\ fd' = (IF after = "none" THEN [fd EXCEPT ![s] = 0] ELSE fd)
      /\ EventsDel(f) /\ nfd' = nfd - 1 /\ UNCHANGED <<basemem, room>>
  BY DEF SocketClose, EventsDel
<1>2. f \in Fds
  BY <1>0 DEF HoldInv, Held, Watchable
<1>3. Alone(s, f)
  BY <1>0, <1>2, Unclaimed DEF Watchable
<1>4. /\ BooksInv' /\ Names'[f] = 0
      /\ \A g \in Fds : g # f => Names'[g] = Names[g]
      /\ pc = "timers" \/ EntriesKept
  BY <1>0, <1>1, <1>2, <1>3, DelIs DEF Alone
<1>5. Moves(s, f, after, n, 0) /\ n \in Fds \cup {0}
  BY <1>0, <1>1, <1>2, <1>4 DEF Moves, CloseFd, KindsInv
<1>6. st[s] \notin Watchable \/ fd[s] = f
  OBVIOUS
<1> HIDE DEF f, n
<1>7. /\ after \in SockStates /\ after \notin Watchable /\ after # "pending"
      /\ s \notin SlotEvds /\ (pc = "timers" \/ after = "offline")
  BY <1>1, NamesAre DEF SockStates, Watchable, Live
<1>8. batch' = batch /\ pc' = pc
  BY DEF loopVars
<1>9. KindsInv' /\ HoldInv' /\ BatchInv'
  BY <1>0, <1>1, <1>2, <1>3, <1>4, <1>5, <1>6, <1>7, <1>8, LoseStep
<1>10. RoomInv'
  BY <1>0, <1>1, <1>8 DEF RoomInv, RoomFor
<1> QED  BY <1>9, <1>10 DEF EvInv

\* A live socket that only changes its state.
LEMMA TurnsStep ==
    ASSUME EvInv, NEW s \in Sockets, NEW state \in Live, st[s] \in Live,
           st' = [st EXCEPT ![s] = state], UNCHANGED <<handler, fd, opened, watchVars, loopVars>>
    PROVE  EvInv'
<1> DEFINE f == fd[s]
<1>0. KindsInv /\ HoldInv /\ BatchInv /\ RoomInv /\ s \in Evds /\ s \notin SlotEvds
  BY NamesAre DEF EvInv
<1>1. st[s] \in Watchable /\ state \in Watchable
  BY DEF Watchable
<1>2. f \in Fds /\ opened[f] = Owner(s) /\ Names[f] = s
  BY <1>0, <1>1 DEF HoldInv, Held
<1>3. Alone(s, f)
  BY <1>0, <1>1, <1>2, Unclaimed
<1>4. Moves(s, f, state, f, Owner(s)) /\ BooksInv' /\ Names'[f] = s /\ EntriesKept
  BY <1>0, <1>2, BooksStay DEF Moves, KindsInv
<1>5. st[s] \notin Watchable \/ fd[s] = f
  OBVIOUS
<1> HIDE DEF f
<1>6. handler' = handler /\ batch' = batch /\ pc' = pc
  BY DEF loopVars
<1>7. KindsInv' /\ HoldInv' /\ BatchInv'
  BY <1>0, <1>1, <1>2, <1>3, <1>4, <1>5, <1>6, GainStep
<1>8. RoomInv'
  BY <1>0, <1>6 DEF RoomInv, RoomFor, watchVars
<1> QED  BY <1>7, <1>8 DEF EvInv

\* APE_socket_shutdown_now closes, or leaves a socket to its timer.
LEMMA ShutdownStep == ASSUME EvInv, NEW s \in Sockets, Shutdown(s)  PROVE EvInv'
<1>1. UNCHANGED loopVars
  BY DEF Shutdown
<1>2. CASE st[s] \in {"pending", "progress", "server"} /\ Destroy(s)
  <2>1. st[s] \in Live \cup {"pending"} /\ SocketClose(s, "offline") /\ MayClose(s)
    BY <1>2 DEF Live, Destroy
  <2> QED  BY <1>1, <2>1, SocketCloseStep
<1>3. CASE /\ st[s] = "online" /\ st' = [st EXCEPT ![s] = "shutdown"]
           /\ UNCHANGED <<handler, fd, opened, watchVars>>
  <2>1. st[s] \in Live /\ "shutdown" \in Live
    BY <1>3 DEF Live
  <2> QED  BY <1>1, <1>3, <2>1, TurnsStep
<1> QED  BY <1>2, <1>3 DEF Shutdown

\* The timers: what they free is in no batch, for there is none.
LEMMA ExpireStep == ASSUME EvInv, NEW s \in Sockets, Expire(s)  PROVE EvInv'
<1>0. KindsInv /\ HoldInv /\ BatchInv /\ RoomInv /\ s \in Evds /\ s \notin SlotEvds
  BY NamesAre DEF EvInv
<1>1. UNCHANGED loopVars /\ pc = "timers"
  BY DEF Expire
<1>2. CASE st[s] = "shutdown" /\ SocketClose(s, "none")
  <2>1. st[s] \in Live
    BY <1>2 DEF Live
  <2> QED  BY <1>1, <1>2, <2>1, SocketCloseStep
<1>3. CASE /\ st[s] = "offline"
           /\ st' = [st EXCEPT ![s] = "none"] /\ fd' = [fd EXCEPT ![s] = 0]
           /\ UNCHANGED <<handler, opened, watchVars>>
  <2>1. /\ st' \in [Evds -> SockStates \cup {"used"}] /\ st'[s] = "none"
        /\ \A d \in Evds : d # s => st'[d] = st[d]
    BY <1>0, <1>3 DEF KindsInv, SockStates
  <2>2. /\ fd' \in [Evds -> Fds \cup {0}] /\ \A d \in Evds : d # s => fd'[d] = fd[d]
    BY <1>0, <1>3 DEF KindsInv
  <2>3. /\ opened' = opened /\ handler' = handler /\ batch' = batch /\ pc' = pc
        /\ BooksInv' /\ Names' = Names /\ EntriesKept
    BY <1>0, <1>1, <1>3, BooksStay DEF loopVars
  <2>4. KindsInv'
    BY <1>0, <2>1, <2>2, <2>3, NamesAre DEF KindsInv
  <2>5. ASSUME NEW d \in Evds  PROVE Held(d)'
    <3>1. CASE d = s
      BY <2>1, <3>1 DEF Held, Watchable, Live
    <3>2. CASE d # s
      BY <1>0, <2>1, <2>2, <2>3, <3>2 DEF HoldInv, Held, Owner
    <3> QED  BY <3>1, <3>2
  <2>6. ASSUME NEW g \in Fds  PROVE Named(g)'
    <3>1. Named(g) /\ Names[g] \in Evds \cup {0}
      BY <1>0, NamesType DEF HoldInv, KindsInv
    <3>2. Names[g] # 0 => Names[g] # s
      BY <1>3, <3>1 DEF Named, Watchable, Live
    <3> QED  BY <2>1, <2>2, <2>3, <3>1, <3>2 DEF Named
  <2>7. BatchInv'
    BY <1>0, <1>1, <2>3, BatchKept
  <2>8. RoomInv'
    BY <1>0, <1>3, <2>3 DEF RoomInv, RoomFor, watchVars
  <2> QED  BY <2>4, <2>5, <2>6, <2>7, <2>8 DEF EvInv, HoldInv
<1> QED  BY <1>2, <1>3 DEF Expire

\* ape_socket_accept takes a free number and adds it at once.
LEMMA AcceptStep == ASSUME EvInv, NEW s \in Sockets, Accept(s)  PROVE EvInv'
<1> DEFINE f == Min(FreeFds)
<1>0. KindsInv /\ HoldInv /\ BatchInv /\ RoomInv /\ s \in Evds
  BY NamesAre DEF EvInv
<1>1. /\ st[s] = "none" /\ FreeFds # {} /\ UNCHANGED <<handler, loopVars>>
      /\ st' = [st EXCEPT ![s] = "online"] /\ fd' = [fd EXCEPT ![s] = f]
      /\ opened' = [opened EXCEPT ![f] = s] /\ EventsAdd(s, f, Both)
  BY DEF Accept
<1>2. f \in Fds /\ opened[f] = 0
  BY <1>0, <1>1, LowestFree
<1> HIDE DEF f
<1>3. Alone(s, f) /\ Names[f] = 0 /\ Both \in SUBSET Both
  <2>1. st[s] \notin Watchable
    BY <1>1 DEF Watchable, Live
  <2> QED  BY <1>0, <1>2, <2>1, Unclaimed, NobodyNamed
<1>4. handler' = handler /\ batch' = batch /\ pc' = pc
  BY <1>1 DEF loopVars
<1>5. /\ BooksInv' /\ Names'[f] = s /\ EntriesKept
      /\ \A g \in Fds : g # f => Names'[g] = Names[g]
      /\ RoomInv'
  BY <1>0, <1>1, <1>2, <1>3, <1>4, AddIs
<1>6. Owner(s) = s
  BY DEF Owner
<1>7. Moves(s, f, "online", f, Owner(s))
  BY <1>1, <1>5, <1>6 DEF Moves
<1>8. "online" \in Live /\ "online" \in Watchable /\ s \notin SlotEvds /\ st[s] \notin Watchable
  BY <1>1, NamesAre DEF Live, Watchable
<1>9. KindsInv' /\ HoldInv' /\ BatchInv'
  BY <1>0, <1>2, <1>3, <1>4, <1>5, <1>7, <1>8, GainStep
<1> QED  BY <1>5, <1>9 DEF EvInv

\* The end of the stream closes the socket that is being handled.
LEMMA ReadEndStep == ASSUME EvInv, ReadEnd  PROVE EvInv'
<1>1. /\ cur \in Sockets /\ st[cur] \in Live /\ SocketClose(cur, "offline") /\ MayClose(cur)
      /\ UNCHANGED loopVars
  BY DEF ReadEnd, Destroy, Live
<1> QED  BY <1>1, SocketCloseStep

\* A connection is there, or is closed.
LEMMA ConnectedStep == ASSUME EvInv, Connected  PROVE EvInv'
<1>1. cur \in Sockets /\ st[cur] \in Live /\ UNCHANGED loopVars /\ "online" \in Live
  BY DEF Connected, Live
<1>2. CASE st' = [st EXCEPT ![cur] = "online"] /\ UNCHANGED <<handler, fd, opened, watchVars>>
  BY <1>1, <1>2, TurnsStep
<1>3. CASE Destroy(cur)
  <2>1. SocketClose(cur, "offline") /\ MayClose(cur)
    BY <1>3 DEF Destroy
  <2> QED  BY <1>1, <2>1, SocketCloseStep
<1> QED  BY <1>2, <1>3 DEF Connected

-----------------------------------------------------------------------------
(* The resolver.                                                           *)

\* c-ares opens a number, and ares_socket_cb finds a free slot for it.
LEMMA AresOpenStep == ASSUME EvInv, NEW wish \in Wishes, AresOpen(wish)  PROVE EvInv'
<1> DEFINE f == Min(FreeFds)
           e == FreeSlot
<1>0. KindsInv /\ HoldInv /\ BatchInv /\ RoomInv
  BY DEF EvInv
<1>1. /\ FreeFds # {} /\ (\E d \in SlotEvds : fd[d] = 0) /\ UNCHANGED <<handler, loopVars>>
      /\ st' = [st EXCEPT ![e] = "used"] /\ fd' = [fd EXCEPT ![e] = f]
      /\ opened' = [opened EXCEPT ![f] = Ares] /\ EventsAdd(e, f, ListenFor(wish))
  BY DEF AresOpen
<1>2. f \in Fds /\ opened[f] = 0
  BY <1>0, <1>1, LowestFree
<1>3. e \in SlotEvds /\ fd[e] = 0
  BY <1>1, SlotIsFree
<1> HIDE DEF f, e
<1>4. e \in Evds /\ e \notin Sockets
  BY <1>3, NamesAre
<1>5. Alone(e, f) /\ Names[f] = 0
  <2>1. st[e] \notin Watchable
    BY <1>0, <1>3 DEF KindsInv, Live, Watchable
  <2> QED  BY <1>0, <1>2, <1>4, <2>1, Unclaimed, NobodyNamed
<1>6. handler' = handler /\ batch' = batch /\ pc' = pc
  BY <1>1 DEF loopVars
<1>7. ListenFor(wish) \in SUBSET Both
  BY DEF ListenFor, Wishes, Both
<1>8. /\ BooksInv' /\ Names'[f] = e /\ EntriesKept
      /\ \A g \in Fds : g # f => Names'[g] = Names[g]
      /\ RoomInv'
  BY <1>0, <1>1, <1>2, <1>4, <1>5, <1>6, <1>7, AddIs
<1>9. Owner(e) = Ares
  BY <1>4 DEF Owner
<1>10. Moves(e, f, "used", f, Owner(e))
  BY <1>1, <1>8, <1>9 DEF Moves
<1>11. "used" \in Watchable /\ st[e] \notin Watchable
  BY <1>0, <1>3 DEF KindsInv, Live, Watchable
<1>12. KindsInv' /\ HoldInv' /\ BatchInv'
  BY <1>2, <1>4, <1>5, <1>6, <1>8, <1>10, <1>11, GainStep
<1> QED  BY <1>8, <1>12 DEF EvInv

\* A slot in use: it is watched, and its number is its own.
LEMMA SlotInUse ==
    ASSUME EvInv, NEW e \in SlotEvds, fd[e] # 0
    PROVE  /\ e \in Evds /\ e \notin Sockets /\ fd[e] \in Fds /\ st[e] = "used" /\ st[e] \in Watchable
           /\ opened[fd[e]] = Owner(e) /\ Names[fd[e]] = e /\ Alone(e, fd[e])
<1>1. e \in Evds /\ e \notin Sockets
  BY NamesAre
<1>2. st[e] = "used" /\ st[e] \in Watchable
  BY DEF EvInv, KindsInv, Watchable
<1>3. fd[e] \in Fds /\ opened[fd[e]] = Owner(e) /\ Names[fd[e]] = e
  BY <1>1, <1>2 DEF EvInv, HoldInv, Held
<1>4. Alone(e, fd[e])
  BY <1>1, <1>2, <1>3, Unclaimed DEF EvInv
<1> QED  BY <1>1, <1>2, <1>3, <1>4

\* c-ares changes what it waits for.
LEMMA AresModStep ==
    ASSUME EvInv, NEW e \in SlotEvds, NEW wish \in Wishes, AresMod(e, wish)  PROVE EvInv'
<1> DEFINE f == fd[e]
<1>0. KindsInv /\ RoomInv
  BY DEF EvInv
<1>1. /\ f # 0 /\ EventsMod(e, ListenFor(wish)) /\ UNCHANGED <<handler, fd, st, opened, loopVars>>
      /\ UNCHANGED <<nfd, basemem, room>>
  BY DEF AresMod, EventsMod
<1>2. /\ e \in Evds /\ e \notin Sockets /\ f \in Fds /\ st[e] = "used" /\ st[e] \in Watchable
      /\ opened[f] = Owner(e) /\ Names[f] = e /\ Alone(e, f)
  BY <1>1, SlotInUse
<1>3. ListenFor(wish) \in SUBSET Both
  BY DEF ListenFor, Wishes, Both
<1>4. BooksInv' /\ EntriesKept /\ Names'[f] = e /\ \A g \in Fds : Names'[g] = Names[g]
  BY <1>0, <1>1, <1>2, <1>3, ModIs
<1>5. Moves(e, f, "used", f, Owner(e))
  BY <1>0, <1>1, <1>2, <1>4 DEF Moves, KindsInv
<1>6. fd[e] = f /\ "used" \in Watchable
  BY <1>2
<1> HIDE DEF f
<1>7. handler' = handler /\ batch' = batch /\ pc' = pc
  BY <1>1 DEF loopVars
<1>8. KindsInv' /\ HoldInv' /\ BatchInv'
  BY <1>2, <1>4, <1>5, <1>6, <1>7, GainStep
<1>9. RoomInv'
  BY <1>0, <1>1, <1>7 DEF RoomInv, RoomFor
<1> QED  BY <1>8, <1>9 DEF EvInv

\* c-ares closes a number, and ares_socket_cb empties its slot.
LEMMA AresCloseStep == ASSUME EvInv, NEW e \in SlotEvds, AresClose(e)  PROVE EvInv'
<1> DEFINE f == fd[e]
<1>0. KindsInv /\ RoomInv
  BY DEF EvInv
<1>1. /\ f # 0 /\ CloseFd(f) /\ UNCHANGED <<handler, loopVars>>
      /\ fd' = [fd EXCEPT ![e] = 0] /\ st' = [st EXCEPT ![e] = "none"]
      /\ EventsDel(f) /\ MayClose(e) /\ nfd' = nfd - 1 /\ UNCHANGED <<basemem, room>>
  BY DEF AresClose, EventsDel
<1>2. e \in Evds /\ e \notin Sockets /\ f \in Fds /\ Alone(e, f)
  BY <1>1, SlotInUse
<1>3. /\ BooksInv' /\ Names'[f] = 0 /\ EntriesKept
      /\ \A g \in Fds : g # f => Names'[g] = Names[g]
  BY <1>0, <1>1, <1>2, DelIs DEF Alone
<1>4. Moves(e, f, "none", 0, 0)
  BY <1>1, <1>3 DEF Moves, CloseFd
<1>5. fd[e] = f /\ "none" \in SockStates /\ "none" \notin Watchable
  BY DEF SockStates, Watchable, Live
<1> HIDE DEF f
<1>6. handler' = handler /\ batch' = batch /\ pc' = pc
  BY <1>1 DEF loopVars
<1>7. KindsInv' /\ HoldInv' /\ BatchInv'
  BY <1>2, <1>3, <1>4, <1>5, <1>6, LoseStep
<1>8. RoomInv'
  BY <1>0, <1>1, <1>6 DEF RoomInv, RoomFor
<1> QED  BY <1>7, <1>8 DEF EvInv

-----------------------------------------------------------------------------
(* The loop.                                                               *)

\* events_shrink gives the array a size of its own again.
LEMMA ShrinkIs ==
    ASSUME KindsInv, RoomInv, Shrink, handler' = handler
    PROVE  /\ basemem' \in Nat \ {0} /\ room' = RoomFor(basemem)'
           /\ handler = "select" => basemem' = FdSetSize
<1>1. /\ DefaultSize \in Nat \ {0} /\ nfd \in Int /\ basemem \in Nat \ {0}
      /\ room = RoomFor(basemem) /\ (handler = "select" => basemem = FdSetSize)
  BY EventsAssumption DEF RoomInv
<1> DEFINE S == {DefaultSize} \cup NextPowerOfTwo(nfd)
           b == IF nfd > 0 THEN DefaultSize + 2 * nfd ELSE DefaultSize
<1>2. \A p \in S : p \in Nat \ {0} /\ p <= b
  <2>1. \A p \in NextPowerOfTwo(nfd) : p \in Int /\ nfd <= p /\ p <= 2 * nfd - 1
    BY <1>1 DEF NextPowerOfTwo
  <2>2. \A p \in NextPowerOfTwo(nfd) : p \in Nat \ {0} /\ nfd > 0 /\ p <= b
    BY <1>1, <2>1
  <2> QED  BY <1>1, <2>2
<1>3. b \in Nat /\ S # {}
  BY <1>1
<1> HIDE DEF S, b
<1>4. Max(S) \in S
  BY <1>2, <1>3, MaxIs
<1>5. Max(S) \in Nat \ {0}
  BY <1>2, <1>4
<1>6. CASE UNCHANGED <<basemem, room>>
  BY <1>1, <1>6 DEF RoomFor
<1>7. CASE SetSize(Max(S))
  BY <1>1, <1>5, <1>7 DEF SetSize, EpollSetSize, KqueueSetSize, SelectSetSize, RoomFor
<1> QED  BY <1>6, <1>7 DEF Shrink, S

\* The smaller of two sizes is no larger than the second.
LEMMA MinSecond ==
    ASSUME NEW a \in Nat, NEW b \in Nat
    PROVE  Min({a, b}) \in Nat /\ Min({a, b}) <= b
BY MinIs

\* A list of a finite set has as many entries as the set.
LEMMA ListLen ==
    ASSUME NEW S, IsFiniteSet(S), NEW q \in SetToSeqs(S)
    PROVE  /\ Cardinality(S) \in Nat /\ q \in [1 .. Cardinality(S) -> S]
           /\ DOMAIN q = 1 .. Cardinality(S)
<1>1. Cardinality(S) \in Nat
  BY FS_CardinalityType
<1> QED  BY <1>1 DEF SetToSeqs

\* Who is named for a number is a live socket or a slot.
LEMMA NamedIs ==
    ASSUME KindsInv, HoldInv, NEW f \in Watched
    PROVE  /\ f \in Fds /\ Names[f] \in Evds /\ Names[f] = NamedBy(f)
           /\ Names[f] \in Sockets => st[Names[f]] \in Live
<1>1. f \in Fds /\ Names[f] # 0 /\ Names[f] \in Evds /\ Names[f] = NamedBy(f)
  BY WatchedIs, NamesType DEF KindsInv
<1>2. st[Names[f]] \in Watchable
  BY <1>1 DEF HoldInv, Named
<1>3. Names[f] \in Sockets => st[Names[f]] # "used"
  BY DEF KindsInv
<1> QED  BY <1>1, <1>2, <1>3 DEF Watchable

\* What the back ends put into the array for a number is a good entry.
LEMMA KernelEntry ==
    ASSUME KindsInv, HoldInv, handler # "select", NEW f \in Watched
    PROVE  kern[f].evd \in Nat /\ EntryGood(kern[f].evd)
<1>1. /\ kern[f].evd \in Evds /\ (kern[f].evd \in Sockets => st[kern[f].evd] \in Live)
  BY NamedIs DEF NamedBy
<1> QED  BY <1>1, NamesAre DEF EntryGood

LEMMA SelectEntry ==
    ASSUME KindsInv, HoldInv, handler = "select", NEW f \in Watched
    PROVE  Seek(htbl, f) \in Nat /\ EntryGood(Seek(htbl, f))
<1>1. f \in Nat /\ Seek(htbl, f) # 0
  BY NamedIs, NamesAre DEF Watched
<1>2. Seek(htbl, f) \in Addrs /\ info[Seek(htbl, f)] # NoInfo
  BY <1>1, FoundInfo DEF KindsInv
<1> QED  BY <1>2, AddrsAre DEF EntryGood

\* A list of good entries is a batch.
LEMMA BatchOf ==
    ASSUME NEW n \in Nat, NEW b \in [1 .. n -> Nat], \A i \in 1 .. n : EntryGood(b[i]),
           batch' = b, pc' = "batch", UNCHANGED <<handler, st, info>>
    PROVE  BatchInv' /\ Len(batch') = n
<1>1. b \in Seq(Nat) /\ Len(b) = n /\ DOMAIN b = 1 .. n
  BY SeqDef, LenProperties
<1>2. \A i \in 1 .. n : EntryGood(b[i])'
  BY DEF EntryGood
<1>3. \A i \in DOMAIN batch' : EntryGood(batch[i])'
  BY <1>1, <1>2
<1> QED  BY <1>1, <1>3 DEF BatchInv

\* events_poll fills the array from the books of the back end.
LEMMA PollStep == ASSUME EvInv, Poll  PROVE EvInv'
<1>0. KindsInv /\ HoldInv /\ BatchInv /\ RoomInv
  BY DEF EvInv
<1>1. /\ Shrink /\ pc' = "batch"
      /\ UNCHANGED <<handler, fd, st, opened, kern, htbl, info, nfd>>
  BY DEF Poll
<1>2. /\ basemem' \in Nat \ {0} /\ room' = RoomFor(basemem)'
      /\ handler = "select" => basemem' = FdSetSize
  BY <1>0, <1>1, ShrinkIs
<1>3. BooksInv' /\ Names' = Names
  BY <1>0, <1>1, BooksSame DEF KindsInv
<1>4. KindsInv'
  BY <1>0, <1>1, <1>3 DEF KindsInv
<1>5. HoldInv'
  BY <1>0, <1>1, <1>3 DEF HoldInv, Held, Named, Owner
<1>6. Watched \subseteq Fds /\ IsFiniteSet(Watched) /\ Cardinality(Fds) = MaxFd /\ IsFiniteSet(Fds)
  <2>1. IsFiniteSet(Fds) /\ Cardinality(Fds) = MaxFd
    BY FS_Interval, NamesAre DEF Fds
  <2> QED  BY <1>0, <2>1, FS_Subset, NamedIs
<1>7. MaxReady \in Nat /\ 2 * basemem' \in Nat
  <2>1. MaxReady \in Nat
    BY EventsAssumption
  <2>2. basemem' \in Nat
    BY <1>2
  <2>3. \A x \in Nat : 2 * x \in Nat
    OBVIOUS
  <2> QED  BY <2>1, <2>2, <2>3, Zenon
<1>8. BatchInv' /\ Len(batch') <= room'
  <2>1. CASE handler = "epoll" /\ EpollPoll
    <3>1. PICK ready \in SUBSET Watched :
            /\ Cardinality(ready) <= Min({MaxReady, basemem'})
            /\ \E q \in SetToSeqs(ready) : batch' = [i \in DOMAIN q |-> kern[q[i]].evd]
      BY <2>1 DEF EpollPoll
    <3>2. PICK q \in SetToSeqs(ready) : batch' = [i \in DOMAIN q |-> kern[q[i]].evd]
      BY <3>1
    <3> DEFINE n == Cardinality(ready)
               b == [i \in 1 .. n |-> kern[q[i]].evd]
    <3>3. IsFiniteSet(ready)
      BY <1>6, FS_Subset
    <3>4. n \in Nat /\ q \in [1 .. n -> ready] /\ DOMAIN q = 1 .. n
      BY <3>3, ListLen
    <3> HIDE DEF n
    <3>5. \A i \in 1 .. n : kern[q[i]].evd \in Nat /\ EntryGood(kern[q[i]].evd)
      BY <1>0, <2>1, <3>4, KernelEntry
    <3>6. b \in [1 .. n -> Nat] /\ batch' = b /\ \A i \in 1 .. n : EntryGood(b[i])
      BY <3>2, <3>4, <3>5
    <3> HIDE DEF b
    <3>7. BatchInv' /\ Len(batch') = n
      BY <1>1, <3>4, <3>6, BatchOf
    <3>8. n <= Min({MaxReady, basemem'})
      BY <3>1 DEF n
    <3>9. Min({MaxReady, basemem'}) \in Nat /\ Min({MaxReady, basemem'}) <= basemem'
      BY <1>2, <1>7, MinSecond
    <3>10. room' = basemem'
      BY <1>1, <1>2, <2>1 DEF RoomFor
    <3> QED  BY <1>2, <3>4, <3>7, <3>8, <3>9, <3>10
  <2>2. CASE handler = "kqueue" /\ KqueuePoll
    <3> DEFINE W == {x \in Watched \X Both : x[2] \in kern[x[1]].want}
    <3>1. PICK ready \in SUBSET W :
            /\ Cardinality(ready) <= Min({MaxReady, 2 * basemem'})
            /\ \E q \in SetToSeqs(ready) : batch' = [i \in DOMAIN q |-> kern[q[i][1]].evd]
      BY <2>2 DEF KqueuePoll
    <3>2. PICK q \in SetToSeqs(ready) : batch' = [i \in DOMAIN q |-> kern[q[i][1]].evd]
      BY <3>1
    <3> DEFINE n == Cardinality(ready)
               b == [i \in 1 .. n |-> kern[q[i][1]].evd]
    <3>3. IsFiniteSet(ready)
      <4>1. IsFiniteSet(Both)
        <5>1. IsFiniteSet({"read"}) /\ Both = {"read"} \cup {"write"}
          BY FS_Singleton DEF Both
        <5> QED  BY <5>1, FS_AddElement
      <4>2. IsFiniteSet(Watched \X Both)
        BY <1>6, <4>1, FS_Product
      <4>3. ready \subseteq Watched \X Both
        OBVIOUS
      <4> QED  BY <4>2, <4>3, FS_Subset
    <3>4. n \in Nat /\ q \in [1 .. n -> ready] /\ DOMAIN q = 1 .. n
      BY <3>3, ListLen
    <3> HIDE DEF n
    <3>5. \A i \in 1 .. n : q[i][1] \in Watched
      BY <3>4
    <3>6. \A i \in 1 .. n : kern[q[i][1]].evd \in Nat /\ EntryGood(kern[q[i][1]].evd)
      BY <1>0, <2>2, <3>5, KernelEntry
    <3>7. b \in [1 .. n -> Nat] /\ batch' = b /\ \A i \in 1 .. n : EntryGood(b[i])
      BY <3>2, <3>4, <3>6
    <3> HIDE DEF b
    <3>8. BatchInv' /\ Len(batch') = n
      BY <1>1, <3>4, <3>7, BatchOf
    <3> DEFINE m == 2 * basemem'
    <3>9. n <= Min({MaxReady, m})
      BY <3>1 DEF n
    <3>10. m \in Nat /\ room' = m
      BY <1>1, <1>2, <1>7, <2>2, Zenon DEF RoomFor
    <3> HIDE DEF m
    <3>11. Min({MaxReady, m}) \in Nat /\ Min({MaxReady, m}) <= m
      BY <3>10, <1>7, MinSecond
    <3> QED  BY <3>4, <3>8, <3>9, <3>10, <3>11
  <2>3. CASE handler = "select" /\ SelectPoll
    <3>1. PICK ready \in SUBSET Watched :
            \E q \in SetToSeqs(ready) : batch' = [i \in DOMAIN q |-> Seek(htbl, q[i])]
      BY <2>3 DEF SelectPoll
    <3>2. PICK q \in SetToSeqs(ready) : batch' = [i \in DOMAIN q |-> Seek(htbl, q[i])]
      BY <3>1
    <3> DEFINE n == Cardinality(ready)
               b == [i \in 1 .. n |-> Seek(htbl, q[i])]
    <3>3. IsFiniteSet(ready) /\ n <= MaxFd
      <4>1. ready \in SUBSET Fds
        BY <1>6
      <4> QED  BY <1>6, <4>1, FS_Subset
    <3>4. n \in Nat /\ q \in [1 .. n -> ready] /\ DOMAIN q = 1 .. n
      BY <3>3, ListLen
    <3> HIDE DEF n
    <3>5. \A i \in 1 .. n : Seek(htbl, q[i]) \in Nat /\ EntryGood(Seek(htbl, q[i]))
      BY <1>0, <2>3, <3>4, SelectEntry
    <3>6. b \in [1 .. n -> Nat] /\ batch' = b /\ \A i \in 1 .. n : EntryGood(b[i])
      BY <3>2, <3>4, <3>5
    <3> HIDE DEF b
    <3>7. BatchInv' /\ Len(batch') = n
      BY <1>1, <3>4, <3>6, BatchOf
    <3>8. room' = FdSetSize
      BY <1>1, <1>2, <2>3 DEF RoomFor
    <3>9. MaxFd < FdSetSize /\ MaxFd \in Nat /\ FdSetSize \in Nat
      BY EventsAssumption
    <3> QED  BY <3>3, <3>4, <3>7, <3>8, <3>9
  <2> QED  BY <1>0, <2>1, <2>2, <2>3 DEF Poll
<1>9. RoomInv'
  BY <1>0, <1>1, <1>2, <1>8 DEF RoomInv
<1> QED  BY <1>4, <1>5, <1>8, <1>9 DEF EvInv

\* The array is read from the first entry on.
LEMMA EntryTaken ==
    ASSUME EvInv, batch # <<>>, batch' = Tail(batch), pc' \in {"batch", "handler"},
           UNCHANGED <<handler, fd, st, opened, watchVars>>
    PROVE  EvInv'
<1>0. KindsInv /\ HoldInv /\ BatchInv /\ RoomInv
  BY DEF EvInv
<1>1. /\ info' = info /\ nfd' = nfd /\ basemem' = basemem /\ room' = room
      /\ handler' = handler /\ st' = st /\ fd' = fd /\ opened' = opened
      /\ BooksInv' /\ Names' = Names
  BY <1>0, BooksStay DEF watchVars
<1>2. KindsInv'
  BY <1>0, <1>1 DEF KindsInv
<1>3. HoldInv'
  BY <1>0, <1>1 DEF HoldInv, Held, Named, Owner
<1>4. batch \in Seq(Nat) /\ Len(batch) \in Nat /\ DOMAIN batch = 1 .. Len(batch)
  BY <1>0, LenProperties DEF BatchInv
<1>5. /\ Tail(batch) \in Seq(Nat) /\ Len(Tail(batch)) = Len(batch) - 1
      /\ \A i \in 1 .. Len(Tail(batch)) : Tail(batch)[i] = batch[i + 1] /\ i + 1 \in 1 .. Len(batch)
      /\ DOMAIN Tail(batch) = 1 .. Len(Tail(batch))
  BY <1>4, HeadTailProperties, LenProperties
<1>6. BatchInv'
  BY <1>0, <1>1, <1>4, <1>5 DEF BatchInv, EntryGood
<1>7. RoomInv'
  BY <1>0, <1>1, <1>4, <1>5 DEF RoomInv, RoomFor
<1> QED  BY <1>2, <1>3, <1>6, <1>7 DEF EvInv

\* The loop goes on, or nothing happens.
LEMMA LoopGoesOn ==
    ASSUME EvInv, batch' = batch, UNCHANGED <<handler, fd, st, opened, watchVars>>,
           pc' = pc \/ pc' = "batch" \/ (pc' = "timers" /\ batch = <<>>)
    PROVE  EvInv'
<1>0. KindsInv /\ HoldInv /\ BatchInv /\ RoomInv
  BY DEF EvInv
<1>1. /\ info' = info /\ nfd' = nfd /\ basemem' = basemem /\ room' = room
      /\ handler' = handler /\ st' = st /\ fd' = fd /\ opened' = opened
      /\ BooksInv' /\ Names' = Names
  BY <1>0, BooksStay DEF watchVars
<1>2. KindsInv'
  BY <1>0, <1>1 DEF KindsInv
<1>3. HoldInv'
  BY <1>0, <1>1 DEF HoldInv, Held, Named, Owner
<1>4. BatchInv'
  BY <1>0, <1>1 DEF BatchInv, EntryGood
<1>5. RoomInv'
  BY <1>0, <1>1 DEF RoomInv, RoomFor
<1> QED  BY <1>2, <1>3, <1>4, <1>5 DEF EvInv

-----------------------------------------------------------------------------
(* The theorems.                                                           *)

\* The invariant holds at the start.
LEMMA EvStart == ASSUME Init  PROVE EvInv
<1>0. DefaultSize \in Nat \ {0} /\ FdSetSize \in Nat \ {0} /\ handler \in {"epoll", "kqueue", "select"}
  BY EventsAssumption DEF Init
<1>1. BooksInv /\ \A f \in Fds : Names[f] = 0
  <2>1. Unwatched \in KernType /\ Unwatched.evd = 0 /\ NoInfo \in InfoType
    BY DEF Unwatched, KernType, NoInfo, InfoType
  <2>2. KernInv
    BY <2>1 DEF Init, KernInv
  <2>3. TableInv(htbl) /\ \A f \in Nat : Seek(htbl, f) = 0
    <3>1. htbl = HashInit
      BY DEF Init
    <3>2. TableInv(htbl) /\ Allocated(htbl) = {}
      BY <3>1, HashInitIs
    <3> QED  BY <3>2, NotFoundIs
  <2>4. TableFinds
    BY <2>1, <2>3 DEF Init, TableFinds
  <2>5. \A f \in Fds : NamedBy(f) = 0
    BY <2>1, <2>3, NamesAre DEF Init, NamedBy
  <2> QED  BY <2>2, <2>3, <2>4, <2>5 DEF BooksInv, Names
<1>2. KindsInv
  <2>1. \A e \in SlotEvds : e \in Evds
    BY NamesAre
  <2>2. \A e \in Sockets : e \in Evds
    BY NamesAre
  <2> QED  BY <1>0, <1>1, <2>1, <2>2 DEF Init, KindsInv, SockStates
<1>3. HoldInv
  <2>1. \A e \in Evds : Held(e)
    BY DEF Init, Held, Watchable, Live
  <2>2. \A f \in Fds : Named(f)
    BY <1>1 DEF Named
  <2> QED  BY <2>1, <2>2 DEF HoldInv
<1>4. BatchInv
  BY DEF Init, BatchInv
<1>5. RoomInv
  BY <1>0 DEF Init, RoomInv, RoomFor, EpollInit, KqueueInit, SelectInit
<1> QED  BY <1>2, <1>3, <1>4, <1>5 DEF EvInv

\* Every step keeps it.
LEMMA EvKept == ASSUME EvInv, [Next]_vars  PROVE EvInv'
<1>1. ASSUME NEW s \in Sockets, SocketNew(s)  PROVE EvInv'
  BY <1>1, SocketNewStep
<1>2. ASSUME NEW s \in Sockets, Watch(s, "server") \/ Watch(s, "progress")  PROVE EvInv'
  BY <1>2, WatchStep
<1>3. ASSUME NEW s \in Sockets, ListenFails(s)  PROVE EvInv'
  BY <1>3, ListenFailsStep
<1>4. ASSUME NEW s \in Sockets, Shutdown(s)  PROVE EvInv'
  BY <1>4, ShutdownStep
<1>5. ASSUME NEW s \in Sockets, Expire(s)  PROVE EvInv'
  BY <1>5, ExpireStep
<1>6. ASSUME NEW s \in Sockets, Accept(s)  PROVE EvInv'
  BY <1>6, AcceptStep
<1>7. ASSUME NEW wish \in Wishes, AresOpen(wish)  PROVE EvInv'
  BY <1>7, AresOpenStep
<1>8. ASSUME NEW wish \in Wishes, NEW e \in SlotEvds, AresMod(e, wish)  PROVE EvInv'
  BY <1>8, AresModStep
<1>9. ASSUME NEW e \in SlotEvds, AresClose(e)  PROVE EvInv'
  BY <1>9, AresCloseStep
<1>10. CASE Poll
  BY <1>10, PollStep
<1>11. CASE Dispatch
  BY <1>11, EntryTaken DEF Dispatch
<1>12. CASE SkipEntry
  <2>1. pc' \in {"batch", "handler"}
    BY <1>12 DEF SkipEntry
  <2> QED  BY <1>12, <2>1, EntryTaken DEF SkipEntry
<1>13. CASE ReadEnd
  BY <1>13, ReadEndStep
<1>14. CASE Connected
  BY <1>14, ConnectedStep
<1>15. CASE HandlerEnd
  BY <1>15, LoopGoesOn DEF HandlerEnd
<1>16. CASE BatchEnd
  BY <1>16, LoopGoesOn DEF BatchEnd
<1>17. CASE UNCHANGED vars
  BY <1>17, LoopGoesOn DEF vars, loopVars
<1> QED  BY <1>1, <1>2, <1>3, <1>4, <1>5, <1>6, <1>7, <1>8, <1>9, <1>10, <1>11, <1>12, <1>13,
            <1>14, <1>15, <1>16, <1>17 DEF Next

\* It holds always.
LEMMA EvAlways == Spec => []EvInv
<1>1. Init => EvInv
  BY EvStart
<1>2. EvInv /\ [Next]_vars => EvInv'
  BY EvKept
<1> QED  BY <1>1, <1>2, PTL DEF Spec

\* What the invariant says of the table of select.
LEMMA HashSoundFollows == EvInv => HashSound
<1> SUFFICES ASSUME EvInv  PROVE HashSound
  OBVIOUS
<1>0. BooksInv /\ TableInv(htbl) /\ TableFinds
  BY DEF EvInv, KindsInv, BooksInv
<1>1. WellLinked(htbl)
  BY <1>0, TableWellLinked
<1>2. ASSUME NEW a \in Allocated(htbl)
      PROVE  info[htbl.item[a].content].fd = htbl.item[a].key
  <2>1. htbl.item[a].key \in Nat /\ htbl.item[a].content # 0
    BY <1>0 DEF TableInv, Keyed
  <2>2. Seek(htbl, htbl.item[a].key) = htbl.item[a].content
    BY <1>0, FoundIs
  <2> QED  BY <1>0, <2>1, <2>2 DEF TableFinds
<1>3. \A p \in Addrs : info[p] # NoInfo => Seek(htbl, info[p].fd) = p
  BY <1>0 DEF TableFinds
<1> QED  BY <1>1, <1>2, <1>3 DEF HashSound

\* What the invariant says of the watched numbers.
LEMMA WatchExactFollows == EvInv => WatchExact
<1> SUFFICES ASSUME EvInv  PROVE WatchExact
  OBVIOUS
<1>0. KindsInv /\ HoldInv /\ BooksInv
  BY DEF EvInv, KindsInv
<1>1. ASSUME NEW f \in Watched
      PROVE  /\ Names[f] \in Evds /\ st[Names[f]] \in Watchable /\ fd[Names[f]] = f
             /\ opened[f] = Owner(Names[f])
             /\ Names[f] = IF handler = "select" THEN info[Seek(htbl, f)].evd ELSE kern[f].evd
  <2>1. f \in Fds /\ Names[f] \in Evds /\ Names[f] # 0 /\ Names[f] = NamedBy(f)
    BY <1>0, NamedIs, NamesAre
  <2>2. st[Names[f]] \in Watchable /\ fd[Names[f]] = f
    BY <1>0, <2>1 DEF HoldInv, Named
  <2>3. opened[fd[Names[f]]] = Owner(Names[f])
    BY <1>0, <2>1, <2>2 DEF HoldInv, Held
  <2>4. Names[f] = IF handler = "select" THEN info[Seek(htbl, f)].evd ELSE kern[f].evd
    BY <2>1 DEF NamedBy
  <2> QED  BY <2>1, <2>2, <2>3, <2>4
<1>2. ASSUME NEW e \in Evds, st[e] \in Watchable  PROVE fd[e] \in Watched
  <2>1. fd[e] \in Fds /\ Names[fd[e]] = e /\ e # 0
    BY <1>0, <1>2, NamesAre DEF HoldInv, Held
  <2> QED  BY <1>0, <2>1, WatchedIs
<1>3. Watched = {fd[e] : e \in {d \in Evds : st[d] \in Watchable}}
  <2>1. \A f \in Watched : f \in {fd[e] : e \in {d \in Evds : st[d] \in Watchable}}
    BY <1>1
  <2>2. \A f \in {fd[e] : e \in {d \in Evds : st[d] \in Watchable}} : f \in Watched
    BY <1>2
  <2> QED  BY <2>1, <2>2
<1>4. \A s \in Sockets : st[s] = "pending" => opened[fd[s]] = s
  BY <1>0, NamesAre DEF HoldInv, Held, Owner
<1>5. \A f \in Watched :
        LET e == IF handler = "select" THEN info[Seek(htbl, f)].evd ELSE kern[f].evd
        IN  fd[e] = f /\ opened[f] = IF e \in Sockets THEN e ELSE Ares
  BY <1>1 DEF Owner
<1> QED  BY <1>3, <1>4, <1>5 DEF WatchExact

\* Whom an entry stands for was not freed.
LEMMA EntryIs ==
    ASSUME KindsInv, HoldInv, NEW x, EntryGood(x), EvdOf(x) \in Sockets
    PROVE  st[EvdOf(x)] \in Live \cup {"offline"}
<1>1. CASE handler = "select"
  <2>1. x \in Addrs /\ info[x] # NoInfo /\ EvdOf(x) = info[x].evd
    BY <1>1 DEF EntryGood, EvdOf
  <2>2. /\ info[x].fd \in Fds /\ info[x].evd \in Evds /\ Seek(htbl, info[x].fd) = x
        /\ x # 0
    BY <2>1, AddrsAre DEF KindsInv, BooksInv, TableFinds
  <2>3. Names[info[x].fd] = info[x].evd
    BY <1>1, <2>2 DEF Names, NamedBy
  <2>4. info[x].fd \in Watched
    BY <1>1, <2>2 DEF Watched
  <2> QED  BY <2>1, <2>3, <2>4, NamedIs
<1>2. CASE handler # "select"
  BY <1>2 DEF EntryGood, EvdOf
<1> QED  BY <1>1, <1>2

\* What the invariant says of the entries still to come.
LEMMA BatchValidFollows == EvInv => BatchValid
<1> SUFFICES ASSUME EvInv  PROVE BatchValid
  OBVIOUS
<1>0. KindsInv /\ HoldInv /\ BatchInv /\ RoomInv
  BY DEF EvInv
<1>1. Len(batch) <= room
  BY <1>0 DEF RoomInv
<1>2. ASSUME NEW i \in DOMAIN batch  PROVE EntryGood(batch[i])
  BY <1>0 DEF BatchInv
<1>3. ASSUME NEW i \in DOMAIN batch, handler = "select"  PROVE info[batch[i]] # NoInfo
  BY <1>2, <1>3 DEF EntryGood
<1>4. ASSUME NEW i \in DOMAIN batch, EvdOf(batch[i]) \in Sockets
      PROVE  /\ st[EvdOf(batch[i])] \in Live \cup {"offline"}
             /\ st[EvdOf(batch[i])] # "offline" => opened[fd[EvdOf(batch[i])]] = EvdOf(batch[i])
  <2> DEFINE s == EvdOf(batch[i])
  <2>1. s \in Sockets /\ st[s] \in Live \cup {"offline"}
    BY <1>0, <1>2, <1>4, EntryIs
  <2> HIDE DEF s
  <2>2. st[s] # "offline" => opened[fd[s]] = s
    BY <1>0, <2>1, NamesAre DEF HoldInv, Held, Owner, Watchable
  <2> QED  BY <2>1, <2>2 DEF s
<1> QED  BY <1>1, <1>3, <1>4 DEF BatchValid

\* Whatever sequence of events_add, events_mod and events_del there is, for
\* any number of descriptor numbers and of buckets: hashtbl_append64 and
\* hashtbl_erase64 leave chains, list and back pointers of the table of
\* select in agreement, and event_select_add and event_select_del leave in it
\* the fdinfo of each number and none that was freed.
THEOREM HashStaysSound == Spec => []HashSound
<1>1. EvInv => HashSound
  BY HashSoundFollows
<1>2. Spec => []EvInv
  BY EvAlways
<1> QED  BY <1>1, <1>2, PTL

\* With every back end, for any number of sockets, of slots of the resolver
\* and of descriptor numbers, and however numbers are used again: events_add,
\* events_del and close() keep the set that is watched equal to that of the
\* descriptors of live sockets and of the resolver, and each entry names the
\* one holder of its number.
THEOREM WatchesExactly == Spec => []WatchExact
<1>1. EvInv => WatchExact
  BY WatchExactFollows
<1>2. Spec => []EvInv
  BY EvAlways
<1> QED  BY <1>1, <1>2, PTL

\* With every back end, whatever the handlers of a batch close, open and free:
\* the entries still to come lie within the array that events_add and
\* events_shrink reallocate and point at sockets that are not freed, with
\* select by way of fdinfos that are not, and those sockets that are not
\* OFFLINE have their descriptor still.
THEOREM BatchStaysValid == Spec => []BatchValid
<1>1. EvInv => BatchValid
  BY BatchValidFollows
<1>2. Spec => []EvInv
  BY EvAlways
<1> QED  BY <1>1, <1>2, PTL

=============================================================================
