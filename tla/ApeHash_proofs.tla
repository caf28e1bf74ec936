--------------------------- MODULE ApeHash_proofs ----------------------------
(***************************************************************************)
(* Proofs about the hash table of ApeHash, for any number of buckets and   *)
(* of items: what hashtbl_seek64, hashtbl_append64 and hashtbl_erase64 do  *)
(* to a table that is well linked, and that they leave it so.              *)
(***************************************************************************)
EXTENDS ApeHash, FiniteSetTheorems, WellFoundedInduction, TLAPS

-----------------------------------------------------------------------------
(* Numbers.                                                                *)

\* A set of numbers that is not empty has a least one, which Min is.
LEMMA MinIs ==
    ASSUME NEW S \in SUBSET Nat, S # {}
    PROVE  Min(S) \in S /\ \A y \in S : Min(S) <= y
<1> DEFINE R == OpToRel(<, Nat)
<1>1. IsWellFoundedOn(R, Nat)
  BY NatLessThanWellFounded
<1>2. \A x, y \in Nat : <<x, y>> \in R <=> x < y
  BY DEF OpToRel
<1> HIDE DEF R
<1>3. PICK x \in S : \A y \in S : ~(<<y, x>> \in R)
  BY <1>1, WFMin
<1>4. ASSUME NEW y \in S  PROVE x <= y
  <2>1. x \in Nat /\ y \in Nat /\ ~(<<y, x>> \in R)
    BY <1>3
  <2>2. ~(y < x)
    BY <1>2, <2>1, Zenon
  <2> QED  BY <2>1, <2>2
<1>5. \E z \in S : \A y \in S : z <= y
  BY <1>4
<1> QED  BY <1>5 DEF Min

-----------------------------------------------------------------------------
(* Ways through linked items.                                              *)

Links == Addrs \cup {0}

\* The items of S are linked by next, starting at head: each is there once,
\* and every link leads from a younger item to an older one.
Linked(head, next, S, age) ==
    /\ S \subseteq Addrs /\ head \in S \cup {0}
    /\ next \in [Addrs -> Links] /\ age \in [Addrs -> Nat]
    /\ \A a \in S : next[a] \in S \cup {0} /\ (next[a] # 0 => age[a] < age[next[a]])
    /\ \A a \in S : a = head \/ \E p \in S : next[p] = a
    /\ \A p, q \in S : next[p] = next[q] /\ next[p] # 0 => p = q
    /\ \A p \in S : next[p] # 0 => next[p] # head

\* What a walk from head meets, up to its step n
Steps(head, next, way, n) ==
    /\ way[0] = head
    /\ \A i \in 1 .. n : way[i] = IF way[i - 1] = 0 THEN 0 ELSE next[way[i - 1]]

\* A walk may be as long as one likes, it stays in S or stops at NULL.
LEMMA WalkGoesOn ==
    ASSUME NEW head, NEW next, NEW S, NEW age, Linked(head, next, S, age), NEW n \in Nat
    PROVE  \E way \in [0 .. n -> S \cup {0}] : Steps(head, next, way, n)
<1> DEFINE B == {k \in Nat : ~ \E way \in [0 .. k -> S \cup {0}] : Steps(head, next, way, k)}
<1> SUFFICES ASSUME B # {} PROVE FALSE
  OBVIOUS
<1>0. B \in SUBSET Nat
  OBVIOUS
<1> DEFINE m == Min(B)
<1>1. m \in B /\ \A y \in B : m <= y
  BY <1>0, MinIs
<1>2. m \in Nat
  BY <1>0, <1>1
<1>3. ~ \E way \in [0 .. m -> S \cup {0}] : Steps(head, next, way, m)
  BY <1>1
<1> HIDE DEF m
<1>4. CASE m = 0
  <2> DEFINE way == [i \in 0 .. 0 |-> head]
  <2>1. way \in [0 .. 0 -> S \cup {0}] /\ Steps(head, next, way, 0)
    BY DEF Linked, Steps
  <2> QED  BY <1>3, <1>4, <2>1
<1>5. CASE m # 0
  <2>1. m - 1 \in Nat /\ ~ (m <= m - 1)
    BY <1>2, <1>5
  <2>2. m - 1 \notin B
    BY <1>1, <2>1
  <2>3. PICK way \in [0 .. m - 1 -> S \cup {0}] : Steps(head, next, way, m - 1)
    BY <2>1, <2>2
  <2> DEFINE last == IF way[m - 1] = 0 THEN 0 ELSE next[way[m - 1]]
             more == [i \in 0 .. m |-> IF i = m THEN last ELSE way[i]]
  <2>4. last \in S \cup {0}
    <3>1. way[m - 1] \in S \cup {0}
      BY <2>1, <2>3
    <3> QED  BY <3>1 DEF Linked
  <2>5. more \in [0 .. m -> S \cup {0}]
    <3>1. \A i \in 0 .. m : i # m => i \in 0 .. m - 1
      BY <1>2
    <3> HIDE DEF last
    <3> QED  BY <2>3, <2>4, <3>1
  <2>6. Steps(head, next, more, m)
    <3>1. more[0] = head
      BY <1>2, <1>5, <2>3 DEF Steps
    <3>2. ASSUME NEW i \in 1 .. m
          PROVE  more[i] = IF more[i - 1] = 0 THEN 0 ELSE next[more[i - 1]]
      <4>1. i - 1 \in 0 .. m /\ i \in 0 .. m /\ i - 1 # m /\ more[i - 1] = way[i - 1]
        BY <1>2
      <4>2. CASE i = m
        BY <4>1, <4>2
      <4>3. CASE i # m
        <5>1. i \in 1 .. m - 1 /\ more[i] = way[i]
          BY <1>2, <4>1, <4>3
        <5> QED  BY <2>3, <4>1, <5>1 DEF Steps
      <4> QED  BY <4>2, <4>3
    <3> QED  BY <3>1, <3>2 DEF Steps
  <2> QED  BY <1>3, <2>5, <2>6
<1> QED  BY <1>4, <1>5

\* Once at NULL a walk stays there, and before it meets older and older items.
LEMMA WalkAges ==
    ASSUME NEW head, NEW next, NEW S, NEW age, Linked(head, next, S, age), NEW n \in Nat,
           NEW way, \A i \in 0 .. n : way[i] \in S \cup {0}, Steps(head, next, way, n),
           NEW j \in 0 .. n, way[j] # 0
    PROVE  \A i \in 0 .. j : way[i] # 0 /\ (i < j => age[way[i]] < age[way[j]])
<1> DEFINE Good(i) == way[j - i] # 0 /\ (i > 0 => age[way[j - i]] < age[way[j]])
           B == {i \in 0 .. j : ~ Good(i)}
<1>1. B = {}
  <2> SUFFICES ASSUME B # {} PROVE FALSE
    OBVIOUS
  <2>0. B \in SUBSET Nat
    OBVIOUS
  <2> DEFINE m == Min(B)
  <2>1. m \in B /\ \A y \in B : m <= y
    BY <2>0, MinIs
  <2>2. m \in 0 .. j /\ ~ Good(m)
    BY <2>1
  <2> HIDE DEF m
  <2>3. m # 0
    BY <2>2
  <2>4. m - 1 \in 0 .. j /\ Good(m - 1)
    <3>1. m - 1 \in 0 .. j /\ ~ (m <= m - 1)
      BY <2>2, <2>3
    <3>2. m - 1 \notin B
      BY <2>1, <3>1
    <3> QED  BY <3>1, <3>2
  <2> DEFINE p == way[j - m]
             q == way[j - (m - 1)]
  <2>5. q = IF p = 0 THEN 0 ELSE next[p]
    <3>1. j - (m - 1) \in 1 .. n /\ (j - (m - 1)) - 1 = j - m
      BY <2>2, <2>3
    <3> QED  BY <3>1 DEF Steps
  <2>6. p \in S \cup {0} /\ q \in S \cup {0} /\ way[j] \in S
    <3>1. j - m \in 0 .. n /\ j - (m - 1) \in 0 .. n
      BY <2>2, <2>3
    <3> QED  BY <3>1
  <2>7. q # 0 /\ (m - 1 > 0 => age[q] < age[way[j]]) /\ (m - 1 = 0 => q = way[j])
    <3>1. m - 1 = 0 => j - (m - 1) = j
      BY <2>2
    <3> QED  BY <2>4, <3>1
  <2> HIDE DEF p, q
  <2>8. p \in S /\ p # 0 /\ next[p] = q /\ age[p] < age[q]
    BY <2>5, <2>6, <2>7 DEF Linked
  <2>9. age[p] \in Nat /\ age[q] \in Nat /\ age[way[j]] \in Nat
    BY <2>6, <2>7, <2>8 DEF Linked
  <2>10. age[p] < age[way[j]]
    <3>1. m - 1 > 0 \/ m - 1 = 0
      BY <2>2, <2>3
    <3> QED  BY <2>7, <2>8, <2>9, <3>1
  <2> QED  BY <2>2, <2>8, <2>10 DEF p
<1>2. ASSUME NEW i \in 0 .. j  PROVE way[i] # 0 /\ (i < j => age[way[i]] < age[way[j]])
  <2>1. j - i \in 0 .. j /\ j - (j - i) = i /\ (i < j => j - i > 0)
    OBVIOUS
  <2>2. Good(j - i)
    BY <1>1, <2>1
  <2> QED  BY <2>1, <2>2
<1> QED  BY <1>2

\* A walk has stopped after as many steps as there may be items.
LEMMA WalkStops ==
    ASSUME NEW head, NEW next, NEW S, NEW age, Linked(head, next, S, age),
           NEW way, \A i \in 0 .. MaxItems : way[i] \in S \cup {0},
           Steps(head, next, way, MaxItems)
    PROVE  way[MaxItems] = 0
<1>0. MaxItems \in Nat
  BY HashAssumption
<1> SUFFICES ASSUME way[MaxItems] # 0 PROVE FALSE
  OBVIOUS
<1>1. \A i \in 0 .. MaxItems : way[i] # 0
  BY <1>0, WalkAges
<1> DEFINE f == [i \in 0 .. MaxItems |-> way[i]]
<1>2. f \in [0 .. MaxItems -> Addrs]
  BY <1>1 DEF Linked
<1>3. IsFiniteSet(0 .. MaxItems) /\ Cardinality(0 .. MaxItems) = MaxItems + 1
  BY <1>0, FS_Interval
<1>4. IsFiniteSet(Addrs) /\ Cardinality(Addrs) = MaxItems
  BY <1>0, FS_Interval DEF Addrs
<1>5. PICK i, j \in 0 .. MaxItems : i # j /\ f[i] = f[j]
  <2>1. Cardinality(Addrs) < Cardinality(0 .. MaxItems)
    BY <1>0, <1>3, <1>4
  <2> DEFINE D == 0 .. MaxItems
             A == Addrs
  <2>2. IsFiniteSet(D) /\ IsFiniteSet(A) /\ Cardinality(A) < Cardinality(D) /\ f \in [D -> A]
    BY <1>2, <1>3, <1>4, <2>1
  <2> HIDE DEF f, D, A
  <2>3. \E x, y \in D : x # y /\ f[x] = f[y]
    BY <2>2, FS_PigeonHole
  <2> QED  BY <2>3 DEF D
<1>6. ASSUME NEW x \in 0 .. MaxItems, NEW y \in 0 .. MaxItems, x < y  PROVE way[x] # way[y]
  <2>1. x \in 0 .. y /\ way[y] # 0 /\ way[x] # 0
    BY <1>0, <1>1, <1>6
  <2>2. age[way[x]] < age[way[y]]
    BY <1>0, <1>6, <2>1, WalkAges
  <2>3. age[way[x]] \in Nat
    BY <2>1 DEF Linked
  <2> QED  BY <2>2, <2>3
<1>7. i < j \/ j < i
  BY <1>0, <1>5
<1> QED  BY <1>5, <1>6, <1>7

\* It meets every item.
LEMMA WalkMeets ==
    ASSUME NEW head, NEW next, NEW S, NEW age, Linked(head, next, S, age),
           NEW way, \A i \in 0 .. MaxItems : way[i] \in S \cup {0},
           Steps(head, next, way, MaxItems)
    PROVE  \A a \in S : \E i \in 0 .. MaxItems : way[i] = a
<1>0. MaxItems \in Nat
  BY HashAssumption
<1> DEFINE M == {a \in S : \A i \in 0 .. MaxItems : way[i] # a}
           T == {age[a] : a \in M}
<1> SUFFICES ASSUME M # {} PROVE FALSE
  OBVIOUS
<1>1. T \in SUBSET Nat /\ T # {}
  BY DEF Linked
<1>2. Min(T) \in T /\ \A t \in T : Min(T) <= t
  BY <1>1, MinIs
<1>3. PICK a \in M : Min(T) = age[a]
  BY <1>2
<1>4. a \in S /\ \A i \in 0 .. MaxItems : way[i] # a
  OBVIOUS
<1>5. a # 0 /\ a \in Addrs
  BY <1>0, <1>4 DEF Linked, Addrs
<1>6. a # head
  BY <1>0, <1>4 DEF Steps
<1>7. PICK p \in S : next[p] = a
  BY <1>4, <1>6 DEF Linked
<1>8. age[p] \in Nat /\ age[a] \in Nat /\ age[p] < age[a]
  BY <1>4, <1>5, <1>7 DEF Linked
<1>9. p \notin M
  <2>1. SUFFICES ASSUME p \in M PROVE FALSE
    OBVIOUS
  <2>2. age[p] \in T
    BY <2>1
  <2>3. age[a] <= age[p]
    BY <1>2, <1>3, <2>2
  <2> QED  BY <1>8, <2>3
<1>10. PICK i \in 0 .. MaxItems : way[i] = p
  BY <1>9
<1>11. p # 0
  BY <1>0 DEF Linked, Addrs
<1>12. i # MaxItems
  BY <1>10, <1>11, WalkStops
<1>13. i + 1 \in 1 .. MaxItems /\ i + 1 \in 0 .. MaxItems /\ (i + 1) - 1 = i
  BY <1>0, <1>12
<1>14. way[i + 1] = a
  BY <1>7, <1>10, <1>11, <1>13 DEF Steps
<1> QED  BY <1>4, <1>13, <1>14

\* The function that Way defines is such a walk, for ever.
EndlessWay(head, next, at) ==
    at = [n \in Nat |-> IF n = 0 THEN head ELSE IF at[n - 1] = 0 THEN 0 ELSE next[at[n - 1]]]

\* There is one: a walk that has stopped goes on at NULL.
LEMMA EndlessWayIs ==
    ASSUME NEW head, NEW next, NEW S, NEW age, Linked(head, next, S, age)
    PROVE  \E at : EndlessWay(head, next, at)
<1>0. MaxItems \in Nat
  BY HashAssumption
<1>1. PICK way \in [0 .. MaxItems -> S \cup {0}] : Steps(head, next, way, MaxItems)
  BY <1>0, WalkGoesOn
<1>2. way[MaxItems] = 0
  BY <1>1, WalkStops
<1> DEFINE at == [n \in Nat |-> IF n <= MaxItems THEN way[n] ELSE 0]
<1>3. ASSUME NEW n \in Nat
      PROVE  at[n] = IF n = 0 THEN head ELSE IF at[n - 1] = 0 THEN 0 ELSE next[at[n - 1]]
  <2>1. CASE n = 0
    BY <1>0, <1>1, <2>1 DEF Steps
  <2>2. CASE n # 0 /\ n <= MaxItems
    <3>1. n \in 1 .. MaxItems /\ n - 1 \in Nat /\ n - 1 <= MaxItems
      BY <1>0, <2>2
    <3>2. at[n] = way[n] /\ at[n - 1] = way[n - 1]
      BY <2>2, <3>1
    <3>3. way[n] = IF way[n - 1] = 0 THEN 0 ELSE next[way[n - 1]]
      BY <1>1, <3>1 DEF Steps
    <3> HIDE DEF at
    <3> QED  BY <2>2, <3>2, <3>3
  <2>3. CASE ~ (n <= MaxItems)
    <3>1. n # 0 /\ n - 1 \in Nat /\ at[n] = 0
      BY <1>0, <2>3
    <3>2. at[n - 1] = 0
      <4>1. CASE n - 1 <= MaxItems
        <5>1. n - 1 = MaxItems
          BY <1>0, <2>3, <4>1
        <5> QED  BY <1>0, <1>2, <5>1
      <4>2. CASE ~ (n - 1 <= MaxItems)
        BY <3>1, <4>2
      <4> QED  BY <4>1, <4>2
    <3> HIDE DEF at
    <3> QED  BY <3>1, <3>2
  <2> QED  BY <2>1, <2>2, <2>3
<1>4. at = [n \in Nat |-> at[n]]
  OBVIOUS
<1>5. EndlessWay(head, next, at)
  <2> HIDE DEF at
  <2> QED  BY <1>3, <1>4 DEF EndlessWay
<1> QED  BY <1>5

\* It is a walk, and stays in S or stops.
LEMMA EndlessWaySteps ==
    ASSUME NEW head, NEW next, NEW S, NEW age, Linked(head, next, S, age),
           NEW at, EndlessWay(head, next, at)
    PROVE  /\ Steps(head, next, at, MaxItems)
           /\ \A n \in 0 .. MaxItems : at[n] \in S \cup {0}
<1>0. MaxItems \in Nat
  BY HashAssumption
<1>1. at[0] = head /\ \A n \in Nat \ {0} : at[n] = IF at[n - 1] = 0 THEN 0 ELSE next[at[n - 1]]
  <2>1. \A n \in Nat : at[n] = IF n = 0 THEN head ELSE IF at[n - 1] = 0 THEN 0 ELSE next[at[n - 1]]
    BY Zenon DEF EndlessWay
  <2> QED  BY <2>1
<1>2. Steps(head, next, at, MaxItems)
  BY <1>0, <1>1 DEF Steps
<1> DEFINE B == {n \in Nat : at[n] \notin S \cup {0}}
<1>3. B = {}
  <2> SUFFICES ASSUME B # {} PROVE FALSE
    OBVIOUS
  <2>0. B \in SUBSET Nat
    OBVIOUS
  <2> DEFINE m == Min(B)
  <2>1. m \in B /\ \A y \in B : m <= y
    BY <2>0, MinIs
  <2>2. m \in Nat /\ at[m] \notin S \cup {0}
    BY <2>1
  <2> HIDE DEF m
  <2>3. m # 0
    BY <1>1, <2>2 DEF Linked
  <2>4. m - 1 \in Nat /\ ~ (m <= m - 1)
    BY <2>2, <2>3
  <2>5. at[m - 1] \in S \cup {0}
    BY <2>1, <2>4
  <2>6. at[m] = IF at[m - 1] = 0 THEN 0 ELSE next[at[m - 1]]
    BY <1>1, <2>2, <2>3
  <2>7. at[m - 1] # 0 => next[at[m - 1]] \in S \cup {0}
    BY <2>5 DEF Linked
  <2> QED  BY <2>2, <2>6, <2>7
<1> QED  BY <1>0, <1>2, <1>3

\* What Way returns is a walk that meets every item and then stops.
LEMMA WayIs ==
    ASSUME NEW head, NEW next, NEW S, NEW age, Linked(head, next, S, age)
    PROVE  /\ \A n \in 0 .. MaxItems : Way(head, next)[n] \in S \cup {0}
           /\ Steps(head, next, Way(head, next), MaxItems)
           /\ Way(head, next)[MaxItems] = 0
           /\ \A a \in S : \E n \in 0 .. MaxItems : Way(head, next)[n] = a
<1>0. MaxItems \in Nat
  BY HashAssumption
<1> DEFINE at == CHOOSE e : EndlessWay(head, next, e)
<1>1. Way(head, next) = [n \in 0 .. MaxItems |-> at[n]]
  BY DEF Way, EndlessWay
<1>2. EndlessWay(head, next, at)
  <2>1. \E e : EndlessWay(head, next, e)
    BY EndlessWayIs
  <2> HIDE DEF EndlessWay
  <2> QED  BY <2>1
<1> HIDE DEF at
<1>3. Steps(head, next, at, MaxItems) /\ \A n \in 0 .. MaxItems : at[n] \in S \cup {0}
  BY <1>2, EndlessWaySteps
<1> DEFINE w == Way(head, next)
<1>4. \A n \in 0 .. MaxItems : w[n] = at[n]
  BY <1>1
<1> HIDE DEF w
<1>5. \A n \in 0 .. MaxItems : w[n] \in S \cup {0}
  BY <1>3, <1>4
<1>6. Steps(head, next, w, MaxItems)
  <2>1. 0 \in 0 .. MaxItems /\ \A i \in 1 .. MaxItems : i \in 0 .. MaxItems /\ i - 1 \in 0 .. MaxItems
    BY <1>0
  <2> QED  BY <1>3, <1>4, <2>1 DEF Steps
<1>7. w[MaxItems] = 0
  BY <1>5, <1>6, WalkStops
<1>8. \A a \in S : \E n \in 0 .. MaxItems : w[n] = a
  BY <1>5, <1>6, WalkMeets
<1> QED  BY <1>5, <1>6, <1>7, <1>8 DEF w

\* What becomes of linked items: a new one comes to the front, ...
LEMMA LinkedPush ==
    ASSUME NEW head, NEW next, NEW S, NEW age, Linked(head, next, S, age),
           NEW new \in Addrs \ S, NEW next2 \in [Addrs -> Links], NEW age2 \in [Addrs -> Nat],
           next2[new] = head, \A a \in S : next2[a] = next[a],
           age2[new] = 0, \A a \in S : age2[a] = age[a] + 1
    PROVE  Linked(new, next2, S \cup {new}, age2)
<1>0. 0 \notin Addrs
  BY HashAssumption DEF Addrs
<1>1. \A a \in S : a \in Addrs /\ age[a] \in Nat /\ next[a] \in S \cup {0}
  BY DEF Linked
<1>2. ASSUME NEW a \in S \cup {new}
      PROVE  /\ next2[a] \in S \cup {0}
             /\ next2[a] # 0 => age2[a] < age2[next2[a]]
             /\ a = new \/ \E p \in S \cup {new} : next2[p] = a
  <2>1. CASE a = new
    <3>1. head # 0 => age2[head] = age[head] + 1 /\ age[head] \in Nat
      BY <1>1 DEF Linked
    <3> QED  BY <2>1, <3>1 DEF Linked
  <2>2. CASE a # new
    <3>1. next[a] # 0 => age[a] < age[next[a]] /\ age[next[a]] \in Nat
      BY <1>1, <2>2 DEF Linked
    <3>2. a = head \/ \E p \in S : next[p] = a
      BY <2>2 DEF Linked
    <3> QED  BY <1>1, <2>2, <3>1, <3>2
  <2> QED  BY <2>1, <2>2
<1>3. ASSUME NEW p \in S \cup {new}, NEW q \in S \cup {new}, next2[p] = next2[q], next2[p] # 0
      PROVE  p = q
  BY <1>3 DEF Linked
<1>4. \A p \in S \cup {new} : next2[p] # 0 => next2[p] # new
  BY <1>2
<1> QED  BY <1>2, <1>3, <1>4 DEF Linked

\* ... the first one goes, ...
LEMMA LinkedDropFirst ==
    ASSUME NEW head, NEW next, NEW S, NEW age, Linked(head, next, S, age), head # 0,
           NEW next2 \in [Addrs -> Links], \A a \in S \ {head} : next2[a] = next[a]
    PROVE  Linked(next[head], next2, S \ {head}, age)
<1>0. 0 \notin Addrs
  BY HashAssumption DEF Addrs
<1>1. head \in S /\ \A a \in S : next[a] \in S \cup {0} /\ a # 0 /\ (next[a] # 0 => next[a] # head)
  BY <1>0 DEF Linked
<1>2. \A a \in S \ {head} : a = next[head] \/ \E p \in S \ {head} : next2[p] = a
  <2> SUFFICES ASSUME NEW a \in S \ {head}, a # next[head]
               PROVE  \E p \in S \ {head} : next2[p] = a
    OBVIOUS
  <2>1. PICK p \in S : next[p] = a
    BY DEF Linked
  <2> QED  BY <2>1
<1>3. next[head] \in (S \ {head}) \cup {0}
  BY <1>1
<1>4. \A a \in S \ {head} : /\ next2[a] \in (S \ {head}) \cup {0}
                            /\ next2[a] # 0 => age[a] < age[next2[a]]
  BY <1>1 DEF Linked
<1>5. \A p, q \in S \ {head} : next2[p] = next2[q] /\ next2[p] # 0 => p = q
  BY DEF Linked
<1>6. \A p \in S \ {head} : next2[p] # 0 => next2[p] # next[head]
  BY <1>1 DEF Linked
<1>7. S \ {head} \subseteq Addrs /\ age \in [Addrs -> Nat]
  BY DEF Linked
<1> QED  BY <1>2, <1>3, <1>4, <1>5, <1>6, <1>7 DEF Linked

\* ... the one behind p goes, ...
LEMMA LinkedDropNext ==
    ASSUME NEW head, NEW next, NEW S, NEW age, Linked(head, next, S, age),
           NEW p \in S, next[p] # 0,
           NEW next2 \in [Addrs -> Links], next2[p] = next[next[p]],
           \A a \in S \ {p, next[p]} : next2[a] = next[a]
    PROVE  p # next[p] /\ head # next[p] /\ Linked(head, next2, S \ {next[p]}, age)
<1> DEFINE g == next[p]
<1>0. 0 \notin Addrs
  BY HashAssumption DEF Addrs
<1>1. g \in S /\ g # 0 /\ g # head /\ age[p] < age[g]
  BY DEF Linked
<1>2. /\ \A a \in S : age[a] \in Nat /\ a # 0 /\ next[a] \in S \cup {0}
      /\ \A a \in S : next[a] # 0 => age[a] < age[next[a]] /\ next[a] # head
      /\ \A a \in S : a # p => next[a] # g
  BY <1>0, <1>1 DEF Linked
<1>3. p # g
  BY <1>1, <1>2
<1>4. next[g] # g /\ (next[g] # 0 => age[p] < age[next[g]])
  <2>1. next[g] # 0 => age[g] < age[next[g]] /\ age[next[g]] \in Nat
    BY <1>1, <1>2
  <2>2. age[g] \in Nat /\ age[p] \in Nat
    BY <1>1, <1>2
  <2> QED  BY <1>1, <2>1, <2>2
<1>5. next2[p] = next[g] /\ \A a \in S \ {p, g} : next2[a] = next[a]
  OBVIOUS
<1> HIDE DEF g
<1>6. ASSUME NEW a \in S \ {g}
      PROVE  /\ next2[a] \in (S \ {g}) \cup {0}
             /\ next2[a] # 0 => age[a] < age[next2[a]] /\ next2[a] # head
             /\ a = head \/ \E q \in S \ {g} : next2[q] = a
  <2>1. /\ next2[a] \in (S \ {g}) \cup {0}
        /\ next2[a] # 0 => age[a] < age[next2[a]] /\ next2[a] # head
    BY <1>1, <1>2, <1>4, <1>5
  <2>2. ASSUME a # head  PROVE \E q \in S \ {g} : next2[q] = a
    <3>1. PICK q \in S : next[q] = a
      BY <2>2 DEF Linked
    <3>2. CASE q = g
      BY <1>3, <1>5, <3>1, <3>2
    <3>3. CASE q # g
      <4>1. q # p
        BY <3>1 DEF g
      <4> QED  BY <1>5, <3>1, <3>3, <4>1
    <3> QED  BY <3>2, <3>3
  <2> QED  BY <2>1, <2>2
<1>7. ASSUME NEW x \in S \ {g}, NEW y \in S \ {g}, next2[x] = next2[y], next2[x] # 0
      PROVE  x = y
  <2>1. \A u, v \in S : next[u] = next[v] /\ next[u] # 0 => u = v
    BY DEF Linked
  <2>2. CASE x = p /\ y # p
    BY <1>1, <1>5, <1>7, <2>1, <2>2
  <2>3. CASE y = p /\ x # p
    BY <1>1, <1>5, <1>7, <2>1, <2>3
  <2>4. CASE x # p /\ y # p
    BY <1>5, <1>7, <2>1, <2>4
  <2> QED  BY <2>2, <2>3, <2>4
<1>8. /\ S \ {g} \subseteq Addrs /\ age \in [Addrs -> Nat] /\ head \in (S \ {g}) \cup {0}
  BY <1>1 DEF Linked
<1>9. Linked(head, next2, S \ {g}, age)
  BY <1>6, <1>7, <1>8 DEF Linked
<1> QED  BY <1>1, <1>3, <1>9 DEF g

\* ... or others change.
LEMMA LinkedKept ==
    ASSUME NEW head, NEW next, NEW S, NEW age, Linked(head, next, S, age),
           NEW next2 \in [Addrs -> Links], NEW age2 \in [Addrs -> Nat],
           \A a \in S : next2[a] = next[a],
           \A a, b \in S : age[a] < age[b] => age2[a] < age2[b]
    PROVE  Linked(head, next2, S, age2)
BY DEF Linked

-----------------------------------------------------------------------------
(* The table.                                                              *)

ItemType  == [key : Int, content : Nat, next : Links, lnext : Links, lprev : Links]
TableType == [first : Links, table : [Buckets -> Links], item : [Addrs -> ItemType]]

InBucket(h, b) == {a \in Allocated(h) : h.item[a].key % HashSize = b}

\* Items have keys of their own, and contents.
Keyed(h) ==
    /\ \A a \in Allocated(h) : h.item[a].key \in Nat /\ h.item[a].content # 0
    /\ \A a, b \in Allocated(h) : h.item[a].key = h.item[b].key => a = b

\* lprev undoes lnext.
BackLinked(h) ==
    \A a \in Allocated(h) :
        /\ h.item[a].lnext # 0 => h.item[h.item[a].lnext].lprev = a
        /\ h.item[a].lprev = 0 <=> h.first = a

\* An item comes to the front of its bucket and of the list: one age will do
\* for both.
Joined(h, age) ==
    /\ \A b \in Buckets : Linked(h.table[b], NextOf(h), InBucket(h, b), age)
    /\ Linked(h.first, LnextOf(h), Allocated(h), age)

TableInv(h) ==
    /\ h \in TableType /\ Keyed(h) /\ BackLinked(h)
    /\ \E age \in [Addrs -> Nat] : Joined(h, age)

\* NULL is no address.
LEMMA AddrsAre ==
    /\ MaxItems \in Nat /\ 0 \in 0 .. MaxItems /\ 0 \notin Addrs /\ Addrs \subseteq Nat
    /\ HashSize \in Nat \ {0}
BY HashAssumption DEF Addrs

\* The bucket of a key is there.
LEMMA BucketIs == ASSUME NEW key \in Nat  PROVE key % HashSize \in Buckets
<1>1. HashSize \in Nat /\ HashSize > 0
  BY HashAssumption
<1>2. key % HashSize \in 0 .. HashSize - 1
  BY <1>1
<1> QED  BY <1>2 DEF Buckets

\* The fields of a table.
LEMMA FieldsAre ==
    ASSUME NEW h \in TableType
    PROVE  /\ h.first \in Links /\ h.table \in [Buckets -> Links] /\ h.item \in [Addrs -> ItemType]
           /\ h = [first |-> h.first, table |-> h.table, item |-> h.item]
           /\ NextOf(h) \in [Addrs -> Links] /\ LnextOf(h) \in [Addrs -> Links]
           /\ \A a \in Addrs : NextOf(h)[a] = h.item[a].next /\ LnextOf(h)[a] = h.item[a].lnext
           /\ \A a \in Addrs :
                /\ h.item[a] \in ItemType
                /\ h.item[a].key \in Int /\ h.item[a].content \in Nat
                /\ h.item[a].next \in Links /\ h.item[a].lnext \in Links /\ h.item[a].lprev \in Links
<1>1. h.first \in Links /\ h.table \in [Buckets -> Links] /\ h.item \in [Addrs -> ItemType]
      /\ h = [first |-> h.first, table |-> h.table, item |-> h.item]
  BY DEF TableType
<1>2. \A a \in Addrs :
        /\ h.item[a] \in ItemType
        /\ h.item[a].key \in Int /\ h.item[a].content \in Nat
        /\ h.item[a].next \in Links /\ h.item[a].lnext \in Links /\ h.item[a].lprev \in Links
  BY <1>1 DEF ItemType
<1>3. /\ NextOf(h) \in [Addrs -> Links] /\ LnextOf(h) \in [Addrs -> Links]
      /\ \A a \in Addrs : NextOf(h)[a] = h.item[a].next /\ LnextOf(h)[a] = h.item[a].lnext
  BY <1>2 DEF NextOf, LnextOf
<1> QED  BY <1>1, <1>2, <1>3

\* What NoItem has in its fields, and that no item with a key is like it.
LEMMA NoItemIs ==
    /\ NoItem \in ItemType
    /\ \A i \in ItemType : i.key \in Nat => i # NoItem
<1>1. NoItem \in ItemType
  BY DEF NoItem, ItemType, Links
<1>2. NoItem.key = -1
  BY DEF NoItem
<1> QED  BY <1>1, <1>2

\* The items are those that have a key.
LEMMA AllocatedAre ==
    ASSUME NEW h, TableInv(h)
    PROVE  /\ Allocated(h) \subseteq Addrs
           /\ \A a \in Addrs : a \in Allocated(h) <=> h.item[a].key \in Nat
           /\ \A a \in Addrs : a \in Allocated(h) <=> h.item[a] # NoItem
<1>1. \A a \in Addrs : h.item[a].key \in Nat => h.item[a] # NoItem
  BY NoItemIs, FieldsAre DEF TableInv
<1>2. \A a \in Allocated(h) : h.item[a].key \in Nat
  BY DEF TableInv, Keyed
<1> QED  BY <1>1, <1>2 DEF Allocated

\* The way through a bucket meets its items and ends.
LEMMA ChainIs ==
    ASSUME NEW h, TableInv(h), NEW b \in Buckets
    PROVE  /\ \A n \in 0 .. MaxItems : Chain(h, b)[n] \in InBucket(h, b) \cup {0}
           /\ Steps(h.table[b], NextOf(h), Chain(h, b), MaxItems)
           /\ Chain(h, b)[MaxItems] = 0
           /\ \A a \in InBucket(h, b) : \E n \in 0 .. MaxItems : Chain(h, b)[n] = a
<1>1. PICK age : Linked(h.table[b], NextOf(h), InBucket(h, b), age)
  BY DEF TableInv, Joined
<1> QED  BY <1>1, WayIs DEF Chain

\* So does the list.
LEMMA WalkIs ==
    ASSUME NEW h, TableInv(h)
    PROVE  /\ \A n \in 0 .. MaxItems : Walk(h)[n] \in Allocated(h) \cup {0}
           /\ Walk(h)[MaxItems] = 0
           /\ \A a \in Allocated(h) : \E n \in 0 .. MaxItems : Walk(h)[n] = a
<1>1. PICK age : Linked(h.first, LnextOf(h), Allocated(h), age)
  BY DEF TableInv, Joined
<1> QED  BY <1>1, WayIs DEF Walk

\* So the two ways through the table agree.
LEMMA TableWellLinked == ASSUME NEW h, TableInv(h)  PROVE WellLinked(h)
<1>0. 0 \notin Allocated(h)
  BY AddrsAre DEF Allocated
<1>1. Walk(h)[MaxItems] = 0 /\ Reached(Walk(h)) = Allocated(h)
  BY <1>0, WalkIs DEF Reached
<1>2. ASSUME NEW b \in Buckets
      PROVE  Chain(h, b)[MaxItems] = 0 /\ Reached(Chain(h, b)) = InBucket(h, b)
  <2>1. 0 \notin InBucket(h, b)
    BY <1>0 DEF InBucket
  <2> QED  BY <2>1, ChainIs DEF Reached
<1>3. BackLinked(h) /\ Keyed(h)
  BY DEF TableInv
<1> QED  BY <1>1, <1>2, <1>3 DEF WellLinked, BackLinked, Keyed, InBucket

\* hashtbl_seek64 finds the item with the key, if there is one ...
LEMMA FoundIs ==
    ASSUME NEW h, TableInv(h), NEW a \in Allocated(h), NEW key, h.item[a].key = key
    PROVE  /\ Found(h, key) # {} /\ Min(Found(h, key)) \in 0 .. MaxItems
           /\ Chain(h, key % HashSize)[Min(Found(h, key))] = a
           /\ Seek(h, key) = h.item[a].content
<1> DEFINE b == key % HashSize
           c == Chain(h, b)
           F == Found(h, key)
<1>0. key \in Nat /\ b \in Buckets /\ a \in InBucket(h, b)
  BY BucketIs DEF TableInv, Keyed, InBucket
<1>1. /\ \A n \in 0 .. MaxItems : c[n] \in InBucket(h, b) \cup {0}
      /\ \E n \in 0 .. MaxItems : c[n] = a
  BY <1>0, ChainIs
<1>2. F = {n \in 0 .. MaxItems : c[n] # 0 /\ h.item[c[n]].key = key}
  BY DEF Found
<1>3. a # 0
  BY AddrsAre DEF Allocated
<1> HIDE DEF c, F, b
<1>4. F # {} /\ F \in SUBSET Nat
  BY <1>1, <1>2, <1>3, AddrsAre
<1>5. Min(F) \in F
  BY <1>4, MinIs
<1>6. Min(F) \in 0 .. MaxItems /\ c[Min(F)] \in Allocated(h) /\ h.item[c[Min(F)]].key = key
  BY <1>1, <1>2, <1>5 DEF InBucket
<1>7. c[Min(F)] = a
  BY <1>6 DEF TableInv, Keyed
<1> QED  BY <1>4, <1>6, <1>7 DEF Seek, c, F, b

\* ... and NULL if there is none.
LEMMA NotFoundIs ==
    ASSUME NEW h, TableInv(h), NEW key \in Nat, \A a \in Allocated(h) : h.item[a].key # key
    PROVE  Found(h, key) = {} /\ Seek(h, key) = 0
<1>1. \A n \in 0 .. MaxItems :
        Chain(h, key % HashSize)[n] \in InBucket(h, key % HashSize) \cup {0}
  BY BucketIs, ChainIs
<1>2. Found(h, key) = {}
  BY <1>1 DEF Found, InBucket
<1> QED  BY <1>2 DEF Seek

\* Which key is there shows in what hashtbl_seek64 returns.
LEMMA SeekShows ==
    ASSUME NEW h, TableInv(h), NEW key \in Nat
    PROVE  /\ Seek(h, key) \in Nat
           /\ Seek(h, key) # 0 <=> \E a \in Allocated(h) : h.item[a].key = key
           /\ Seek(h, key) # 0 <=> Found(h, key) # {}
           /\ Seek(h, key) # 0 =>
                \E a \in Allocated(h) : h.item[a].key = key /\ h.item[a].content = Seek(h, key)
<1>1. \A a \in Allocated(h) : h.item[a].content \in Nat \ {0}
  BY AllocatedAre, FieldsAre DEF TableInv, Keyed
<1>2. CASE \E a \in Allocated(h) : h.item[a].key = key
  BY <1>1, <1>2, FoundIs
<1>3. CASE \A a \in Allocated(h) : h.item[a].key # key
  BY <1>3, NotFoundIs
<1> QED  BY <1>2, <1>3

\* The table is empty at first.
LEMMA HashInitIs == TableInv(HashInit) /\ Allocated(HashInit) = {}
<1> DEFINE h == HashInit
<1>1. /\ h \in TableType /\ Allocated(h) = {}
      /\ h.first = 0 /\ \A b \in Buckets : h.table[b] = 0
  BY NoItemIs DEF HashInit, TableType, Allocated, Links
<1> HIDE DEF h
<1> DEFINE age == [a \in Addrs |-> 0]
<1>2. Linked(0, NextOf(h), {}, age) /\ Linked(0, LnextOf(h), {}, age)
  BY <1>1, FieldsAre DEF Linked
<1>3. \A b \in Buckets : InBucket(h, b) = {}
  BY <1>1 DEF InBucket
<1>4. Joined(h, age) /\ age \in [Addrs -> Nat]
  BY <1>1, <1>2, <1>3 DEF Joined
<1>5. Keyed(h) /\ BackLinked(h)
  BY <1>1 DEF Keyed, BackLinked
<1> QED  BY <1>1, <1>4, <1>5 DEF TableInv, h

-----------------------------------------------------------------------------
(* Items whose links are set.                                              *)

\* Item c of g is that of f but for a field.
SetsNext(f, g, c, v) ==
    /\ g \in [Addrs -> ItemType] /\ g[c].next = v
    /\ \A a \in Addrs : g[a].key = f[a].key /\ g[a].content = f[a].content
                        /\ g[a].lnext = f[a].lnext /\ g[a].lprev = f[a].lprev
    /\ \A a \in Addrs : a # c => g[a] = f[a]

SetsLnext(f, g, c, v) ==
    /\ g \in [Addrs -> ItemType] /\ g[c].lnext = v
    /\ \A a \in Addrs : g[a].key = f[a].key /\ g[a].content = f[a].content
                        /\ g[a].next = f[a].next /\ g[a].lprev = f[a].lprev
    /\ \A a \in Addrs : a # c => g[a] = f[a]

SetsLprev(f, g, c, v) ==
    /\ g \in [Addrs -> ItemType] /\ g[c].lprev = v
    /\ \A a \in Addrs : g[a].key = f[a].key /\ g[a].content = f[a].content
                        /\ g[a].next = f[a].next /\ g[a].lnext = f[a].lnext
    /\ \A a \in Addrs : a # c => g[a] = f[a]

\* One item put in the place of another.
LEMMA ItemPut ==
    ASSUME NEW f \in [Addrs -> ItemType], NEW c \in Addrs, NEW i \in ItemType
    PROVE  /\ [f EXCEPT ![c] = i] \in [Addrs -> ItemType]
           /\ [f EXCEPT ![c] = i][c] = i
           /\ \A a \in Addrs : a # c => [f EXCEPT ![c] = i][a] = f[a]
<1> HIDE DEF ItemType
<1> QED  OBVIOUS

LEMMA NextSet ==
    ASSUME NEW f \in [Addrs -> ItemType], NEW c \in Addrs, NEW v \in Links
    PROVE  SetsNext(f, [f EXCEPT ![c].next = v], c, v)
<1> DEFINE i == [f[c] EXCEPT !.next = v]
           g == [f EXCEPT ![c] = i]
<1>0. g = [f EXCEPT ![c].next = v]
  OBVIOUS
<1>1. f[c] \in ItemType
  OBVIOUS
<1>2. /\ i \in ItemType /\ i.next = v /\ i.key = f[c].key /\ i.content = f[c].content
      /\ i.lnext = f[c].lnext /\ i.lprev = f[c].lprev
  BY <1>1 DEF ItemType
<1> HIDE DEF i
<1>3. g \in [Addrs -> ItemType] /\ g[c] = i /\ \A a \in Addrs : a # c => g[a] = f[a]
  BY <1>2, ItemPut
<1> HIDE DEF g
<1>4. SetsNext(f, g, c, v)
  BY <1>2, <1>3 DEF SetsNext
<1> QED  BY <1>0, <1>4

LEMMA LnextSet ==
    ASSUME NEW f \in [Addrs -> ItemType], NEW c \in Addrs, NEW v \in Links
    PROVE  SetsLnext(f, [f EXCEPT ![c].lnext = v], c, v)
<1> DEFINE i == [f[c] EXCEPT !.lnext = v]
           g == [f EXCEPT ![c] = i]
<1>0. g = [f EXCEPT ![c].lnext = v]
  OBVIOUS
<1>1. f[c] \in ItemType
  OBVIOUS
<1>2. /\ i \in ItemType /\ i.lnext = v /\ i.key = f[c].key /\ i.content = f[c].content
      /\ i.next = f[c].next /\ i.lprev = f[c].lprev
  BY <1>1 DEF ItemType
<1> HIDE DEF i
<1>3. g \in [Addrs -> ItemType] /\ g[c] = i /\ \A a \in Addrs : a # c => g[a] = f[a]
  BY <1>2, ItemPut
<1> HIDE DEF g
<1>4. SetsLnext(f, g, c, v)
  BY <1>2, <1>3 DEF SetsLnext
<1> QED  BY <1>0, <1>4

LEMMA LprevSet ==
    ASSUME NEW f \in [Addrs -> ItemType], NEW c \in Addrs, NEW v \in Links
    PROVE  SetsLprev(f, [f EXCEPT ![c].lprev = v], c, v)
<1> DEFINE i == [f[c] EXCEPT !.lprev = v]
           g == [f EXCEPT ![c] = i]
<1>0. g = [f EXCEPT ![c].lprev = v]
  OBVIOUS
<1>1. f[c] \in ItemType
  OBVIOUS
<1>2. /\ i \in ItemType /\ i.lprev = v /\ i.key = f[c].key /\ i.content = f[c].content
      /\ i.next = f[c].next /\ i.lnext = f[c].lnext
  BY <1>1 DEF ItemType
<1> HIDE DEF i
<1>3. g \in [Addrs -> ItemType] /\ g[c] = i /\ \A a \in Addrs : a # c => g[a] = f[a]
  BY <1>2, ItemPut
<1> HIDE DEF g
<1>4. SetsLprev(f, g, c, v)
  BY <1>2, <1>3 DEF SetsLprev
<1> QED  BY <1>0, <1>4

-----------------------------------------------------------------------------
(* hashtbl_append64, of a key that is not there.                           *)

\* Table g is table h with item new in front.
Appended(h, g, key, content, new) ==
    /\ g \in TableType /\ g.first = new
    /\ g.table = [h.table EXCEPT ![key % HashSize] = new]
    /\ g.item[new].key = key /\ g.item[new].content = content /\ g.item[new].lprev = 0
    /\ g.item[new].next = h.table[key % HashSize] /\ g.item[new].lnext = h.first
    /\ \A a \in Addrs \ {new} :
         /\ g.item[a].key = h.item[a].key /\ g.item[a].content = h.item[a].content
         /\ g.item[a].next = h.item[a].next /\ g.item[a].lnext = h.item[a].lnext
         /\ g.item[a].lprev = IF a = h.first THEN new ELSE h.item[a].lprev
         /\ a # h.first => g.item[a] = h.item[a]

LEMMA AppendFields ==
    ASSUME NEW h, TableInv(h), NEW key \in Nat, Found(h, key) = {}, NEW content \in Nat \ {0},
           Allocated(h) # Addrs
    PROVE  /\ Append64(h, key, content).cleaned = {}
           /\ \E new \in Addrs \ Allocated(h) :
                Appended(h, Append64(h, key, content).h, key, content, new)
<1> DEFINE b == key % HashSize
           new == NewAddr(key, Allocated(h))
           i == [key |-> key, content |-> content, next |-> h.table[b],
                 lnext |-> h.first, lprev |-> 0]
           linked == [h.item EXCEPT ![new] = i]
           item == IF h.first = 0 THEN linked ELSE [linked EXCEPT ![h.first].lprev = new]
           g == [first |-> new, table |-> [h.table EXCEPT ![b] = new], item |-> item]
<1>1. Append64(h, key, content) = [h |-> g, cleaned |-> {}]
  BY DEF Append64
<1>2. new \in Addrs \ Allocated(h)
  <2>1. Addrs \ Allocated(h) \in SUBSET Nat /\ Addrs \ Allocated(h) # {}
    BY AllocatedAre, AddrsAre
  <2> QED  BY <2>1, MinIs DEF NewAddr
<1> HIDE DEF new
<1>3. /\ h \in TableType /\ h.first \in Links /\ h.table \in [Buckets -> Links]
      /\ h.item \in [Addrs -> ItemType] /\ b \in Buckets
  BY BucketIs, FieldsAre DEF TableInv
<1> HIDE DEF b
<1>4. /\ i \in ItemType /\ i.key = key /\ i.content = content /\ i.next = h.table[b]
      /\ i.lnext = h.first /\ i.lprev = 0
  BY <1>3, AddrsAre DEF ItemType, Links
<1> HIDE DEF i
<1>5. linked \in [Addrs -> ItemType] /\ linked[new] = i
      /\ \A a \in Addrs : a # new => linked[a] = h.item[a]
  BY <1>2, <1>3, <1>4, ItemPut
<1> HIDE DEF linked
<1>6. h.first # new
  <2>1. PICK age : Linked(h.first, LnextOf(h), Allocated(h), age)
    BY DEF TableInv, Joined
  <2>2. h.first \in Allocated(h) \cup {0}
    BY <2>1 DEF Linked
  <2> QED  BY <1>2, <2>2, AddrsAre
<1>7. /\ item \in [Addrs -> ItemType] /\ item[new] = i
      /\ \A a \in Addrs \ {new} :
           /\ item[a].key = h.item[a].key /\ item[a].content = h.item[a].content
           /\ item[a].next = h.item[a].next /\ item[a].lnext = h.item[a].lnext
           /\ item[a].lprev = IF a = h.first THEN new ELSE h.item[a].lprev
           /\ a # h.first => item[a] = h.item[a]
  <2>1. CASE h.first = 0
    BY <1>5, <2>1, AddrsAre
  <2>2. CASE h.first # 0
    <3>1. h.first \in Addrs /\ new \in Links /\ new \in Addrs
      BY <1>2, <1>3, <2>2 DEF Links
    <3>2. SetsLprev(linked, [linked EXCEPT ![h.first].lprev = new], h.first, new)
      BY <1>5, <3>1, LprevSet
    <3>3. SetsLprev(linked, item, h.first, new)
      BY <2>2, <3>2
    <3> HIDE DEF item
    <3> QED  BY <1>5, <1>6, <3>1, <3>3 DEF SetsLprev
  <2> QED  BY <2>1, <2>2
<1> HIDE DEF item
<1>8. g \in TableType /\ g.first = new /\ g.table = [h.table EXCEPT ![b] = new] /\ g.item = item
  BY <1>2, <1>3, <1>7 DEF TableType, Links
<1> HIDE DEF g
<1>9. Appended(h, g, key, content, new)
  BY <1>4, <1>7, <1>8 DEF Appended, b
<1> QED  BY <1>1, <1>2, <1>9

\* The table stays well linked.
LEMMA AppendedInv ==
    ASSUME NEW h, TableInv(h), NEW key \in Nat, Found(h, key) = {}, NEW content \in Nat \ {0},
           NEW g, NEW new \in Addrs \ Allocated(h), Appended(h, g, key, content, new)
    PROVE  TableInv(g) /\ Allocated(g) = Allocated(h) \cup {new}
<1> DEFINE b == key % HashSize
           A == Allocated(h)
<1>0. /\ b \in Buckets /\ new \in Addrs /\ new \notin A /\ new # 0
      /\ h \in TableType /\ g \in TableType
  BY BucketIs, AddrsAre DEF TableInv, Appended
<1>1. /\ g.first = new /\ g.table = [h.table EXCEPT ![b] = new]
      /\ g.item[new].key = key /\ g.item[new].content = content /\ g.item[new].lprev = 0
      /\ g.item[new].next = h.table[b] /\ g.item[new].lnext = h.first
  BY DEF Appended
<1>2. \A a \in Addrs \ {new} :
        /\ g.item[a].key = h.item[a].key /\ g.item[a].content = h.item[a].content
        /\ g.item[a].next = h.item[a].next /\ g.item[a].lnext = h.item[a].lnext
        /\ g.item[a].lprev = IF a = h.first THEN new ELSE h.item[a].lprev
        /\ a # h.first => g.item[a] = h.item[a]
  BY DEF Appended
<1>3. /\ A \subseteq Addrs
      /\ \A a \in Addrs : a \in A <=> h.item[a].key \in Nat
      /\ \A a \in Addrs : a \in A <=> h.item[a] # NoItem
  BY AllocatedAre
<1>4. h.first \in A \cup {0}
  BY DEF TableInv, Joined, Linked
<1>5. Allocated(g) = A \cup {new}
  <2>1. \A a \in Addrs : g.item[a].key \in Nat => g.item[a] # NoItem
    BY <1>0, NoItemIs, FieldsAre
  <2>2. ASSUME NEW a \in Addrs  PROVE a \in A \cup {new} <=> g.item[a] # NoItem
    <3>1. CASE a = new
      BY <1>1, <2>1, <3>1
    <3>2. CASE a # new /\ a \in A
      BY <1>2, <1>3, <2>1, <3>2
    <3>3. CASE a # new /\ a \notin A
      <4>1. a # h.first
        BY <1>4, <3>3, AddrsAre
      <4> QED  BY <1>2, <1>3, <3>3, <4>1
    <3> QED  BY <3>1, <3>2, <3>3
  <2> QED  BY <1>0, <1>3, <2>2 DEF Allocated
<1>6. \A c \in A : h.item[c].key # key
  BY FoundIs
<1>7. Keyed(h) /\ BackLinked(h)
  BY DEF TableInv
<1>8. Keyed(g)
  <2>1. \A a \in A : a # new /\ g.item[a].key = h.item[a].key /\ g.item[a].content = h.item[a].content
    BY <1>0, <1>2, <1>3
  <2> QED  BY <1>1, <1>5, <1>6, <1>7, <2>1 DEF Keyed
<1>9. PICK age \in [Addrs -> Nat] : Joined(h, age)
  BY DEF TableInv
<1>10. Linked(h.first, LnextOf(h), A, age)
  BY <1>9 DEF Joined
<1>11. BackLinked(g)
  <2>1. ASSUME NEW a \in A
        PROVE  /\ g.item[a].lnext # 0 => g.item[g.item[a].lnext].lprev = a
               /\ g.item[a].lprev = 0 <=> g.first = a
    <3>1. a \in Addrs /\ a # new /\ g.item[a].lnext = h.item[a].lnext
          /\ g.item[a].lprev = (IF a = h.first THEN new ELSE h.item[a].lprev)
      BY <1>0, <1>2, <1>3
    <3>2. g.item[a].lprev = 0 <=> g.first = a
      BY <1>0, <1>1, <1>7, <3>1 DEF BackLinked
    <3>3. ASSUME h.item[a].lnext # 0  PROVE g.item[h.item[a].lnext].lprev = a
      <4> DEFINE c == h.item[a].lnext
      <4>1. LnextOf(h)[a] = c
        BY <1>0, <3>1, FieldsAre
      <4>2. c \in A /\ c # h.first
        BY <1>10, <3>3, <4>1 DEF Linked
      <4>3. h.item[c].lprev = a
        BY <1>7, <3>3 DEF BackLinked
      <4>4. c \in Addrs /\ c # new
        BY <1>0, <1>3, <4>2
      <4> QED  BY <1>2, <4>2, <4>3, <4>4
    <3> QED  BY <3>1, <3>2, <3>3
  <2>2. g.item[new].lnext # 0 => g.item[g.item[new].lnext].lprev = new
    BY <1>1, <1>2, <1>3, <1>4, <1>0
  <2> QED  BY <1>1, <1>5, <2>1, <2>2 DEF BackLinked
<1> DEFINE age2 == [a \in Addrs |-> IF a = new THEN 0 ELSE age[a] + 1]
<1>12. /\ age2 \in [Addrs -> Nat] /\ age2[new] = 0
       /\ \A a \in A : age2[a] = age[a] + 1
  <2>1. \A a \in Addrs : age[a] + 1 \in Nat
    OBVIOUS
  <2> QED  BY <1>0, <1>3, <2>1
<1> HIDE DEF age2
<1>13. /\ NextOf(g) \in [Addrs -> Links] /\ LnextOf(g) \in [Addrs -> Links]
       /\ NextOf(g)[new] = h.table[b] /\ LnextOf(g)[new] = h.first
       /\ \A a \in A : NextOf(g)[a] = NextOf(h)[a] /\ LnextOf(g)[a] = LnextOf(h)[a]
  <2>1. \A a \in A : a \in Addrs \ {new}
    BY <1>0, <1>3
  <2> QED  BY <1>0, <1>1, <1>2, <2>1, FieldsAre
<1>14. Linked(g.first, LnextOf(g), Allocated(g), age2)
  BY <1>0, <1>1, <1>5, <1>10, <1>12, <1>13, LinkedPush
<1>15. ASSUME NEW d \in Buckets
       PROVE  Linked(g.table[d], NextOf(g), InBucket(g, d), age2)
  <2>1. Linked(h.table[d], NextOf(h), InBucket(h, d), age)
    BY <1>9 DEF Joined
  <2>2. \A a \in A : g.item[a].key = h.item[a].key
    BY <1>0, <1>2, <1>3
  <2>3. InBucket(h, d) \subseteq A
    BY DEF InBucket
  <2>4. h.table \in [Buckets -> Links]
    BY <1>0, FieldsAre
  <2>5. CASE d = b
    <3>1. InBucket(g, d) = InBucket(h, d) \cup {new} /\ g.table[d] = new
      BY <1>1, <1>5, <2>2, <2>4, <2>5 DEF InBucket
    <3>2. new \in Addrs \ InBucket(h, d)
      BY <1>0, <2>3
    <3>3. NextOf(g)[new] = h.table[d] /\ \A a \in InBucket(h, d) : NextOf(g)[a] = NextOf(h)[a]
      BY <1>13, <2>3, <2>5
    <3>4. \A a \in InBucket(h, d) : age2[a] = age[a] + 1
      BY <1>12, <2>3
    <3>5. Linked(new, NextOf(g), InBucket(h, d) \cup {new}, age2)
      BY <1>12, <1>13, <2>1, <3>2, <3>3, <3>4, LinkedPush
    <3> QED  BY <3>1, <3>5
  <2>6. CASE d # b
    <3>1. InBucket(g, d) = InBucket(h, d) /\ g.table[d] = h.table[d]
      BY <1>1, <1>5, <2>2, <2>4, <2>6 DEF InBucket
    <3>2. \A a \in InBucket(h, d) : NextOf(g)[a] = NextOf(h)[a]
      BY <1>13, <2>3
    <3>3. \A a, c \in InBucket(h, d) : age[a] < age[c] => age2[a] < age2[c]
      <4>1. \A a \in InBucket(h, d) : age2[a] = age[a] + 1 /\ age[a] \in Nat
        BY <1>3, <1>12, <2>3
      <4> QED  BY <4>1
    <3>4. Linked(h.table[d], NextOf(g), InBucket(h, d), age2)
      BY <1>12, <1>13, <2>1, <3>2, <3>3, LinkedKept
    <3> QED  BY <3>1, <3>4
  <2> QED  BY <2>5, <2>6
<1>16. Joined(g, age2)
  BY <1>14, <1>15 DEF Joined
<1> QED  BY <1>0, <1>5, <1>8, <1>11, <1>12, <1>16 DEF TableInv

-----------------------------------------------------------------------------
(* hashtbl_erase64.                                                        *)

\* Table g is table h without item a, which p points at, or else its bucket.
Erased(h, g, a, p) ==
    /\ g \in TableType /\ g.item[a] = NoItem
    /\ g.first = IF h.item[a].lprev = 0 THEN h.item[a].lnext ELSE h.first
    /\ g.table = IF p = 0 THEN [h.table EXCEPT ![h.item[a].key % HashSize] = h.item[a].next]
                 ELSE h.table
    /\ \A c \in Addrs \ {a} :
         /\ g.item[c].key = h.item[c].key /\ g.item[c].content = h.item[c].content
         /\ g.item[c].next = IF c = p THEN h.item[a].next ELSE h.item[c].next
         /\ g.item[c].lnext = IF c = h.item[a].lprev THEN h.item[a].lnext ELSE h.item[c].lnext
         /\ g.item[c].lprev = IF c = h.item[a].lnext THEN h.item[a].lprev ELSE h.item[c].lprev

\* The fields the removal of an item from its bucket and from the list sets.
LEMMA UnlinkFields ==
    ASSUME NEW h \in TableType, NEW a \in Addrs, NEW b \in Buckets, NEW n \in 0 .. MaxItems,
           Chain(h, b)[n] = a, b = h.item[a].key % HashSize,
           NEW p \in Links, p = IF n = 0 THEN 0 ELSE Chain(h, b)[n - 1],
           n # 0 => p # 0, p # a, h.item[a].lprev # a, h.item[a].lnext # a
    PROVE  Erased(h, [ListUnlink(ChainUnlink(h, b, n), a) EXCEPT !.item[a] = NoItem], a, p)
<1> DEFINE f == h.item
           nx == f[a].next
           ln == f[a].lnext
           lp == f[a].lprev
           f1 == IF n = 0 THEN f ELSE [f EXCEPT ![p].next = nx]
           t1 == IF n = 0 THEN [h.table EXCEPT ![b] = nx] ELSE h.table
           h1 == [first |-> h.first, table |-> t1, item |-> f1]
           f2 == IF lp = 0 THEN f1 ELSE [f1 EXCEPT ![lp].lnext = ln]
           f3 == IF ln = 0 THEN f2 ELSE [f2 EXCEPT ![ln].lprev = lp]
           first3 == IF lp = 0 THEN ln ELSE h.first
           h3 == [first |-> first3, table |-> t1, item |-> f3]
           f4 == [f3 EXCEPT ![a] = NoItem]
           g == [first |-> first3, table |-> t1, item |-> f4]
<1>1. /\ h.first \in Links /\ h.table \in [Buckets -> Links] /\ f \in [Addrs -> ItemType]
      /\ h = [first |-> h.first, table |-> h.table, item |-> f]
      /\ nx \in Links /\ ln \in Links /\ lp \in Links
  BY FieldsAre
<1>2. ChainUnlink(h, b, n) = h1
  <2>1. CASE n = 0
    <3>1. ChainUnlink(h, b, n) = [h EXCEPT !.table[b] = nx]
      BY <2>1 DEF ChainUnlink
    <3> QED  BY <1>1, <2>1, <3>1
  <2>2. CASE n # 0
    <3>1. ChainUnlink(h, b, n) = [h EXCEPT !.item[p].next = nx]
      BY <2>2 DEF ChainUnlink
    <3> QED  BY <1>1, <2>2, <3>1
  <2> QED  BY <2>1, <2>2
<1>3. /\ f1 \in [Addrs -> ItemType] /\ f1[a] = f[a]
      /\ \A c \in Addrs : /\ f1[c].key = f[c].key /\ f1[c].content = f[c].content
                          /\ f1[c].lnext = f[c].lnext /\ f1[c].lprev = f[c].lprev
                          /\ f1[c].next = IF c = p THEN nx ELSE f[c].next
  <2>1. CASE n = 0
    BY <1>1, <2>1, AddrsAre
  <2>2. CASE n # 0
    <3>1. p \in Addrs
      BY <2>2 DEF Links
    <3>2. SetsNext(f, [f EXCEPT ![p].next = nx], p, nx)
      <4> HIDE DEF f, nx
      <4> QED  BY <1>1, <3>1, NextSet
    <3>3. SetsNext(f, f1, p, nx)
      BY <2>2, <3>2
    <3> HIDE DEF f1, f, nx
    <3> QED  BY <3>1, <3>3 DEF SetsNext
  <2> QED  BY <2>1, <2>2
<1>4. ListUnlink(h1, a) = h3
  <2> HIDE DEF f1, t1
  <2>1. /\ h1.item[a].lprev = lp /\ h1.item[a].lnext = ln
        /\ h1.item = f1 /\ h1.first = h.first /\ h1.table = t1
    BY <1>3
  <2>2. ListUnlink(h1, a) = [h1 EXCEPT !.first = first3, !.item = f3]
    <3> HIDE DEF h1, lp, ln
    <3> QED  BY <2>1 DEF ListUnlink
  <2> HIDE DEF f3, first3
  <2> QED  BY <2>2
<1>5. [h3 EXCEPT !.item[a] = NoItem] = g
  <2> HIDE DEF f3, first3, t1
  <2> QED  OBVIOUS
<1> HIDE DEF f1
<1>6. /\ f2 \in [Addrs -> ItemType] /\ f2[a] = f[a]
      /\ \A c \in Addrs : /\ f2[c].key = f[c].key /\ f2[c].content = f[c].content
                          /\ f2[c].next = f1[c].next /\ f2[c].lprev = f[c].lprev
                          /\ f2[c].lnext = IF c = lp THEN ln ELSE f[c].lnext
  <2>1. CASE lp = 0
    BY <1>3, <2>1, AddrsAre
  <2>2. CASE lp # 0
    <3>1. lp \in Addrs /\ lp # a
      BY <1>1, <2>2 DEF Links
    <3>2. SetsLnext(f1, [f1 EXCEPT ![lp].lnext = ln], lp, ln)
      <4> HIDE DEF lp, ln
      <4> QED  BY <1>1, <1>3, <3>1, LnextSet
    <3>3. SetsLnext(f1, f2, lp, ln)
      BY <2>2, <3>2
    <3> HIDE DEF f2, lp, ln, f
    <3> QED  BY <1>3, <3>1, <3>3 DEF SetsLnext
  <2> QED  BY <2>1, <2>2
<1> HIDE DEF f2
<1>7. /\ f3 \in [Addrs -> ItemType]
      /\ \A c \in Addrs : /\ f3[c].key = f[c].key /\ f3[c].content = f[c].content
                          /\ f3[c].next = f1[c].next /\ f3[c].lnext = f2[c].lnext
                          /\ f3[c].lprev = IF c = ln THEN lp ELSE f[c].lprev
  <2>1. CASE ln = 0
    BY <1>6, <2>1, AddrsAre
  <2>2. CASE ln # 0
    <3>1. ln \in Addrs
      BY <1>1, <2>2 DEF Links
    <3>2. SetsLprev(f2, [f2 EXCEPT ![ln].lprev = lp], ln, lp)
      <4> HIDE DEF lp, ln
      <4> QED  BY <1>1, <1>6, <3>1, LprevSet
    <3>3. SetsLprev(f2, f3, ln, lp)
      BY <2>2, <3>2
    <3> HIDE DEF f3, lp, ln, f
    <3> QED  BY <1>6, <3>1, <3>3 DEF SetsLprev
  <2> QED  BY <2>1, <2>2
<1> HIDE DEF f3
<1>8. /\ f4 \in [Addrs -> ItemType] /\ f4[a] = NoItem
      /\ \A c \in Addrs : c # a => f4[c] = f3[c]
  BY <1>7, ItemPut, NoItemIs
<1> HIDE DEF f4
<1>9. t1 \in [Buckets -> Links] /\ first3 \in Links
  BY <1>1
<1>10. /\ t1 = IF p = 0 THEN [h.table EXCEPT ![b] = nx] ELSE h.table
  OBVIOUS
<1> HIDE DEF t1
<1>11. /\ first3 = IF h.item[a].lprev = 0 THEN h.item[a].lnext ELSE h.first
  OBVIOUS
<1> HIDE DEF first3
<1>12. g \in TableType /\ g.item = f4 /\ g.first = first3 /\ g.table = t1
  BY <1>8, <1>9 DEF TableType
<1> HIDE DEF g
<1>13. \A c \in Addrs \ {a} :
         /\ g.item[c].key = h.item[c].key /\ g.item[c].content = h.item[c].content
         /\ g.item[c].next = IF c = p THEN h.item[a].next ELSE h.item[c].next
         /\ g.item[c].lnext = IF c = h.item[a].lprev THEN h.item[a].lnext ELSE h.item[c].lnext
         /\ g.item[c].lprev = IF c = h.item[a].lnext THEN h.item[a].lprev ELSE h.item[c].lprev
  BY <1>3, <1>6, <1>7, <1>8, <1>12
<1>14. Erased(h, g, a, p)
  BY <1>8, <1>10, <1>11, <1>12, <1>13 DEF Erased
<1> QED  BY <1>2, <1>4, <1>5, <1>14 DEF g

\* What lprev names points back.
LEMMA BackIs ==
    ASSUME NEW h, TableInv(h), NEW a \in Allocated(h)
    PROVE  /\ h.item[a].lprev = 0 => h.first = a
           /\ h.item[a].lprev # 0 =>
                h.item[a].lprev \in Allocated(h) /\ h.item[h.item[a].lprev].lnext = a
           /\ h.item[a].lnext \in Allocated(h) \cup {0}
           /\ h.item[a].lprev # a /\ h.item[a].lnext # a
<1>1. PICK age \in [Addrs -> Nat] : Linked(h.first, LnextOf(h), Allocated(h), age)
  BY DEF TableInv, Joined
<1>2. BackLinked(h) /\ Allocated(h) \subseteq Addrs
  BY AllocatedAre DEF TableInv
<1>3. \A c \in Allocated(h) : LnextOf(h)[c] = h.item[c].lnext /\ c # 0
  BY <1>2, FieldsAre, AddrsAre DEF TableInv
<1>4. \A c \in Allocated(h) : h.item[c].lnext # c
  <2>1. \A c \in Allocated(h) : age[c] \in Nat /\ (LnextOf(h)[c] # 0 => age[c] < age[LnextOf(h)[c]])
    BY <1>1, <1>2 DEF Linked
  <2> QED  BY <1>3, <2>1
<1>5. h.item[a].lnext \in Allocated(h) \cup {0}
  BY <1>1, <1>3 DEF Linked
<1>6. CASE h.first = a
  BY <1>2, <1>3, <1>4, <1>5, <1>6 DEF BackLinked
<1>7. CASE h.first # a
  <2>1. PICK c \in Allocated(h) : LnextOf(h)[c] = a
    BY <1>1, <1>7 DEF Linked
  <2>2. h.item[c].lnext = a /\ h.item[a].lprev = c /\ c # a
    BY <1>2, <1>3, <1>4, <2>1 DEF BackLinked
  <2> QED  BY <1>3, <1>4, <1>5, <2>1, <2>2
<1> QED  BY <1>6, <1>7

\* What hashtbl_erase64 does when the key is there.
LEMMA EraseFields ==
    ASSUME NEW h, TableInv(h), NEW a \in Allocated(h), NEW key, h.item[a].key = key
    PROVE  /\ Erase64(h, key).cleaned = {h.item[a].content}
           /\ \E p \in InBucket(h, key % HashSize) \cup {0} :
                /\ Erased(h, Erase64(h, key).h, a, p)
                /\ p = 0 => h.table[key % HashSize] = a
                /\ p # 0 => NextOf(h)[p] = a
<1> DEFINE b == key % HashSize
           n == Min(Found(h, key))
           ch == Chain(h, b)
           p == IF n = 0 THEN 0 ELSE ch[n - 1]
<1>1. /\ Found(h, key) # {} /\ n \in 0 .. MaxItems /\ ch[n] = a
  BY FoundIs
<1>2. /\ key \in Nat /\ b \in Buckets /\ h \in TableType /\ a \in Addrs
  BY BucketIs, AllocatedAre DEF TableInv, Keyed
<1>3. /\ \A i \in 0 .. MaxItems : ch[i] \in InBucket(h, b) \cup {0}
      /\ Steps(h.table[b], NextOf(h), ch, MaxItems)
  BY <1>2, ChainIs
<1>4. Erase64(h, key) =
        [h |-> [ListUnlink(ChainUnlink(h, b, n), a) EXCEPT !.item[a] = NoItem],
         cleaned |-> {h.item[a].content}]
  BY <1>1 DEF Erase64
<1> HIDE DEF n, ch, b
<1>5. /\ p \in InBucket(h, b) \cup {0} /\ (n # 0 => p # 0)
      /\ p = 0 => h.table[b] = a
      /\ p # 0 => NextOf(h)[p] = a
  <2>1. a # 0
    BY <1>2, AddrsAre
  <2>2. CASE n = 0
    BY <1>1, <1>3, <2>2 DEF Steps
  <2>3. CASE n # 0
    <3>1. n \in 1 .. MaxItems /\ n - 1 \in 0 .. MaxItems
      BY <1>1, <2>3, AddrsAre
    <3>2. ch[n] = IF ch[n - 1] = 0 THEN 0 ELSE NextOf(h)[ch[n - 1]]
      BY <1>3, <3>1 DEF Steps
    <3> QED  BY <1>1, <1>3, <2>1, <2>3, <3>1, <3>2
  <2> QED  BY <2>2, <2>3
<1>6. p # a
  <2>1. PICK age \in [Addrs -> Nat] : Linked(h.table[b], NextOf(h), InBucket(h, b), age)
    BY <1>2 DEF TableInv, Joined
  <2>2. SUFFICES ASSUME p = a PROVE FALSE
    OBVIOUS
  <2>3. a # 0 /\ a \in InBucket(h, b) /\ NextOf(h)[a] = a /\ age[a] \in Nat
    BY <1>2, <1>5, <2>2, AddrsAre
  <2>4. age[a] < age[a]
    BY <2>1, <2>3 DEF Linked
  <2> QED  BY <2>3, <2>4
<1>7. h.item[a].lprev # a /\ h.item[a].lnext # a
  BY BackIs
<1>8. p \in Links /\ p = IF n = 0 THEN 0 ELSE ch[n - 1]
  BY <1>5, AllocatedAre DEF Links, InBucket
<1> HIDE DEF p
<1>9. Erased(h, [ListUnlink(ChainUnlink(h, b, n), a) EXCEPT !.item[a] = NoItem], a, p)
  <2>1. b = h.item[a].key % HashSize
    BY DEF b
  <2> QED  BY <1>1, <1>2, <1>5, <1>6, <1>7, <1>8, <2>1, UnlinkFields DEF ch
<1>10. Erase64(h, key).cleaned = {h.item[a].content} /\ Erased(h, Erase64(h, key).h, a, p)
  BY <1>4, <1>9
<1> QED  BY <1>5, <1>10 DEF b

\* The table stays well linked.
LEMMA ErasedInv ==
    ASSUME NEW h, TableInv(h), NEW a \in Allocated(h), NEW g,
           NEW p \in InBucket(h, h.item[a].key % HashSize) \cup {0}, Erased(h, g, a, p),
           p = 0 => h.table[h.item[a].key % HashSize] = a,
           p # 0 => NextOf(h)[p] = a
    PROVE  TableInv(g) /\ Allocated(g) = Allocated(h) \ {a}
<1> DEFINE b == h.item[a].key % HashSize
           A == Allocated(h)
           ln == h.item[a].lnext
           lp == h.item[a].lprev
<1>0. /\ A \subseteq Addrs /\ a \in Addrs /\ a # 0 /\ b \in Buckets
      /\ h \in TableType /\ g \in TableType /\ Keyed(h) /\ BackLinked(h)
      /\ \A c \in Addrs : c \in A <=> h.item[c].key \in Nat
      /\ \A c \in A : c # 0
  BY AllocatedAre, AddrsAre, BucketIs DEF TableInv, Keyed, Erased
<1>1. \A c \in Addrs \ {a} :
        /\ g.item[c].key = h.item[c].key /\ g.item[c].content = h.item[c].content
        /\ g.item[c].next = IF c = p THEN h.item[a].next ELSE h.item[c].next
        /\ g.item[c].lnext = IF c = lp THEN ln ELSE h.item[c].lnext
        /\ g.item[c].lprev = IF c = ln THEN lp ELSE h.item[c].lprev
  BY DEF Erased
<1>2. /\ g.first = (IF lp = 0 THEN ln ELSE h.first)
      /\ g.table = (IF p = 0 THEN [h.table EXCEPT ![b] = h.item[a].next] ELSE h.table)
      /\ g.item[a] = NoItem
  BY DEF Erased
<1>3. \A c \in A : /\ h.item[c].lprev # 0 => h.item[c].lprev \in A /\ h.item[h.item[c].lprev].lnext = c
                   /\ h.item[c].lprev = 0 <=> h.first = c
                   /\ h.item[c].lnext \in A \cup {0}
                   /\ h.item[c].lprev # c /\ h.item[c].lnext # c
                   /\ h.item[c].lnext # 0 => h.item[h.item[c].lnext].lprev = c
  BY <1>0, BackIs DEF BackLinked
<1> HIDE DEF ln, lp, b
<1>4. Allocated(g) = A \ {a}
  <2>1. \A c \in Addrs : g.item[c].key \in Nat => g.item[c] # NoItem
    BY <1>0, NoItemIs, FieldsAre
  <2>2. ASSUME NEW c \in Addrs, c \notin A  PROVE g.item[c] = NoItem
    <3>1. c # a /\ h.item[c] = NoItem
      BY <1>0, <2>2, AllocatedAre
    <3>2. c # p /\ c # lp /\ c # ln
      BY <1>0, <1>3, <2>2, AddrsAre DEF InBucket, lp, ln
    <3>3. /\ g.item[c].key = h.item[c].key /\ g.item[c].content = h.item[c].content
          /\ g.item[c].next = h.item[c].next /\ g.item[c].lnext = h.item[c].lnext
          /\ g.item[c].lprev = h.item[c].lprev
      BY <1>1, <3>1, <3>2
    <3>4. \A i, j \in ItemType :
            /\ i.key = j.key /\ i.content = j.content /\ i.next = j.next
            /\ i.lnext = j.lnext /\ i.lprev = j.lprev
            => i = j
      BY DEF ItemType
    <3>5. g.item[c] \in ItemType /\ h.item[c] \in ItemType
      BY <1>0, FieldsAre
    <3> QED  BY <3>1, <3>3, <3>4, <3>5
  <2>3. ASSUME NEW c \in A, c # a  PROVE g.item[c] # NoItem
    BY <1>0, <1>1, <2>1, <2>3
  <2> QED  BY <1>0, <1>2, <2>2, <2>3 DEF Allocated
<1>5. Keyed(g)
  BY <1>0, <1>1, <1>4 DEF Keyed
<1>6. PICK age \in [Addrs -> Nat] : Joined(h, age)
  BY DEF TableInv
<1>7. Linked(h.first, LnextOf(h), A, age)
  BY <1>6 DEF Joined
<1>8. \A c \in A : LnextOf(h)[c] = h.item[c].lnext /\ NextOf(h)[c] = h.item[c].next
  BY <1>0, FieldsAre
<1>9. \A c \in A \ {a} : LnextOf(g)[c] = g.item[c].lnext /\ NextOf(g)[c] = g.item[c].next
  BY <1>0, FieldsAre
<1>10. NextOf(g) \in [Addrs -> Links] /\ LnextOf(g) \in [Addrs -> Links]
  BY <1>0, FieldsAre
<1>11. ln \in (A \ {a}) \cup {0} /\ (lp # 0 => lp \in A \ {a} /\ h.item[lp].lnext = a)
       /\ (lp = 0 <=> h.first = a) /\ (ln # 0 => h.item[ln].lprev = a)
  BY <1>3 DEF ln, lp
<1>12. \A c, d \in A : h.item[c].lnext = h.item[d].lnext /\ h.item[c].lnext # 0 => c = d
  BY <1>7, <1>8 DEF Linked
<1>13. \A c \in A : h.item[c].lnext # 0 => h.item[c].lnext # h.first
  BY <1>7, <1>8 DEF Linked
<1>14. BackLinked(g)
  <2> SUFFICES ASSUME NEW c \in A \ {a}
               PROVE  /\ g.item[c].lnext # 0 => g.item[g.item[c].lnext].lprev = c
                      /\ g.item[c].lprev = 0 <=> g.first = c
    BY <1>4 DEF BackLinked
  <2>1. /\ g.item[c].lnext = (IF c = lp THEN ln ELSE h.item[c].lnext)
        /\ g.item[c].lprev = (IF c = ln THEN lp ELSE h.item[c].lprev)
        /\ c \in Addrs /\ c # 0 /\ c # a
    BY <1>0, <1>1
  <2>2. ASSUME g.item[c].lnext # 0  PROVE g.item[g.item[c].lnext].lprev = c
    <3>1. CASE c = lp
      <4>1. ln # 0 /\ ln \in Addrs \ {a} /\ g.item[c].lnext = ln
        BY <1>0, <1>11, <2>1, <2>2, <3>1
      <4> QED  BY <1>1, <3>1, <4>1
    <3>2. CASE c # lp
      <4> DEFINE d == h.item[c].lnext
      <4>1. d # 0 /\ d \in A /\ h.item[d].lprev = c /\ g.item[c].lnext = d
        BY <1>3, <2>1, <2>2, <3>2
      <4>2. d # a
        BY <3>2, <4>1 DEF lp
      <4>3. d # ln
        BY <1>12, <2>1, <4>1 DEF ln
      <4> QED  BY <1>0, <1>1, <4>1, <4>2, <4>3
    <3> QED  BY <3>1, <3>2
  <2>3. g.item[c].lprev = 0 <=> g.first = c
    <3>1. CASE c = ln
      <4>1. lp # 0 => h.first # c
        <5>1. ln # h.first
          BY <1>13, <2>1, <3>1 DEF ln
        <5> QED  BY <3>1, <5>1
      <4> QED  BY <1>2, <2>1, <3>1, <4>1
    <3>2. CASE c # ln
      <4>1. g.item[c].lprev = 0 <=> h.first = c
        BY <1>3, <2>1, <3>2
      <4> QED  BY <1>2, <1>11, <2>1, <3>2, <4>1
    <3> QED  BY <3>1, <3>2
  <2> QED  BY <2>2, <2>3
<1>15. Linked(g.first, LnextOf(g), A \ {a}, age)
  <2>1. CASE lp = 0
    <3>1. h.first = a /\ h.first # 0 /\ g.first = LnextOf(h)[h.first]
      BY <1>0, <1>2, <1>8, <1>11, <2>1 DEF ln
    <3>2. \A c \in A \ {h.first} : LnextOf(g)[c] = LnextOf(h)[c]
      BY <1>0, <1>1, <1>8, <1>9, <2>1, <3>1
    <3>3. Linked(LnextOf(h)[h.first], LnextOf(g), A \ {h.first}, age)
      BY <1>7, <1>10, <3>1, <3>2, LinkedDropFirst
    <3> QED  BY <3>1, <3>3
  <2>2. CASE lp # 0
    <3>1. lp \in A /\ lp \in Addrs \ {a} /\ LnextOf(h)[lp] = a /\ g.first = h.first
      BY <1>0, <1>2, <1>8, <1>11, <2>2
    <3>2. LnextOf(g)[lp] = LnextOf(h)[LnextOf(h)[lp]]
      <4>1. LnextOf(h)[a] = ln
        BY <1>8 DEF ln
      <4>2. g.item[lp].lnext = ln
        BY <1>1, <3>1
      <4> QED  BY <1>9, <3>1, <4>1, <4>2
    <3>3. \A c \in A \ {lp, LnextOf(h)[lp]} : LnextOf(g)[c] = LnextOf(h)[c]
      BY <1>0, <1>1, <1>8, <1>9, <3>1
    <3>4. LnextOf(h)[lp] # 0
      BY <1>0, <3>1
    <3>5. Linked(h.first, LnextOf(g), A \ {LnextOf(h)[lp]}, age)
      BY <1>7, <1>10, <3>1, <3>2, <3>3, <3>4, LinkedDropNext
    <3> QED  BY <3>1, <3>5
  <2> QED  BY <2>1, <2>2
<1>16. ASSUME NEW d \in Buckets
       PROVE  Linked(g.table[d], NextOf(g), InBucket(g, d), age)
  <2> DEFINE S == InBucket(h, d)
  <2>1. Linked(h.table[d], NextOf(h), S, age)
    BY <1>6 DEF Joined
  <2>2. S \subseteq A /\ InBucket(g, d) = S \ {a}
    BY <1>0, <1>1, <1>4 DEF InBucket
  <2>3. h.table \in [Buckets -> Links]
    BY <1>0, FieldsAre
  <2>4. a \in S <=> d = b
    BY DEF InBucket, b
  <2>5. p # 0 => p \in InBucket(h, b)
    BY DEF b
  <2>6. (p = 0 => h.table[b] = a) /\ (p # 0 => NextOf(h)[p] = a)
    BY DEF b
  <2>7. NextOf(h)[a] = h.item[a].next
    BY <1>8
  <2> HIDE DEF S
  <2>8. CASE d # b
    <3>1. S \ {a} = S /\ g.table[d] = h.table[d]
      BY <1>2, <2>3, <2>4, <2>8
    <3>2. p \notin S
      BY <1>0, <2>2, <2>5, <2>8 DEF S, InBucket
    <3>3. \A c \in S : NextOf(g)[c] = NextOf(h)[c]
      BY <1>0, <1>1, <1>8, <1>9, <2>2, <3>1, <3>2
    <3>4. Linked(h.table[d], NextOf(g), S, age)
      BY <1>10, <2>1, <3>3, LinkedKept
    <3> QED  BY <2>2, <3>1, <3>4
  <2>9. CASE d = b /\ p = 0
    <3>1. h.table[d] = a /\ h.table[d] # 0 /\ g.table[d] = NextOf(h)[h.table[d]]
      BY <1>0, <1>2, <2>3, <2>6, <2>7, <2>9
    <3>2. \A c \in S \ {h.table[d]} : NextOf(g)[c] = NextOf(h)[c]
      BY <1>0, <1>1, <1>8, <1>9, <2>2, <2>9, <3>1
    <3>3. Linked(NextOf(h)[h.table[d]], NextOf(g), S \ {h.table[d]}, age)
      BY <1>10, <2>1, <3>1, <3>2, LinkedDropFirst
    <3> QED  BY <2>2, <3>1, <3>3
  <2>10. CASE d = b /\ p # 0
    <3>1. p \in S /\ p \in A /\ NextOf(h)[p] = a /\ NextOf(h)[p] # 0 /\ g.table[d] = h.table[d]
      BY <1>0, <1>2, <2>2, <2>5, <2>6, <2>10 DEF S
    <3>2. p # a
      <4>1. age[p] \in Nat /\ age[p] < age[NextOf(h)[p]]
        BY <1>0, <2>1, <3>1 DEF Linked
      <4> QED  BY <3>1, <4>1
    <3>3. NextOf(g)[p] = NextOf(h)[NextOf(h)[p]]
      BY <1>0, <1>1, <1>9, <2>7, <3>1, <3>2
    <3>4. \A c \in S \ {p, NextOf(h)[p]} : NextOf(g)[c] = NextOf(h)[c]
      BY <1>0, <1>1, <1>8, <1>9, <2>2, <3>1
    <3>5. Linked(h.table[d], NextOf(g), S \ {NextOf(h)[p]}, age)
      BY <1>10, <2>1, <3>1, <3>3, <3>4, LinkedDropNext
    <3> QED  BY <2>2, <3>1, <3>5
  <2> QED  BY <2>8, <2>9, <2>10
<1>17. Joined(g, age)
  BY <1>4, <1>15, <1>16 DEF Joined
<1> QED  BY <1>0, <1>4, <1>5, <1>14, <1>17 DEF TableInv

-----------------------------------------------------------------------------
(* What the operations do to what hashtbl_seek64 returns.                  *)

\* hashtbl_append64 of a key the table does not have leaves the table well
\* linked and cleans nothing; from then on hashtbl_seek64 finds the content
\* under that key, and under every other key what it found before.
THEOREM AppendSound ==
    ASSUME NEW h, TableInv(h), NEW key \in Nat, Seek(h, key) = 0, NEW content \in Nat \ {0},
           Allocated(h) # Addrs
    PROVE  LET g == Append64(h, key, content).h
           IN  /\ TableInv(g) /\ Append64(h, key, content).cleaned = {}
               /\ \A k \in Nat : Seek(g, k) = IF k = key THEN content ELSE Seek(h, k)
<1> DEFINE g == Append64(h, key, content).h
<1>1. Found(h, key) = {}
  BY SeekShows
<1>2. PICK new \in Addrs \ Allocated(h) : Appended(h, g, key, content, new)
  BY <1>1, AppendFields
<1>3. Append64(h, key, content).cleaned = {}
  BY <1>1, AppendFields
<1> HIDE DEF g
<1>4. TableInv(g) /\ Allocated(g) = Allocated(h) \cup {new}
  BY <1>1, <1>2, AppendedInv
<1>5. ASSUME NEW k \in Nat  PROVE Seek(g, k) = IF k = key THEN content ELSE Seek(h, k)
  <2>1. new \in Allocated(g) /\ g.item[new].key = key /\ g.item[new].content = content
    BY <1>2, <1>4 DEF Appended
  <2>2. \A a \in Allocated(h) :
          /\ a \in Allocated(g) /\ a # new /\ g.item[a].key = h.item[a].key
          /\ g.item[a].content = h.item[a].content
    BY <1>2, <1>4, AllocatedAre DEF Appended
  <2>3. CASE k = key
    BY <1>4, <2>1, <2>3, FoundIs
  <2>4. CASE k # key /\ \E a \in Allocated(h) : h.item[a].key = k
    <3>1. PICK a \in Allocated(h) : h.item[a].key = k
      BY <2>4
    <3>2. Seek(h, k) = h.item[a].content
      BY <3>1, FoundIs
    <3>3. Seek(g, k) = g.item[a].content
      BY <1>4, <2>2, <3>1, FoundIs
    <3> QED  BY <2>2, <2>4, <3>2, <3>3
  <2>5. CASE k # key /\ \A a \in Allocated(h) : h.item[a].key # k
    <3>1. \A a \in Allocated(g) : g.item[a].key # k
      BY <1>4, <2>1, <2>2, <2>5
    <3>2. Seek(g, k) = 0 /\ Seek(h, k) = 0
      BY <1>4, <2>5, <3>1, NotFoundIs
    <3> QED  BY <2>5, <3>2
  <2> QED  BY <2>3, <2>4, <2>5
<1> QED  BY <1>3, <1>4, <1>5 DEF g

\* hashtbl_erase64 leaves the table well linked and calls the cleaner with the
\* content that was found under the key, if any; from then on hashtbl_seek64
\* finds nothing under that key, and under every other what it found before.
THEOREM EraseSound ==
    ASSUME NEW h, TableInv(h), NEW key \in Nat
    PROVE  LET g == Erase64(h, key).h
           IN  /\ TableInv(g)
               /\ Erase64(h, key).cleaned = IF Seek(h, key) = 0 THEN {} ELSE {Seek(h, key)}
               /\ \A k \in Nat : Seek(g, k) = IF k = key THEN 0 ELSE Seek(h, k)
<1> DEFINE g == Erase64(h, key).h
<1>1. CASE Seek(h, key) = 0
  <2>1. Found(h, key) = {}
    BY <1>1, SeekShows
  <2>2. g = h /\ Erase64(h, key).cleaned = {}
    BY <2>1 DEF Erase64
  <2> QED  BY <1>1, <2>2
<1>2. CASE Seek(h, key) # 0
  <2>1. PICK a \in Allocated(h) : h.item[a].key = key /\ h.item[a].content = Seek(h, key)
    BY <1>2, SeekShows
  <2>2. /\ Erase64(h, key).cleaned = {Seek(h, key)}
        /\ \E p \in InBucket(h, key % HashSize) \cup {0} :
             /\ Erased(h, g, a, p)
             /\ p = 0 => h.table[key % HashSize] = a
             /\ p # 0 => NextOf(h)[p] = a
    BY <2>1, EraseFields
  <2> HIDE DEF g
  <2>3. PICK p \in InBucket(h, key % HashSize) \cup {0} :
             /\ Erased(h, g, a, p)
             /\ p = 0 => h.table[key % HashSize] = a
             /\ p # 0 => NextOf(h)[p] = a
    BY <2>2
  <2>4. TableInv(g) /\ Allocated(g) = Allocated(h) \ {a}
    BY <2>1, <2>3, ErasedInv
  <2>5. \A c \in Allocated(g) : /\ c \in Allocated(h) /\ c # a /\ g.item[c].key = h.item[c].key
                                /\ g.item[c].content = h.item[c].content
    BY <2>3, <2>4, AllocatedAre DEF Erased
  <2>6. ASSUME NEW k \in Nat  PROVE Seek(g, k) = IF k = key THEN 0 ELSE Seek(h, k)
    <3>1. CASE k = key
      <4>1. \A c \in Allocated(g) : g.item[c].key # key
        BY <2>1, <2>5 DEF TableInv, Keyed
      <4> QED  BY <2>4, <3>1, <4>1, NotFoundIs
    <3>2. CASE k # key /\ \E c \in Allocated(h) : h.item[c].key = k
      <4>1. PICK c \in Allocated(h) : h.item[c].key = k
        BY <3>2
      <4>2. c \in Allocated(g)
        BY <2>1, <2>4, <3>2, <4>1
      <4>3. Seek(h, k) = h.item[c].content
        BY <4>1, FoundIs
      <4>4. Seek(g, k) = g.item[c].content
        BY <2>4, <2>5, <4>1, <4>2, FoundIs
      <4> QED  BY <2>5, <3>2, <4>2, <4>3, <4>4
    <3>3. CASE k # key /\ \A c \in Allocated(h) : h.item[c].key # k
      <4>1. Seek(h, k) = 0 /\ Seek(g, k) = 0
        BY <2>4, <2>5, <3>3, NotFoundIs
      <4> QED  BY <3>3, <4>1
    <3> QED  BY <3>1, <3>2, <3>3
  <2>7. Erase64(h, key).cleaned = IF Seek(h, key) = 0 THEN {} ELSE {Seek(h, key)}
    BY <1>2, <2>2
  <2> QED  BY <2>4, <2>6, <2>7 DEF g
<1> QED  BY <1>1, <1>2

=============================================================================
