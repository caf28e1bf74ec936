-------------------------- MODULE ApeTimers_proofs --------------------------
(***************************************************************************)
(* Proofs about ApeTimers, for any number of timers and asynchronous       *)
(* calls, any delays and resolutions and callbacks of any length: no bound *)
(* of the runs is used.                                                    *)
(***************************************************************************)
EXTENDS ApeTimers, SequenceTheorems, TLAPS

-----------------------------------------------------------------------------
(* The inductive invariant.                                                *)

Places == {"poll", "events", "first", "firstcb", "walk", "callback", "last", "lastcb"}
InPass == pc \notin {"poll", "events"}

Descending(s) == \A i, j \in DOMAIN s : i < j => s[i] > s[j]

\* The timers.  Identifiers are given out once and in ascending order, and a
\* timer goes to the head of the list: the list is in descending order.
TimersInv ==
    /\ list \in Seq(Ids) /\ Descending(list)
    /\ lastId \in 0 .. MaxTimers /\ \A t \in Listed : t <= lastId
    /\ due \in [Ids -> Int] /\ needs \in [Ids -> Nat]
    /\ protected \subseteq Ids /\ cleared \subseteq Ids
    /\ hooked \subseteq 1 .. lastId
    /\ clears \in [Ids -> Nat]
    /\ \A t \in Ids : clears[t] = IF t \in hooked \ Listed THEN 1 ELSE 0

\* The asynchronous calls that are still to be made.
Pending == ToSet(async) \cup ToSet(taken)

CallsInv ==
    /\ async \in Seq(Calls) /\ taken \in Seq(Calls)
    /\ IsInjective(async) /\ IsInjective(taken)
    /\ ToSet(async) \cap ToSet(taken) = {}
    /\ lastAsync \in 0 .. MaxAsyncs /\ \A a \in Pending : a <= lastAsync
    /\ ahooked \subseteq 1 .. lastAsync
    /\ aclears \in [Calls -> Nat]
    /\ \A a \in Calls : aclears[a] = IF a \in ahooked \ Pending THEN 1 ELSE 0

\* Where the pass is, and the timer and the calls it holds.
PassInv ==
    /\ pc \in Places /\ low \in BOOLEAN
    /\ soon \in Int /\ since \in Nat \cup {NoSample}
    /\ wait \in Nat /\ left \in Nat /\ limit \in 0 .. lastId
    /\ cur = 0 \/ (cur \in Listed /\ cur <= limit)
    /\ pc = "callback" => cur # 0
    /\ pc \in {"poll", "events", "last", "lastcb"} => cur = 0
    /\ pc \in {"firstcb", "lastcb"} => taken # <<>>
    /\ pc \in {"poll", "events", "walk", "callback"} => taken = <<>>

ListInv == TimersInv /\ CallsInv /\ PassInv

\* Schedules are in reach, and the wait computed so far is no longer than the
\* schedule of any timer the walk has passed allows.
Schedules ==
    \A t \in Ids : due[t] <= needs[t] /\ needs[t] < Never

Passed == {t \in Listed \ cleared : t <= limit /\ t > cur}

SoonInv ==
    /\ soon <= Never
    /\ ~InPass => soon = Never
    /\ InPass => \A t \in Passed : soon <= due[t]

WaitInv ==
    /\ Schedules /\ SoonInv
    /\ pc = "poll" => left <= wait * Ms
    /\ WaitSound

-----------------------------------------------------------------------------
(* The lists.                                                              *)

\* The elements of a sequence, put as a quantifier.
LEMMA Members ==
    ASSUME NEW S, NEW s \in Seq(S)
    PROVE  /\ \A x : x \in ToSet(s) <=> \E i \in 1 .. Len(s) : s[i] = x
           /\ ToSet(s) \subseteq S
           /\ s = <<>> <=> ToSet(s) = {}
           /\ DOMAIN s = 1 .. Len(s) /\ Len(s) \in Nat
<1>1. DOMAIN s = 1 .. Len(s) /\ Len(s) \in Nat
  OBVIOUS
<1>2. \A x : x \in ToSet(s) <=> \E i \in 1 .. Len(s) : s[i] = x
  BY <1>1, Zenon DEF ToSet
<1>3. \A i \in 1 .. Len(s) : s[i] \in S
  OBVIOUS
<1>4. s = <<>> <=> ToSet(s) = {}
  <2>1. s = <<>> <=> Len(s) = 0
    BY EmptySeq
  <2>2. Len(s) # 0 => s[1] \in ToSet(s)
    BY <1>1, <1>2
  <2> QED  BY <1>1, <1>2, <2>1, <2>2
<1> QED  BY <1>1, <1>2, <1>3, <1>4

\* What is taken off a list (ape_timer_destroy, APE_async_destroy) leaves the
\* others, in their order.
LEMMA WithoutFacts ==
    ASSUME NEW S, NEW s \in Seq(S), NEW D, NEW l \in Without(s, D)
    PROVE  /\ l \in Seq(S)
           /\ ToSet(l) = ToSet(s) \ D
           /\ \A i, j \in DOMAIN l : i < j =>
                \E p, q \in DOMAIN s : p < q /\ s[p] = l[i] /\ s[q] = l[j]
<1>1. /\ l \in SeqOf(ToSet(s) \ D, Len(s))
      /\ ToSet(l) = ToSet(s) \ D
      /\ \A i, j \in DOMAIN l : i < j =>
           \E p, q \in DOMAIN s : p < q /\ s[p] = l[i] /\ s[q] = l[j]
  BY Zenon DEF Without
<1>2. PICK m \in 0 .. Len(s) : l \in [1 .. m -> ToSet(s) \ D]
  BY <1>1 DEF SeqOf
<1>3. ToSet(s) \ D \subseteq S
  BY Members
<1>4. l \in Seq(ToSet(s) \ D)
  BY <1>2
<1>5. l \in Seq(S)
  BY <1>3, <1>4
<1> QED  BY <1>1, <1>5

\* A list in descending order stays in order when timers are taken off it.
LEMMA WithoutDescending ==
    ASSUME NEW s \in Seq(Ids), Descending(s), NEW D, NEW l \in Without(s, D)
    PROVE  Descending(l)
<1>1. \A i, j \in DOMAIN l : i < j =>
        \E p, q \in DOMAIN s : p < q /\ s[p] = l[i] /\ s[q] = l[j]
  BY WithoutFacts
<1> QED  BY <1>1, Zenon DEF Descending

\* A list that holds nothing twice does not after elements are taken off it.
LEMMA WithoutInjective ==
    ASSUME NEW S, NEW s \in Seq(S), IsInjective(s), NEW D, NEW l \in Without(s, D)
    PROVE  IsInjective(l)
<1>1. /\ l \in Seq(S)
      /\ \A i, j \in DOMAIN l : i < j =>
           \E p, q \in DOMAIN s : p < q /\ s[p] = l[i] /\ s[q] = l[j]
  BY WithoutFacts
<1>2. ASSUME NEW i \in DOMAIN l, NEW j \in DOMAIN l, i < j  PROVE l[i] # l[j]
  <2>1. PICK p \in DOMAIN s, q \in DOMAIN s : p < q /\ s[p] = l[i] /\ s[q] = l[j]
    BY <1>1, <1>2, Zenon
  <2>2. p \in Nat /\ q \in Nat
    BY Members
  <2> QED  BY <2>1, <2>2 DEF IsInjective
<1>3. \A i, j \in DOMAIN l : i = j \/ i < j \/ j < i
  BY <1>1, Members
<1> QED  BY <1>2, <1>3, Zenon DEF IsInjective

\* What is put in front of a list is its first element.
LEMMA PushFacts ==
    ASSUME NEW S, NEW s \in Seq(S), NEW x \in S
    PROVE  /\ <<x>> \o s \in Seq(S)
           /\ ToSet(<<x>> \o s) = ToSet(s) \cup {x}
           /\ Len(<<x>> \o s) = Len(s) + 1
           /\ (<<x>> \o s)[1] = x
           /\ \A i \in 2 .. Len(s) + 1 : (<<x>> \o s)[i] = s[i - 1]
<1> DEFINE l == <<x>> \o s
<1>1. /\ l \in Seq(S) /\ Len(l) = Len(s) + 1 /\ l[1] = x
      /\ \A i \in 2 .. Len(s) + 1 : l[i] = s[i - 1]
  OBVIOUS
<1> HIDE DEF l
<1>2. ASSUME NEW y  PROVE y \in ToSet(l) <=> y \in ToSet(s) \cup {x}
  <2>1. y \in ToSet(l) <=> \E i \in 1 .. Len(s) + 1 : l[i] = y
    BY <1>1, Members
  <2>2. y \in ToSet(s) <=> \E i \in 1 .. Len(s) : s[i] = y
    BY Members
  <2>3. ASSUME y \in ToSet(s)  PROVE y \in ToSet(l)
    <3>1. PICK i \in 1 .. Len(s) : s[i] = y
      BY <2>2, <2>3
    <3>2. i + 1 \in 2 .. Len(s) + 1 /\ (i + 1) - 1 = i /\ i + 1 \in 1 .. Len(s) + 1
      OBVIOUS
    <3>3. l[i + 1] = y
      BY <1>1, <3>1, <3>2
    <3> QED  BY <2>1, <3>2, <3>3
  <2>4. x \in ToSet(l)
    BY <1>1, Members
  <2>5. ASSUME y \in ToSet(l), y # x  PROVE y \in ToSet(s)
    <3>1. PICK i \in 1 .. Len(s) + 1 : l[i] = y
      BY <2>1, <2>5
    <3>2. i \in 2 .. Len(s) + 1 /\ i - 1 \in 1 .. Len(s)
      BY <1>1, <2>5, <3>1
    <3> QED  BY <1>1, <2>2, <3>1, <3>2
  <2> QED  BY <2>3, <2>4, <2>5
<1>3. ToSet(l) = ToSet(s) \cup {x}
  BY <1>2
<1> QED  BY <1>1, <1>3 DEF l

\* A sequence and what is left of it when its first element is taken.
LEMMA PopFacts ==
    ASSUME NEW S, NEW s \in Seq(S), s # <<>>, IsInjective(s)
    PROVE  /\ Tail(s) \in Seq(S) /\ Head(s) \in S
           /\ ToSet(Tail(s)) = ToSet(s) \ {Head(s)}
           /\ Head(s) \in ToSet(s)
           /\ IsInjective(Tail(s))
<1> DEFINE l == Tail(s)
           h == Head(s)
<1>1. /\ l \in Seq(S) /\ h \in S /\ Len(l) = Len(s) - 1 /\ h = s[1] /\ Len(s) >= 1
      /\ \A i \in 1 .. Len(l) : l[i] = s[i + 1]
      /\ Len(s) \in Nat /\ DOMAIN s = 1 .. Len(s) /\ DOMAIN l = 1 .. Len(l)
  BY EmptySeq
<1> HIDE DEF l, h
<1>2. \A i, j \in 1 .. Len(s) : s[i] = s[j] => i = j
  BY <1>1 DEF IsInjective
<1>3. IsInjective(l)
  BY <1>1, <1>2 DEF IsInjective
<1>4. /\ \A y : y \in ToSet(l) <=> \E i \in 1 .. Len(l) : l[i] = y
      /\ \A y : y \in ToSet(s) <=> \E i \in 1 .. Len(s) : s[i] = y
  BY <1>1, Members
<1>5. ASSUME NEW y \in ToSet(l)  PROVE y \in ToSet(s) \ {h}
  <2>1. PICK i \in 1 .. Len(l) : l[i] = y
    BY <1>4
  <2>2. s[i + 1] = y /\ i + 1 \in 1 .. Len(s) /\ i + 1 # 1 /\ 1 \in 1 .. Len(s)
    BY <1>1, <2>1
  <2> QED  BY <1>1, <1>2, <1>4, <2>2
<1>6. ASSUME NEW y \in ToSet(s) \ {h}  PROVE y \in ToSet(l)
  <2>1. PICK i \in 1 .. Len(s) : s[i] = y
    BY <1>4
  <2>2. i - 1 \in 1 .. Len(l) /\ (i - 1) + 1 = i
    BY <1>1, <2>1
  <2> QED  BY <1>1, <1>4, <2>1, <2>2
<1>7. h \in ToSet(s)
  BY <1>1, <1>4
<1> QED  BY <1>1, <1>3, <1>5, <1>6, <1>7 DEF l, h

\* timer->next is the next younger timer that is listed, or NULL.
LEMMA NextFacts ==
    ASSUME list \in Seq(Ids), Descending(list), NEW t \in Listed
    PROVE  /\ NextOf(t) = 0 \/ NextOf(t) \in Listed
           /\ NextOf(t) \in Nat /\ NextOf(t) < t
           /\ \A u \in Listed : u < t => u <= NextOf(t)
<1> DEFINE i == CHOOSE j \in DOMAIN list : list[j] = t
<1>1. /\ DOMAIN list = 1 .. Len(list) /\ Len(list) \in Nat
      /\ \A x : x \in Listed <=> \E j \in 1 .. Len(list) : list[j] = x
      /\ Listed \subseteq Ids
  BY Members DEF Listed
<1>2. i \in 1 .. Len(list) /\ list[i] = t
  BY <1>1
<1>3. NextOf(t) = IF i = Len(list) THEN 0 ELSE list[i + 1]
  BY DEF NextOf
<1>4. \A j, k \in 1 .. Len(list) : j < k => list[j] > list[k]
  BY <1>1 DEF Descending
<1>5. Ids \subseteq Nat \ {0}
  BY DEF Ids
<1> DEFINE n == list[i + 1]
<1> HIDE DEF i, n
<1>9. /\ i \in Nat /\ t \in Nat
      /\ i + 1 \in 1 .. Len(list) => n \in Nat /\ n \in Listed
  <2>1. i \in Nat /\ t \in Nat
    BY <1>1, <1>2, <1>5
  <2>2. ASSUME NEW k \in 1 .. Len(list)  PROVE list[k] \in Listed
    BY <1>1
  <2>3. ASSUME i + 1 \in 1 .. Len(list)  PROVE n \in Listed
    BY <2>2, <2>3 DEF n
  <2> QED  BY <1>1, <1>5, <2>1, <2>3
<1>6. ASSUME NEW u \in Listed, u < t
      PROVE  i # Len(list) /\ u <= n
  <2>1. PICK k \in 1 .. Len(list) : list[k] = u
    BY <1>1
  <2>2. k > i
    <3>1. CASE k < i
      <4>1. list[k] > list[i]
        BY <1>2, <1>4, <3>1
      <4> QED  BY <4>1, <2>1, <1>2, <1>1, <1>5, <1>6
    <3>2. CASE k = i
      BY <3>2, <2>1, <1>2, <1>1, <1>5, <1>6
    <3> QED  BY <3>1, <3>2, <1>1, <1>2
  <2>3. i + 1 \in 1 .. Len(list)
    BY <1>1, <1>2, <2>2
  <2>6. n \in Nat /\ u \in Nat
    BY <1>1, <1>5, <1>9, <2>3
  <2>7. i # Len(list)
    BY <1>9, <2>3
  <2>4. CASE k = i + 1
    <3>1. u = n
      BY <2>1, <2>4 DEF n
    <3> QED  BY <2>6, <2>7, <3>1
  <2>5. CASE k > i + 1
    <3>1. n > list[k]
      BY <1>4, <2>3, <2>5 DEF n
    <3> QED  BY <2>1, <2>6, <2>7, <3>1
  <2>8. k = i + 1 \/ k > i + 1
    BY <1>9, <2>2
  <2> QED  BY <2>4, <2>5, <2>7, <2>8
<1>7. CASE i = Len(list)
  BY <1>1, <1>3, <1>5, <1>6, <1>7
<1>8. CASE i # Len(list)
  <2>1. i + 1 \in 1 .. Len(list)
    <3>1. Len(list) \in Nat
      BY <1>1
    <3> QED  BY <1>2, <1>8, <1>9, <3>1
  <2>2. n \in Listed /\ n \in Nat /\ t \in Nat
    BY <1>9, <2>1
  <2>3. n < t
    <3>1. list[i] > list[i + 1]
      BY <1>2, <1>4, <1>9, <2>1
    <3> QED  BY <1>2, <2>2, <3>1 DEF n
  <2>4. NextOf(t) = n
    BY <1>3, <1>8 DEF n
  <2> QED  BY <1>6, <2>2, <2>3, <2>4
<1> QED  BY <1>7, <1>8

-----------------------------------------------------------------------------
(* The lists and the walk: a step at a time.                               *)

\* APE_timer_create puts a timer younger than all others in front.
LEMMA CreateTimers ==
    ASSUME TimersInv, NEW ms \in Delays, TimerCreate(ms)
    PROVE  TimersInv' /\ Listed' = Listed \cup {lastId + 1} /\ lastId' = lastId + 1
<1> USE TimersAssumption
<1> DEFINE t == lastId + 1
<1>1. /\ t \in Ids /\ t \in Nat /\ lastId' = t /\ list' = <<t>> \o list
      /\ due' = [due EXCEPT ![t] = ms * Ms] /\ needs' = [needs EXCEPT ![t] = ms * Ms]
      /\ protected' = protected \cup {t}
      /\ UNCHANGED <<cleared, hooked, clears>>
  BY DEF TimersInv, TimerCreate, Ids
<1> HIDE DEF t
<1>2. list \in Seq(Ids) /\ Listed \subseteq Ids /\ DOMAIN list = 1 .. Len(list) /\ Len(list) \in Nat
  BY Members DEF TimersInv, Listed
<1>3. /\ list' \in Seq(Ids) /\ Listed' = Listed \cup {t} /\ Len(list') = Len(list) + 1
      /\ list'[1] = t /\ \A i \in 2 .. Len(list) + 1 : list'[i] = list[i - 1]
  BY <1>1, <1>2, PushFacts DEF Listed
<1>4. /\ lastId \in Nat /\ lastId < t /\ t \notin Listed /\ t \notin hooked
      /\ \A u \in Listed : u \in Nat /\ u < t
  BY <1>1, <1>2 DEF TimersInv, Ids, t
<1>5. Descending(list')
  <2> SUFFICES ASSUME NEW i \in 1 .. Len(list) + 1, NEW j \in 1 .. Len(list) + 1, i < j
               PROVE  list'[i] > list'[j]
    BY <1>3 DEF Descending
  <2>1. j \in 2 .. Len(list) + 1 /\ j - 1 \in 1 .. Len(list) /\ list'[j] = list[j - 1]
    BY <1>2, <1>3
  <2>2. CASE i = 1
    <3>1. list[j - 1] \in Listed
      BY <1>2, <2>1, Members DEF Listed
    <3> QED  BY <1>1, <1>3, <1>4, <2>1, <2>2, <3>1
  <2>3. CASE i # 1
    <3>1. i - 1 \in 1 .. Len(list) /\ list'[i] = list[i - 1] /\ i - 1 < j - 1
      BY <1>2, <1>3, <2>3
    <3> QED  BY <1>2, <2>1, <3>1 DEF TimersInv, Descending
  <2> QED  BY <2>2, <2>3
<1>6. /\ lastId' \in 0 .. MaxTimers /\ \A u \in Listed' : u <= lastId'
      /\ hooked' \subseteq 1 .. lastId'
  BY <1>1, <1>3, <1>4 DEF TimersInv, Ids
<1>7. due' \in [Ids -> Int] /\ needs' \in [Ids -> Nat]
  <2>1. ms * Ms \in Nat
    OBVIOUS
  <2> QED  BY <1>1, <2>1 DEF TimersInv
<1>8. \A u \in Ids : clears'[u] = IF u \in hooked' \ Listed' THEN 1 ELSE 0
  BY <1>1, <1>3, <1>4 DEF TimersInv
<1> QED  BY <1>1, <1>3, <1>5, <1>6, <1>7, <1>8 DEF TimersInv, t

\* ape_timer_destroy leaves the others where they were, and calls the
\* clearfunc of what it takes off.
LEMMA UnlinkTimers ==
    ASSUME TimersInv, NEW D \in SUBSET Listed, NEW schedules \in [Ids -> Int],
           Unlink(D, schedules)
    PROVE  TimersInv' /\ Listed' = Listed \ D /\ lastId' = lastId
<1>1. list \in Seq(Ids) /\ list' \in Without(list, D)
  BY DEF TimersInv, Unlink
<1>2. list' \in Seq(Ids) /\ Listed' = Listed \ D
  BY <1>1, WithoutFacts DEF Listed
<1>3. Descending(list')
  BY <1>1, WithoutDescending DEF TimersInv
<1>4. D \subseteq Ids
  BY <1>1, Members DEF Listed
<1>5. due' \in [Ids -> Int] /\ needs' \in [Ids -> Nat]
  BY DEF Unlink, TimersInv
<1>6. /\ clears' \in [Ids -> Nat]
      /\ \A t \in Ids : clears'[t] = IF t \in hooked' \ Listed' THEN 1 ELSE 0
  BY <1>2, <1>4 DEF Unlink, TimersInv
<1>7. UNCHANGED <<hooked, lastId>> /\ protected' \subseteq Ids /\ cleared' \subseteq Ids
  BY DEF Unlink, TimersInv
<1> QED  BY <1>2, <1>3, <1>5, <1>6, <1>7 DEF TimersInv

\* Time passes for the timers of the list.
LEMMA AgeType ==
    ASSUME TimersInv, NEW d \in Nat
    PROVE  Age(d) \in [Ids -> Int] /\ AgeBeforePass(d) \in [Ids -> Int]
<1>1. Age(d) \in [Ids -> Int]
  BY DEF Age, TimersInv
<1> HIDE DEF Age
<1> QED  BY <1>1 DEF AgeBeforePass

\* A step that leaves the list and the clearfuncs alone keeps the invariant of
\* the timers, whatever it schedules.
LEMMA SameTimers ==
    ASSUME TimersInv, UNCHANGED <<list, lastId, hooked, clears>>,
           due' \in [Ids -> Int], needs' \in [Ids -> Nat],
           protected' \subseteq Ids, cleared' \subseteq Ids
    PROVE  TimersInv'
BY DEF TimersInv, Listed

\* Every step keeps the list of timers in order and their clearfuncs called
\* once.
LEMMA TimersStep ==
    ASSUME ListInv, [Next]_vars
    PROVE  TimersInv'
<1> USE TimersAssumption
<1>0. TimersInv /\ PassInv
  BY DEF ListInv
<1>a. /\ list \in Seq(Ids) /\ due \in [Ids -> Int] /\ needs \in [Ids -> Nat]
      /\ protected \subseteq Ids /\ cleared \subseteq Ids /\ Listed \subseteq Ids
  BY <1>0, Members DEF TimersInv, Listed
<1>b. \A d \in 0 .. MaxBusy : Age(d) \in [Ids -> Int] /\ AgeBeforePass(d) \in [Ids -> Int]
  BY <1>0, AgeType
<1>c. AgeBeforePass(1) \in [Ids -> Int]
  BY <1>0, AgeType
<1> HIDE DEF Age, AgeBeforePass
<1>d. ASSUME UNCHANGED listVars  PROVE TimersInv'
  BY <1>0, <1>d, <1>a, SameTimers DEF listVars
<1>1. ASSUME NEW ms \in Delays, TimerCreate(ms)  PROVE TimersInv'
  BY <1>0, <1>1, CreateTimers
<1>2. ASSUME NEW t \in Ids, TimerDestroy(t)  PROVE TimersInv'
  BY <1>0, <1>2, <1>a, UnlinkTimers DEF TimerDestroy, MayDestroy
<1>3. ASSUME NEW t \in Ids, NEW force \in BOOLEAN, TimerClearById(t, force)  PROVE TimersInv'
  BY <1>0, <1>3, <1>a, SameTimers DEF TimerClearById
<1>4. ASSUME NEW t \in Ids, TimerUnprotect(t)  PROVE TimersInv'
  BY <1>0, <1>4, <1>a, SameTimers DEF TimerUnprotect
<1>5. ASSUME NEW t \in Ids, TimerSetClearFunc(t)  PROVE TimersInv'
  BY <1>0, <1>5 DEF TimerSetClearFunc, TimersInv, Listed, Ids
<1>6. ASSUME NEW D \in SUBSET Listed, DestroyMany(D)  PROVE TimersInv'
  BY <1>0, <1>6, <1>a, UnlinkTimers DEF DestroyMany
<1>7. ASSUME Tick  PROVE TimersInv'
  BY <1>0, <1>7, <1>a, <1>c, SameTimers DEF Tick
<1>8. ASSUME NEW d \in 0 .. MaxBusy, BeginPass(d)  PROVE TimersInv'
  BY <1>0, <1>8, <1>a, <1>b, SameTimers DEF BeginPass
<1>9. ASSUME NEW d \in 0 .. MaxBusy, AsyncReturn(d)  PROVE TimersInv'
  BY <1>0, <1>9, <1>a, <1>b, SameTimers DEF AsyncReturn
<1>10. ASSUME WalkCleared  PROVE TimersInv'
  <2>1. {cur} \in SUBSET Listed
    BY <1>0, <1>10 DEF WalkCleared, PassInv
  <2> QED  BY <1>0, <1>10, <1>a, <2>1, UnlinkTimers DEF WalkCleared
<1>11. ASSUME NEW d \in 0 .. MaxBusy, CallbackDone(d)  PROVE TimersInv'
  <2>1. {cur} \in SUBSET Listed
    BY <1>0, <1>11 DEF CallbackDone, PassInv
  <2> QED  BY <1>0, <1>11, <1>b, <2>1, UnlinkTimers DEF CallbackDone
<1>12. ASSUME NEW d \in 0 .. MaxBusy, NEW r \in Returns, CallbackAgain(r, d)  PROVE TimersInv'
  <2>1. cur \in Ids
    BY <1>0, <1>a, <1>12 DEF CallbackAgain, PassInv
  <2>2. r # -1 => r * Ms \in Nat
    OBVIOUS
  <2>3. needs' \in [Ids -> Nat]
    BY <1>12, <1>a, <2>2 DEF CallbackAgain
  <2>4. due' \in [Ids -> Int]
    BY <1>12, <1>b, <2>1, <2>3 DEF CallbackAgain
  <2> QED  BY <1>0, <1>12, <1>a, <2>3, <2>4, SameTimers DEF CallbackAgain
<1>13. ASSUME \/ SetLowResolution \/ AsyncCreate \/ EndPoll \/ AsyncCall \/ BeginWalk
              \/ WalkNotDue \/ WalkDue \/ EndWalk \/ EndPass
              \/ (\E a \in Calls : AsyncSetClearFunc(a) \/ AsyncDestroy(a)) \/ UNCHANGED vars
       PROVE  TimersInv'
  <2>1. UNCHANGED listVars
    BY <1>13 DEF SetLowResolution, AsyncCreate, EndPoll, AsyncCall, BeginWalk, WalkNotDue,
                 WalkDue, EndWalk, EndPass, AsyncSetClearFunc, AsyncDestroy, vars
  <2> QED  BY <1>d, <2>1
<1>14. ASSUME DestroyUnprotected \/ DestroyAll  PROVE TimersInv'
  BY <1>6, <1>14 DEF DestroyUnprotected, DestroyAll
<1> QED
  BY <1>1, <1>2, <1>3, <1>4, <1>5, <1>7, <1>8, <1>9, <1>10, <1>11, <1>12, <1>13, <1>14
  DEF Next, App, Pass

-----------------------------------------------------------------------------
(* The asynchronous calls.                                                 *)

\* Every step keeps the calls apart that process_async has taken off the list
\* and those that are on it, and calls each clearfunc once.
LEMMA CallsStep ==
    ASSUME ListInv, [Next]_vars
    PROVE  CallsInv'
<1> USE TimersAssumption
<1>0. CallsInv /\ PassInv
  BY DEF ListInv
<1>a. /\ async \in Seq(Calls) /\ taken \in Seq(Calls)
      /\ ToSet(async) \subseteq Calls /\ ToSet(taken) \subseteq Calls
      /\ Calls \subseteq Nat
  <2>1. async \in Seq(Calls) /\ taken \in Seq(Calls)
    BY <1>0 DEF CallsInv
  <2>2. Calls \subseteq Nat
    BY DEF Calls
  <2> QED  BY <2>1, <2>2, Members
<1>b. ASSUME UNCHANGED <<asyncVars, taken>>  PROVE CallsInv'
  BY <1>0, <1>b DEF CallsInv, asyncVars, Pending
<1>c. /\ <<>> \in Seq(Calls) /\ ToSet(<<>>) = {} /\ IsInjective(<<>>)
  BY DEF ToSet, IsInjective
<1>1. ASSUME AsyncCreate  PROVE CallsInv'
  <2> DEFINE a == lastAsync + 1
  <2>1. /\ a \in Calls /\ lastAsync' = a /\ async' = <<a>> \o async
        /\ UNCHANGED <<taken, ahooked, aclears>> /\ lastAsync < a /\ lastAsync \in Nat
    BY <1>0, <1>1 DEF AsyncCreate, CallsInv, Calls, passVars
  <2>2. a \notin Pending /\ a \notin ahooked /\ (\A b \in Pending : b \in Nat /\ b < a)
    <3>1. (\A b \in Pending : b \in Nat /\ b <= lastAsync) /\ ahooked \subseteq 1 .. lastAsync
      BY <1>0, <1>a DEF CallsInv, Pending
    <3>2. \A b \in Pending : b # a /\ b < a
      BY <3>1, <2>1
    <3> QED  BY <2>1, <3>1, <3>2
  <2> HIDE DEF a
  <2>3. /\ async' \in Seq(Calls) /\ ToSet(async') = ToSet(async) \cup {a}
        /\ Len(async') = Len(async) + 1
        /\ async'[1] = a /\ \A i \in 2 .. Len(async) + 1 : async'[i] = async[i - 1]
    BY <1>a, <2>1, PushFacts
  <2>4. IsInjective(async')
    <3>1. \A i \in 1 .. Len(async) : async[i] # a
      BY <1>a, <2>2, Members DEF Pending
    <3>2. \A i, j \in 1 .. Len(async) : async[i] = async[j] => i = j
      BY <1>0, <1>a, Members DEF CallsInv, IsInjective
    <3> SUFFICES ASSUME NEW i \in 1 .. Len(async) + 1, NEW j \in 1 .. Len(async) + 1,
                        async'[i] = async'[j]
                 PROVE  i = j
      BY <2>3 DEF IsInjective
    <3>3. \A k \in 1 .. Len(async) + 1 : k # 1 =>
            k \in 2 .. Len(async) + 1 /\ k - 1 \in 1 .. Len(async) /\ k \in Nat
      BY <1>a
    <3>4. CASE i = 1 \/ j = 1
      BY <2>3, <3>1, <3>3, <3>4
    <3>5. CASE i # 1 /\ j # 1
      <4>1. async[i - 1] = async[j - 1] /\ i - 1 \in 1 .. Len(async) /\ j - 1 \in 1 .. Len(async)
        BY <2>3, <3>3, <3>5
      <4>2. i - 1 = j - 1
        BY <3>2, <4>1
      <4> QED  BY <4>2
    <3> QED  BY <3>4, <3>5
  <2>5. Pending' = Pending \cup {a}
    BY <2>1, <2>3 DEF Pending
  <2>6. ToSet(async') \cap ToSet(taken') = {}
    BY <1>0, <2>1, <2>2, <2>3 DEF CallsInv, Pending
  <2>7. /\ lastAsync' \in 0 .. MaxAsyncs /\ (\A b \in Pending' : b <= lastAsync')
        /\ ahooked' \subseteq 1 .. lastAsync'
    <3>1. lastAsync' \in 0 .. MaxAsyncs /\ a \in Nat
      BY <2>1 DEF Calls
    <3>2. \A b \in Pending' : b <= lastAsync'
      BY <2>1, <2>2, <2>5, <3>1
    <3>3. ahooked \subseteq 1 .. lastAsync
      BY <1>0 DEF CallsInv
    <3> QED  BY <2>1, <3>1, <3>2, <3>3
  <2>8. \A b \in Calls : aclears'[b] = IF b \in ahooked' \ Pending' THEN 1 ELSE 0
    BY <1>0, <2>1, <2>2, <2>5 DEF CallsInv
  <2> QED  BY <1>0, <2>1, <2>3, <2>4, <2>6, <2>7, <2>8 DEF CallsInv
<1>2. ASSUME NEW a \in Calls, AsyncSetClearFunc(a)  PROVE CallsInv'
  BY <1>0, <1>2 DEF AsyncSetClearFunc, CallsInv, Pending, Calls, passVars
<1>d. ASSUME NEW A \in SUBSET Pending, aclears' = Cleared(A), UNCHANGED <<ahooked, lastAsync>>,
             Pending' = Pending \ A
      PROVE  /\ aclears' \in [Calls -> Nat] /\ lastAsync' \in 0 .. MaxAsyncs
             /\ (\A b \in Pending' : b <= lastAsync') /\ ahooked' \subseteq 1 .. lastAsync'
             /\ \A b \in Calls : aclears'[b] = IF b \in ahooked' \ Pending' THEN 1 ELSE 0
  BY <1>0, <1>a, <1>d DEF CallsInv, Cleared
<1>3. ASSUME NEW a \in Calls, AsyncDestroy(a)  PROVE CallsInv'
  <2>1. /\ a \in ToSet(async) /\ async' \in Without(async, {a}) /\ aclears' = Cleared({a})
        /\ UNCHANGED <<taken, ahooked, lastAsync>>
    BY <1>3 DEF AsyncDestroy, passVars
  <2>2. async' \in Seq(Calls) /\ ToSet(async') = ToSet(async) \ {a}
    BY <1>a, <2>1, WithoutFacts
  <2>3. IsInjective(async')
    BY <1>0, <1>a, <2>1, WithoutInjective DEF CallsInv
  <2>4. Pending' = Pending \ {a} /\ {a} \in SUBSET Pending /\ ToSet(async') \cap ToSet(taken') = {}
    BY <1>0, <2>1, <2>2 DEF CallsInv, Pending
  <2> QED  BY <1>0, <1>d, <2>1, <2>2, <2>3, <2>4 DEF CallsInv
<1>4. ASSUME NEW D, DestroyMany(D)  PROVE CallsInv'
  <2>1. /\ async' = <<>> /\ aclears' = Cleared(ToSet(async)) /\ taken = <<>>
        /\ UNCHANGED <<taken, ahooked, lastAsync>>
    BY <1>0, <1>4 DEF DestroyMany, passVars, PassInv
  <2>2. Pending' = Pending \ ToSet(async) /\ ToSet(async) \in SUBSET Pending
    BY <1>c, <2>1 DEF Pending
  <2> QED  BY <1>0, <1>c, <1>d, <2>1, <2>2 DEF CallsInv
<1>5. ASSUME async' = <<>>, taken' = async, taken = <<>>, UNCHANGED <<ahooked, lastAsync, aclears>>
      PROVE  CallsInv'
  <2>1. Pending' = Pending
    BY <1>c, <1>5 DEF Pending
  <2> QED  BY <1>0, <1>c, <1>5, <2>1 DEF CallsInv
<1>6. ASSUME NEW d \in 0 .. MaxBusy, BeginPass(d)  PROVE CallsInv'
  BY <1>0, <1>5, <1>6 DEF BeginPass, PassInv
<1>7. ASSUME EndWalk  PROVE CallsInv'
  BY <1>0, <1>5, <1>7 DEF EndWalk, PassInv
<1>8. ASSUME NEW d \in 0 .. MaxBusy, AsyncReturn(d)  PROVE CallsInv'
  <2>1. /\ taken # <<>> /\ taken' = Tail(taken) /\ aclears' = Cleared({Head(taken)})
        /\ UNCHANGED <<async, ahooked, lastAsync>>
    BY <1>0, <1>8 DEF AsyncReturn, PassInv
  <2>2. /\ taken' \in Seq(Calls) /\ IsInjective(taken')
        /\ ToSet(taken') = ToSet(taken) \ {Head(taken)} /\ Head(taken) \in ToSet(taken)
    BY <1>0, <1>a, <2>1, PopFacts DEF CallsInv
  <2>3. /\ Pending' = Pending \ {Head(taken)} /\ {Head(taken)} \in SUBSET Pending
        /\ ToSet(async') \cap ToSet(taken') = {}
    BY <1>0, <2>1, <2>2 DEF CallsInv, Pending
  <2> QED  BY <1>0, <1>d, <2>1, <2>2, <2>3 DEF CallsInv
<1>9. ASSUME \/ SetLowResolution \/ EndPoll \/ AsyncCall \/ BeginWalk \/ WalkCleared
             \/ WalkNotDue \/ WalkDue \/ EndPass \/ Tick \/ UNCHANGED vars
             \/ (\E ms \in Delays : TimerCreate(ms))
             \/ (\E t \in Ids : \/ TimerDestroy(t) \/ TimerUnprotect(t) \/ TimerSetClearFunc(t)
                                \/ \E force \in BOOLEAN : TimerClearById(t, force))
             \/ (\E d \in 0 .. MaxBusy : \/ CallbackDone(d)
                                         \/ \E r \in Returns : CallbackAgain(r, d))
      PROVE  CallsInv'
  <2>1. UNCHANGED <<asyncVars, taken>>
    BY <1>9 DEF SetLowResolution, EndPoll, AsyncCall, BeginWalk, WalkCleared, WalkNotDue,
                WalkDue, EndPass, Tick, TimerCreate, TimerDestroy, TimerUnprotect,
                TimerSetClearFunc, TimerClearById, CallbackDone, CallbackAgain, passVars, vars
  <2> QED  BY <1>b, <2>1
<1>10. ASSUME DestroyUnprotected \/ DestroyAll  PROVE CallsInv'
  BY <1>4, <1>10 DEF DestroyUnprotected, DestroyAll
<1> QED
  BY <1>1, <1>2, <1>3, <1>6, <1>7, <1>8, <1>9, <1>10 DEF Next, App, Pass

-----------------------------------------------------------------------------
(* The pass.                                                               *)

\* The walk goes on to a timer that is listed and older, whatever became of
\* the one it stood at.
LEMMA WalkOn ==
    ASSUME TimersInv, PassInv, cur # 0, cur' = NextOf(cur), limit' = limit, lastId' = lastId,
           Listed' = Listed \ {cur} \/ Listed' = Listed
    PROVE  /\ cur' = 0 \/ (cur' \in Listed' /\ cur' <= limit')
           /\ limit' \in 0 .. lastId'
<1>1. list \in Seq(Ids) /\ Descending(list) /\ cur \in Listed /\ cur <= limit
  BY DEF TimersInv, PassInv
<1>2. /\ NextOf(cur) = 0 \/ NextOf(cur) \in Listed
      /\ NextOf(cur) \in Nat /\ NextOf(cur) < cur
  BY <1>1, NextFacts
<1>3. limit \in 0 .. lastId /\ lastId \in Nat /\ cur \in Nat
  <2>1. Listed \subseteq Ids
    BY <1>1, Members DEF Listed
  <2>2. cur \in Nat
    BY <1>1, <2>1 DEF Ids
  <2> QED  BY <2>2, TimersAssumption DEF TimersInv, PassInv
<1> QED  BY <1>1, <1>2, <1>3

\* The wait is a number of milliseconds, and not 0.
LEMMA WaitType ==
    ASSUME PassInv
    PROVE  WaitFor(soon) \in Nat
<1> USE TimersAssumption
<1> DEFINE x == soon + (IF since = NoSample THEN 0 ELSE since) + Half
           m == x \div Ms
<1>1. Half \in Int
  BY DEF Half
<1>2. x \in Int
  BY <1>1 DEF PassInv, NoSample
<1> HIDE DEF x
<1>3. m \in Int
  BY <1>2
<1>4. MinWait \in Nat \ {0}
  BY DEF MinWait
<1>5. WaitFor(soon) = IF m < MinWait THEN MinWait ELSE m
  BY DEF WaitFor, x
<1> HIDE DEF m
<1> QED  BY <1>3, <1>4, <1>5

\* UINT64_MAX is a number.
LEMMA NeverFact == Never \in Nat
BY SMT DEF Never

\* UINT64_MAX is later than the present.
LEMMA NeverPositive == 0 < Never
BY SMT DEF Never

\* Every step leaves the walk at a listed timer older than the pass, or at the
\* end of the list.
LEMMA PassStep ==
    ASSUME ListInv, [Next]_vars
    PROVE  PassInv'
<1> USE TimersAssumption
<1>0. TimersInv /\ CallsInv /\ PassInv
  BY DEF ListInv
<1>a. /\ list \in Seq(Ids) /\ due \in [Ids -> Int] /\ Listed \subseteq Ids
      /\ lastId \in Nat /\ limit \in 0 .. lastId
      /\ \A t \in Listed : t <= lastId
  BY <1>0, Members DEF TimersInv, PassInv, Listed
<1>b. \A d \in 0 .. MaxBusy : Age(d) \in [Ids -> Int]
  BY <1>0, AgeType
<1>c. \A d \in Nat : /\ SoonAfter(d) \in Int
                     /\ SinceAfter(d) \in Nat \cup {NoSample}
  BY <1>0, NeverFact DEF PassInv, SoonAfter, SinceAfter, NoSample
<1> HIDE DEF Age, AgeBeforePass
\* What the application calls leaves the pass where it is.
<1>d. ASSUME UNCHANGED <<passVars, pollVars>>, low' \in BOOLEAN, lastId' \in Nat, lastId <= lastId',
             cur = 0 \/ cur \in Listed'
      PROVE  PassInv'
  <2>1. cur' = 0 \/ (cur' \in Listed' /\ cur' <= limit')
    BY <1>0, <1>d DEF PassInv, passVars
  <2>2. limit' \in 0 .. lastId'
    BY <1>a, <1>d DEF passVars
  <2> QED  BY <1>0, <1>d, <2>1, <2>2 DEF PassInv, passVars, pollVars
<1>1. ASSUME NEW ms \in Delays, TimerCreate(ms)  PROVE PassInv'
  <2>1. Listed' = Listed \cup {lastId + 1} /\ lastId' = lastId + 1
    BY <1>0, <1>1, CreateTimers
  <2>2. cur = 0 \/ cur \in Listed'
    BY <1>0, <2>1 DEF PassInv
  <2>3. low' \in BOOLEAN
    BY <1>0, <1>1 DEF PassInv, TimerCreate
  <2> QED  BY <1>1, <1>a, <1>d, <2>1, <2>2, <2>3 DEF TimerCreate
<1>2. ASSUME NEW t \in Ids, TimerDestroy(t)  PROVE PassInv'
  <2>1. Listed' = Listed \ {t} /\ lastId' = lastId
    BY <1>0, <1>a, <1>2, UnlinkTimers DEF TimerDestroy, MayDestroy
  <2>2. cur = 0 \/ cur \in Listed'
    BY <1>0, <1>2, <2>1 DEF PassInv, TimerDestroy, MayDestroy
  <2>3. low' \in BOOLEAN
    BY <1>0, <1>2 DEF PassInv, TimerDestroy
  <2> QED  BY <1>2, <1>a, <1>d, <2>1, <2>2, <2>3 DEF TimerDestroy
<1>3. ASSUME NEW D \in SUBSET Listed, DestroyMany(D)  PROVE PassInv'
  <2>1. lastId' = lastId
    BY <1>0, <1>a, <1>3, UnlinkTimers DEF DestroyMany
  <2>2. cur = 0 /\ low' \in BOOLEAN
    BY <1>0, <1>3 DEF PassInv, DestroyMany
  <2> QED  BY <1>3, <1>a, <1>d, <2>1, <2>2 DEF DestroyMany
<1>4. ASSUME \/ SetLowResolution \/ AsyncCreate
             \/ (\E a \in Calls : AsyncSetClearFunc(a) \/ AsyncDestroy(a))
             \/ (\E t \in Ids : \/ TimerUnprotect(t) \/ TimerSetClearFunc(t)
                                \/ \E force \in BOOLEAN : TimerClearById(t, force))
             \/ UNCHANGED vars
      PROVE  PassInv'
  <2>1. UNCHANGED <<passVars, pollVars, list, lastId>> /\ (low' = low \/ low' = ~low)
    BY <1>4 DEF SetLowResolution, AsyncCreate, AsyncSetClearFunc, AsyncDestroy, TimerUnprotect,
                TimerSetClearFunc, TimerClearById, vars, listVars
  <2>2. (cur = 0 \/ cur \in Listed') /\ low' \in BOOLEAN
    BY <1>0, <2>1 DEF PassInv, Listed
  <2> QED  BY <1>a, <1>d, <2>1, <2>2
<1>5. ASSUME Tick  PROVE PassInv'
  BY <1>0, <1>5 DEF Tick, PassInv, passVars, Listed
<1>6. ASSUME EndPoll  PROVE PassInv'
  BY <1>0, <1>a, <1>6 DEF EndPoll, PassInv, listVars, Listed, Places
<1>7. ASSUME NEW d \in 0 .. MaxBusy, BeginPass(d)  PROVE PassInv'
  <2>1. /\ pc' = "first" /\ cur' = HeadOf(list) /\ limit' = lastId
        /\ UNCHANGED <<list, lastId, soon, since, wait, left, low>>
    BY <1>7 DEF BeginPass, pollVars
  <2>2. cur' = 0 \/ (cur' \in Listed' /\ cur' <= limit')
    <3>1. CASE list = <<>>
      BY <2>1, <3>1 DEF HeadOf
    <3>2. CASE list # <<>>
      <4>1. 1 \in 1 .. Len(list) /\ Head(list) = list[1]
        BY <1>a, <3>2, EmptySeq
      <4>2. Head(list) \in Listed
        BY <1>a, <4>1, Members DEF Listed
      <4> QED  BY <1>a, <2>1, <3>2, <4>2 DEF HeadOf, Listed
    <3> QED  BY <3>1, <3>2
  <2> QED  BY <1>0, <1>a, <2>1, <2>2 DEF PassInv, Places
<1>8. ASSUME AsyncCall  PROVE PassInv'
  BY <1>0, <1>8 DEF AsyncCall, PassInv, listVars, Listed, Places, pollVars
<1>9. ASSUME NEW d \in 0 .. MaxBusy, AsyncReturn(d)  PROVE PassInv'
  <2>1. soon' \in Int /\ since' \in Nat \cup {NoSample}
    BY <1>c, <1>9 DEF AsyncReturn
  <2> HIDE DEF SoonAfter, SinceAfter
  <2> QED  BY <1>0, <1>9, <2>1 DEF AsyncReturn, PassInv, Listed, Places, pollVars
<1>10. ASSUME BeginWalk  PROVE PassInv'
  BY <1>0, <1>10 DEF BeginWalk, PassInv, listVars, Listed, Places, pollVars
<1>11. ASSUME WalkCleared  PROVE PassInv'
  <2>1. {cur} \in SUBSET Listed
    BY <1>0, <1>11 DEF WalkCleared, PassInv
  <2>2. Listed' = Listed \ {cur} /\ lastId' = lastId
    BY <1>0, <1>11, <1>a, <2>1, UnlinkTimers DEF WalkCleared
  <2>3. /\ cur' = 0 \/ (cur' \in Listed' /\ cur' <= limit')
        /\ limit' \in 0 .. lastId'
    BY <1>0, <1>11, <2>2, WalkOn DEF WalkCleared
  <2> QED  BY <1>0, <1>11, <2>3 DEF WalkCleared, PassInv, pollVars
<1>12. ASSUME NEW d \in 0 .. MaxBusy, CallbackDone(d)  PROVE PassInv'
  <2>1. {cur} \in SUBSET Listed /\ cur # 0
    BY <1>0, <1>12 DEF CallbackDone, PassInv
  <2>2. Listed' = Listed \ {cur} /\ lastId' = lastId
    BY <1>0, <1>12, <1>b, <2>1, UnlinkTimers DEF CallbackDone
  <2>3. /\ cur' = 0 \/ (cur' \in Listed' /\ cur' <= limit')
        /\ limit' \in 0 .. lastId'
    BY <1>0, <1>12, <2>1, <2>2, WalkOn DEF CallbackDone
  <2>4. soon' \in Int /\ since' \in Nat \cup {NoSample}
    BY <1>c, <1>12 DEF CallbackDone
  <2> HIDE DEF SoonAfter, SinceAfter
  <2> QED  BY <1>0, <1>12, <2>3, <2>4 DEF CallbackDone, PassInv, Places, pollVars
<1>13. ASSUME NEW d \in 0 .. MaxBusy, NEW r \in Returns, CallbackAgain(r, d)  PROVE PassInv'
  <2>1. cur # 0 /\ cur \in Ids
    BY <1>0, <1>13, <1>a DEF CallbackAgain, PassInv
  <2>2. Listed' = Listed /\ lastId' = lastId
    BY <1>13 DEF CallbackAgain, Listed
  <2>3. /\ cur' = 0 \/ (cur' \in Listed' /\ cur' <= limit')
        /\ limit' \in 0 .. lastId'
    BY <1>0, <1>13, <2>1, <2>2, WalkOn DEF CallbackAgain
  <2>4. due' \in [Ids -> Int]
    <3>1. TimersInv'
      BY <1>13, TimersStep DEF Next, Pass
    <3> QED  BY <3>1 DEF TimersInv
  <2>5. soon' \in Int
    <3>1. soon' = SmallerOf(SoonAfter(d), due'[cur])
      BY <1>13 DEF CallbackAgain
    <3> QED  BY <1>c, <2>1, <2>4, <3>1 DEF SmallerOf
  <2>6. /\ since' = 0 /\ pc' = "walk" /\ pc = "callback"
        /\ UNCHANGED <<taken, low, wait, left>>
    BY <1>13 DEF CallbackAgain, pollVars
  <2> QED  BY <1>0, <2>3, <2>5, <2>6 DEF PassInv, Places
<1>14. ASSUME WalkNotDue  PROVE PassInv'
  <2>1. cur # 0 /\ cur \in Ids
    BY <1>0, <1>14, <1>a DEF WalkNotDue, PassInv
  <2>2. Listed' = Listed /\ lastId' = lastId
    BY <1>14 DEF WalkNotDue, listVars, Listed
  <2>3. /\ cur' = 0 \/ (cur' \in Listed' /\ cur' <= limit')
        /\ limit' \in 0 .. lastId'
    BY <1>0, <1>14, <2>1, <2>2, WalkOn DEF WalkNotDue
  <2>4. soon' \in Int
    BY <1>0, <1>14, <1>a, <2>1 DEF WalkNotDue, PassInv, SmallerOf
  <2> QED  BY <1>0, <1>14, <2>3, <2>4 DEF WalkNotDue, PassInv, pollVars
<1>15. ASSUME WalkDue  PROVE PassInv'
  BY <1>0, <1>15 DEF WalkDue, PassInv, listVars, Listed, Places, pollVars
<1>16. ASSUME EndWalk  PROVE PassInv'
  BY <1>0, <1>16 DEF EndWalk, PassInv, listVars, Listed, Places, pollVars
<1>17. ASSUME EndPass  PROVE PassInv'
  <2>1. wait' \in Nat
    BY <1>0, <1>17, WaitType DEF EndPass
  <2>2. left' \in Nat
    BY <1>17, <2>1 DEF EndPass
  <2>3. soon' \in Int
    BY <1>17, NeverFact DEF EndPass
  <2>4. /\ pc' = "poll" /\ pc = "last" /\ taken = <<>>
        /\ UNCHANGED <<taken, cur, since, limit, low, list, lastId>>
    BY <1>17 DEF EndPass, listVars
  <2> QED  BY <1>0, <2>1, <2>2, <2>3, <2>4 DEF PassInv, Listed, Places
<1>18. ASSUME DestroyUnprotected \/ DestroyAll  PROVE PassInv'
  BY <1>3, <1>18 DEF DestroyUnprotected, DestroyAll
<1> QED
  BY <1>1, <1>2, <1>4, <1>5, <1>6, <1>7, <1>8, <1>9, <1>10, <1>11, <1>12, <1>13, <1>14, <1>15,
     <1>16, <1>17, <1>18 DEF Next, App, Pass

\* The invariant holds when the timers are set up.
LEMMA ListInit ==
    Init => ListInv
<1> USE TimersAssumption
<1> SUFFICES ASSUME Init PROVE ListInv
  OBVIOUS
<1>1. list = <<>> /\ async = <<>> /\ taken = <<>>
  BY DEF Init
<1>2. <<>> \in Seq(Ids) /\ <<>> \in Seq(Calls) /\ ToSet(<<>>) = {} /\ IsInjective(<<>>)
      /\ Descending(<<>>)
  BY DEF ToSet, IsInjective, Descending
<1>3. TimersInv
  BY <1>1, <1>2 DEF Init, TimersInv, Listed
<1>4. CallsInv
  BY <1>1, <1>2 DEF Init, CallsInv, Pending
<1>5. PassInv
  <2>1. /\ pc = "poll" /\ cur = 0 /\ soon = Never /\ since = NoSample /\ low = FALSE
        /\ wait = 1 /\ left = Ms /\ limit = 0 /\ lastId = 0
    BY DEF Init
  <2>2. soon \in Int /\ wait \in Nat /\ left \in Nat /\ limit \in 0 .. lastId
    BY <2>1, NeverFact
  <2>3. low \in BOOLEAN /\ since \in Nat \cup {NoSample}
    BY <2>1
  <2>4. /\ pc \in Places /\ pc # "callback" /\ pc \notin {"firstcb", "lastcb"}
    BY <2>1 DEF Places
  <2> QED  BY <1>1, <2>1, <2>2, <2>3, <2>4 DEF PassInv
<1> QED  BY <1>3, <1>4, <1>5 DEF ListInv

\* The lists of timers and calls and the place of the pass between them stay
\* consistent, for any number of timers and calls and whatever the callbacks
\* do that keep to MayDestroy.
THEOREM ListsConsistent == Spec => []ListInv
<1>1. ListInv /\ [Next]_vars => ListInv'
  BY TimersStep, CallsStep, PassStep DEF ListInv
<1> QED  BY ListInit, <1>1, PTL DEF Spec

\* The pointer ape_timers_process walks the list with is to an allocated timer
\* older than the pass, and no call is both on the list and about to be made.
THEOREM WalkStaysValid == Spec => []WalkValid
<1>1. ListInv => WalkValid
  <2> SUFFICES ASSUME ListInv PROVE WalkValid
    OBVIOUS
  <2>1. IsInjective(list)
    <3>1. /\ list \in Seq(Ids) /\ Descending(list) /\ DOMAIN list = 1 .. Len(list) /\ Len(list) \in Nat
          /\ Ids \subseteq Nat
      BY DEF ListInv, TimersInv, Ids
    <3>2. ASSUME NEW i \in 1 .. Len(list), NEW j \in 1 .. Len(list), i < j  PROVE list[i] # list[j]
      <4>1. list[i] > list[j] /\ list[i] \in Nat /\ list[j] \in Nat
        <5>1. list[i] \in Ids /\ list[j] \in Ids
          BY <3>1
        <5> QED  BY <3>1, <3>2, <5>1 DEF Descending
      <4> QED  BY <4>1
    <3> QED  BY <3>1, <3>2 DEF IsInjective
  <2> QED  BY <2>1 DEF ListInv, CallsInv, PassInv, WalkValid, Places
<1> QED  BY <1>1, ListsConsistent, PTL

\* Whoever ends a timer or an asynchronous call, its clearfunc is called once,
\* and not before.
THEOREM AllReleasedOnce == Spec => []ReleasedOnce
<1>1. ListInv => ReleasedOnce
  <2> SUFFICES ASSUME ListInv PROVE ReleasedOnce
    OBVIOUS
  <2>1. \A t \in Ids : clears[t] = IF t \in hooked \ Listed THEN 1 ELSE 0
    BY DEF ListInv, TimersInv
  <2>2. \A a \in Calls : aclears[a] =
          IF a \in ahooked \ (ToSet(async) \cup ToSet(taken)) THEN 1 ELSE 0
    BY DEF ListInv, CallsInv, Pending
  <2> QED  BY <2>1, <2>2, Zenon DEF ReleasedOnce
<1> QED  BY <1>1, ListsConsistent, PTL

-----------------------------------------------------------------------------
(* The wait.                                                               *)

\* No timer is scheduled later than its ticks_needs from now.
LEMMA SchedulesStep ==
    ASSUME ListInv, Schedules, [Next]_vars
    PROVE  Schedules'
<1>0. /\ TimersInv /\ PassInv
      /\ due \in [Ids -> Int] /\ needs \in [Ids -> Nat] /\ Listed \subseteq Ids
  <2>1. TimersInv /\ PassInv /\ list \in Seq(Ids)
    BY DEF ListInv, TimersInv
  <2>2. Listed \subseteq Ids
    BY <2>1, Members DEF Listed
  <2> QED  BY <2>1, <2>2 DEF TimersInv
<1>a. \A d \in Nat : \A t \in Ids :
        /\ Age(d)[t] \in Int /\ Age(d)[t] <= needs[t]
        /\ AgeBeforePass(d)[t] \in Int /\ AgeBeforePass(d)[t] <= needs[t]
  <2> TAKE d \in Nat
  <2>1. \A t \in Ids : Age(d)[t] \in Int /\ Age(d)[t] <= needs[t]
    BY <1>0 DEF Age, Schedules
  <2> HIDE DEF Age
  <2> QED  BY <1>0, <2>1 DEF AgeBeforePass
<1>b. MaxBusy \in Nat /\ 0 .. MaxBusy \subseteq Nat
  BY TimersAssumption
<1> HIDE DEF Age, AgeBeforePass
<1>c. ASSUME NEW D, NEW schedules, Unlink(D, schedules),
             \A t \in Ids : schedules[t] <= needs[t]
      PROVE  Schedules'
  <2>1. \A t \in Ids : /\ due'[t] = IF t \in D THEN 0 ELSE schedules[t]
                       /\ needs'[t] = IF t \in D THEN 0 ELSE needs[t]
    BY <1>c DEF Unlink
  <2> QED  BY <1>0, <1>c, <2>1, NeverPositive DEF Schedules
<1>d. ASSUME UNCHANGED <<due, needs>>  PROVE Schedules'
  BY <1>d DEF Schedules
<1>1. ASSUME NEW ms \in Delays, TimerCreate(ms)  PROVE Schedules'
  <2>1. ms * Ms < Never /\ ms * Ms \in Nat
    BY TimersAssumption
  <2> DEFINE v == ms * Ms
  <2>3. due' = [due EXCEPT ![lastId + 1] = v] /\ needs' = [needs EXCEPT ![lastId + 1] = v]
    BY <1>1 DEF TimerCreate
  <2> DEFINE n == lastId + 1
  <2> HIDE DEF v
  <2>2. \A t \in Ids : \/ due'[t] = v /\ needs'[t] = v
                       \/ due'[t] = due[t] /\ needs'[t] = needs[t]
    <3>1. due' = [due EXCEPT ![n] = v] /\ needs' = [needs EXCEPT ![n] = v]
      BY <2>3
    <3> HIDE DEF n
    <3> QED  BY <1>0, <3>1
  <2>4. v \in Nat /\ v < Never
    BY <2>1 DEF v
  <2> QED  BY <2>2, <2>4 DEF Schedules
<1>2. ASSUME NEW t \in Ids, TimerDestroy(t)  PROVE Schedules'
  BY <1>c, <1>2 DEF TimerDestroy, Schedules
<1>3. ASSUME NEW D, DestroyMany(D)  PROVE Schedules'
  BY <1>c, <1>3 DEF DestroyMany, Schedules
<1>4. ASSUME Tick  PROVE Schedules'
  BY <1>4, <1>a DEF Tick, Schedules
<1>5. ASSUME NEW d \in 0 .. MaxBusy, BeginPass(d)  PROVE Schedules'
  BY <1>5, <1>a, <1>b DEF BeginPass, Schedules
<1>6. ASSUME NEW d \in 0 .. MaxBusy, AsyncReturn(d)  PROVE Schedules'
  BY <1>6, <1>a, <1>b DEF AsyncReturn, Schedules
<1>7. ASSUME WalkCleared  PROVE Schedules'
  BY <1>c, <1>7 DEF WalkCleared, Schedules
<1>8. ASSUME NEW d \in 0 .. MaxBusy, CallbackDone(d)  PROVE Schedules'
  BY <1>8, <1>a, <1>b, <1>c DEF CallbackDone
<1>9. ASSUME NEW d \in 0 .. MaxBusy, NEW r \in Returns, CallbackAgain(r, d)  PROVE Schedules'
  <2>1. cur \in Ids
    BY <1>0, <1>9 DEF CallbackAgain, PassInv
  <2>2. r # -1 => r * Ms < Never /\ r * Ms \in Nat
    BY TimersAssumption
  <2>3. \A t \in Ids : /\ needs'[t] \in Nat /\ needs'[t] < Never
                       /\ t # cur => needs'[t] = needs[t]
    BY <1>0, <1>9, <2>1, <2>2 DEF CallbackAgain, Schedules
  <2>4. \A t \in Ids : due'[t] = IF t = cur THEN needs'[cur] - d ELSE Age(d)[t]
    <3>1. Age(d) \in [Ids -> Int]
      BY <1>0, AgeType
    <3> QED  BY <1>9, <3>1 DEF CallbackAgain
  <2>5. d \in Nat
    BY <1>b
  <2>6. ASSUME NEW t \in Ids  PROVE due'[t] <= needs'[t]
    <3> DEFINE n == needs'[t]
    <3>0. n \in Nat
      BY <2>3
    <3>1. CASE t = cur
      <4>1. due'[t] = n - d
        BY <2>4, <3>1
      <4> HIDE DEF n
      <4>2. n - d <= n
        BY <2>5, <3>0
      <4> QED  BY <4>1, <4>2 DEF n
    <3>2. CASE t # cur
      <4>1. due'[t] = Age(d)[t] /\ n = needs[t]
        BY <2>3, <2>4, <3>2
      <4>2. Age(d)[t] <= needs[t]
        BY <1>a, <2>5
      <4> QED  BY <4>1, <4>2
    <3> QED  BY <3>1, <3>2
  <2> QED  BY <2>3, <2>6 DEF Schedules
<1>10. ASSUME \/ SetLowResolution \/ AsyncCreate \/ EndPoll \/ AsyncCall \/ BeginWalk
              \/ WalkNotDue \/ WalkDue \/ EndWalk \/ EndPass
              \/ (\E a \in Calls : AsyncSetClearFunc(a) \/ AsyncDestroy(a))
              \/ (\E t \in Ids : \/ TimerUnprotect(t) \/ TimerSetClearFunc(t)
                                 \/ \E force \in BOOLEAN : TimerClearById(t, force))
              \/ UNCHANGED vars
       PROVE  Schedules'
  <2>1. UNCHANGED <<due, needs>>
    BY <1>10 DEF SetLowResolution, AsyncCreate, EndPoll, AsyncCall, BeginWalk, WalkNotDue,
                 WalkDue, EndWalk, EndPass, AsyncSetClearFunc, AsyncDestroy, TimerUnprotect,
                 TimerSetClearFunc, TimerClearById, vars, listVars
  <2> QED  BY <1>d, <2>1
<1>11. ASSUME DestroyUnprotected \/ DestroyAll  PROVE Schedules'
  BY <1>3, <1>11 DEF DestroyUnprotected, DestroyAll
<1> QED
  BY <1>1, <1>2, <1>4, <1>5, <1>6, <1>7, <1>8, <1>9, <1>10, <1>11 DEF Next, App, Pass

\* The walk passes one timer at a time.
LEMMA PassedOne ==
    ASSUME TimersInv, PassInv, cur # 0, cur' = NextOf(cur), limit' = limit,
           Listed' \subseteq Listed, cleared \ {cur} \subseteq cleared'
    PROVE  \A t \in Passed' : t = cur \/ t \in Passed
<1>1. list \in Seq(Ids) /\ Descending(list) /\ cur \in Listed
  BY DEF TimersInv, PassInv
<1>2. /\ NextOf(cur) \in Nat
      /\ \A u \in Listed : u < cur => u <= NextOf(cur)
  BY <1>1, NextFacts
<1>3. Listed \subseteq Ids /\ Ids \subseteq Nat
  <2>1. Listed \subseteq Ids
    BY <1>1, Members DEF Listed
  <2> QED  BY <2>1 DEF Ids
<1> SUFFICES ASSUME NEW t \in Passed', t # cur  PROVE t \in Passed
  OBVIOUS
<1>4. t \in Listed /\ t \notin cleared /\ t <= limit /\ t > NextOf(cur)
  BY DEF Passed
<1>5. t \in Nat /\ cur \in Nat
  BY <1>1, <1>3, <1>4
<1>6. ~(t < cur)
  BY <1>2, <1>4, <1>5
<1> QED  BY <1>4, <1>5, <1>6 DEF Passed

\* Before the walk comes to a new timer, soon is no later than the schedule of
\* any that it has passed.
LEMMA SoonStep ==
    ASSUME ListInv, Schedules, SoonInv, [Next]_vars
    PROVE  SoonInv'
<1> USE TimersAssumption
<1>0. /\ TimersInv /\ PassInv /\ soon \in Int /\ Never \in Nat
      /\ due \in [Ids -> Int] /\ needs \in [Ids -> Nat] /\ Listed \subseteq Ids
      /\ list \in Seq(Ids) /\ MaxBusy \in Nat
  <2>1. TimersInv /\ PassInv /\ list \in Seq(Ids)
    BY DEF ListInv, TimersInv
  <2>2. Listed \subseteq Ids
    BY <2>1, Members DEF Listed
  <2> QED  BY <2>1, <2>2, NeverFact DEF TimersInv, PassInv
<1>a. Ids \subseteq Nat \ {0} /\ Passed \subseteq Listed
  BY DEF Ids, Passed
<1>b. \A t \in Ids : due[t] \in Int /\ due[t] < Never
  BY <1>0 DEF Schedules
\* What the application does changes nothing for the timers already passed.
<1>c. ASSUME UNCHANGED passVars, \A t \in Passed' : t \in Passed /\ due'[t] = due[t]
      PROVE  SoonInv'
  BY <1>c DEF SoonInv, passVars, InPass
\* Time goes by for soon as it does for the timers.
<1>d. ASSUME NEW d \in 0 .. MaxBusy, soon # Never \/ Passed = {}, InPass
      PROVE  /\ SoonAfter(d) <= Never /\ SoonAfter(d) \in Int
             /\ \A t \in Passed : SoonAfter(d) <= Age(d)[t]
  <2>1. SoonAfter(d) <= Never /\ SoonAfter(d) \in Int
    BY <1>0 DEF SoonAfter, SoonInv
  <2>2. ASSUME NEW t \in Passed  PROVE SoonAfter(d) <= Age(d)[t]
    <3>1. soon <= due[t] /\ t \in Listed /\ t \in Ids
      BY <1>0, <1>a, <1>d DEF SoonInv
    <3>2. Age(d)[t] = due[t] - d /\ SoonAfter(d) = soon - d
      BY <1>d, <3>1 DEF Age, SoonAfter
    <3> QED  BY <1>0, <1>b, <3>1, <3>2
  <2> QED  BY <2>1, <2>2
<1>e. ASSUME InPass  PROVE soon # Never \/ Passed = {}
  <2>1. \A t \in Passed : soon <= due[t] /\ due[t] < Never /\ due[t] \in Int
    BY <1>e, <1>0, <1>a, <1>b DEF SoonInv
  <2> QED  BY <2>1, <1>0
<1>1. ASSUME NEW ms \in Delays, TimerCreate(ms)  PROVE SoonInv'
  <2>1. Listed' = Listed \cup {lastId + 1} /\ lastId' = lastId + 1
    BY <1>0, <1>1, CreateTimers
  <2>2. /\ UNCHANGED passVars /\ cleared' = cleared
        /\ \A t \in Ids : t # lastId + 1 => due'[t] = due[t]
    BY <1>0, <1>1 DEF TimerCreate
  <2>3. limit \in 0 .. lastId /\ lastId \in Nat
    BY <1>0 DEF TimersInv, PassInv
  <2>4. ASSUME NEW t \in Passed'  PROVE t \in Passed /\ due'[t] = due[t]
    <3>1. t \in Listed' /\ t \notin cleared /\ t <= limit /\ t > cur
      BY <2>2 DEF Passed, passVars
    <3>2. t # lastId + 1
      BY <2>3, <3>1
    <3> QED  BY <1>0, <2>1, <2>2, <3>1, <3>2 DEF Passed
  <2> QED  BY <1>c, <2>2, <2>4
<1>f. ASSUME NEW D \in SUBSET Listed, Unlink(D, due), UNCHANGED passVars  PROVE SoonInv'
  <2>1. Listed' = Listed \ D
    BY <1>0, <1>f, UnlinkTimers
  <2>2. \A t \in Passed' : t \in Passed
    BY <1>f, <2>1 DEF Passed, Unlink, passVars
  <2>3. \A t \in Ids : t \notin D => due'[t] = due[t]
    BY <1>f DEF Unlink
  <2>4. \A t \in Passed' : t \in Listed'
    BY DEF Passed
  <2> QED  BY <1>0, <1>c, <1>f, <2>1, <2>2, <2>3, <2>4
<1>2. ASSUME NEW t \in Ids, TimerDestroy(t)  PROVE SoonInv'
  BY <1>f, <1>2 DEF TimerDestroy, MayDestroy
<1>3. ASSUME NEW D \in SUBSET Listed, DestroyMany(D)  PROVE SoonInv'
  BY <1>f, <1>3 DEF DestroyMany
<1>4. ASSUME \/ SetLowResolution \/ AsyncCreate
             \/ (\E a \in Calls : AsyncSetClearFunc(a) \/ AsyncDestroy(a))
             \/ (\E t \in Ids : \/ TimerUnprotect(t) \/ TimerSetClearFunc(t)
                                \/ \E force \in BOOLEAN : TimerClearById(t, force))
             \/ UNCHANGED vars
      PROVE  SoonInv'
  <2>1. UNCHANGED <<passVars, list, due>> /\ cleared \subseteq cleared'
    BY <1>4 DEF SetLowResolution, AsyncCreate, AsyncSetClearFunc, AsyncDestroy, TimerUnprotect,
                TimerSetClearFunc, TimerClearById, vars, listVars
  <2>2. \A t \in Passed' : t \in Passed /\ due'[t] = due[t]
    BY <2>1 DEF Passed, Listed, passVars
  <2> QED  BY <1>c, <2>1, <2>2
<1>5. ASSUME Tick  PROVE SoonInv'
  BY <1>5 DEF Tick, SoonInv, InPass, passVars
<1>6. ASSUME EndPoll  PROVE SoonInv'
  BY <1>6 DEF EndPoll, SoonInv, InPass
<1>7. ASSUME NEW d \in 0 .. MaxBusy, BeginPass(d)  PROVE SoonInv'
  <2>1. /\ pc = "events" /\ pc' = "first" /\ cur' = HeadOf(list) /\ soon' = soon
        /\ list' = list
    BY <1>7 DEF BeginPass
  <2>2. \A t \in Listed : t <= HeadOf(list)
    <3> TAKE t \in Listed
    <3>1. PICK i \in 1 .. Len(list) : list[i] = t
      BY <1>0, Members DEF Listed
    <3>2. list # <<>> /\ Head(list) = list[1] /\ 1 \in DOMAIN list /\ i \in DOMAIN list
      BY <1>0, <3>1
    <3>3. i = 1 \/ list[1] > list[i]
      <4>1. i = 1 \/ 1 < i
        BY <3>1
      <4>2. Descending(list)
        BY <1>0 DEF TimersInv
      <4> QED  BY <3>2, <4>1, <4>2, Zenon DEF Descending
    <3>4. list[1] \in Nat /\ list[i] \in Nat
      <4>1. list[1] \in Ids /\ list[i] \in Ids
        BY <1>0, <3>2
      <4> QED  BY <1>a, <4>1
    <3> QED  BY <3>1, <3>2, <3>3, <3>4 DEF HeadOf
  <2>3. HeadOf(list) \in Nat
    <3>1. list # <<>> => Head(list) \in Ids
      BY <1>0
    <3> QED  BY <1>a, <3>1 DEF HeadOf
  <2>4. Passed' = {}
    <3> SUFFICES ASSUME NEW t \in Passed'  PROVE FALSE
      OBVIOUS
    <3>1. t \in Listed /\ t > HeadOf(list)
      BY <2>1 DEF Passed, Listed
    <3>2. t \in Nat
      BY <1>0, <1>a, <3>1
    <3> QED  BY <2>2, <2>3, <3>1, <3>2
  <2> QED  BY <1>0, <2>1, <2>4 DEF SoonInv, InPass
<1>8. ASSUME NEW d \in 0 .. MaxBusy, AsyncReturn(d)  PROVE SoonInv'
  <2>1. /\ InPass /\ InPass' /\ due' = Age(d) /\ soon' = SoonAfter(d) /\ Passed' = Passed
    BY <1>8 DEF AsyncReturn, InPass, Passed, Listed
  <2> HIDE DEF Age, SoonAfter
  <2> QED  BY <1>d, <1>e, <2>1 DEF SoonInv
<1>9. ASSUME AsyncCall \/ BeginWalk \/ WalkDue \/ EndWalk  PROVE SoonInv'
  <2>1. InPass /\ InPass' /\ UNCHANGED <<due, soon, list, cleared, limit, cur>>
    BY <1>9 DEF AsyncCall, BeginWalk, WalkDue, EndWalk, InPass, listVars
  <2>2. Passed' = Passed
    BY <2>1 DEF Passed, Listed
  <2> QED  BY <2>1, <2>2 DEF SoonInv
<1>10. ASSUME WalkCleared  PROVE SoonInv'
  <2>1. cur \in Listed /\ cur # 0 /\ InPass /\ InPass' /\ UNCHANGED <<soon, limit>>
        /\ cur' = NextOf(cur) /\ Unlink({cur}, due)
    BY <1>0, <1>10 DEF WalkCleared, PassInv, InPass
  <2>2. Listed' = Listed \ {cur}
    BY <1>0, <2>1, UnlinkTimers
  <2>3. cleared' = cleared \ {cur} /\ \A t \in Ids : t # cur => due'[t] = due[t]
    BY <2>1 DEF Unlink
  <2>4. \A t \in Passed' : t = cur \/ t \in Passed
    BY <1>0, <2>1, <2>2, <2>3, PassedOne
  <2>5. \A t \in Passed' : t # cur /\ t \in Ids
    BY <1>0, <2>2 DEF Passed
  <2> QED  BY <2>1, <2>3, <2>4, <2>5 DEF SoonInv
<1>11. ASSUME WalkNotDue  PROVE SoonInv'
  <2>1. /\ cur # 0 /\ InPass /\ InPass' /\ soon' = SmallerOf(soon, due[cur])
        /\ cur' = NextOf(cur) /\ UNCHANGED <<limit, list, cleared, due>> /\ cur \in Ids
    BY <1>0, <1>11 DEF WalkNotDue, PassInv, InPass, listVars
  <2>2. \A t \in Passed' : t = cur \/ t \in Passed
    BY <1>0, <2>1, PassedOne DEF Listed
  <2>3. soon' \in Int /\ soon' <= soon /\ soon' <= due[cur] /\ due[cur] \in Int
    BY <1>0, <2>1 DEF SmallerOf
  <2>4. soon <= Never /\ \A t \in Passed : soon <= due[t] /\ due[t] \in Int
    BY <1>0, <1>a, <2>1 DEF SoonInv
  <2>5. \A t \in Passed' : soon' <= due[t]
    BY <1>0, <2>2, <2>3, <2>4
  <2>6. soon' <= Never
    BY <1>0, <2>3, <2>4
  <2> QED  BY <2>1, <2>5, <2>6 DEF SoonInv
<1>12. ASSUME NEW d \in 0 .. MaxBusy, CallbackDone(d)  PROVE SoonInv'
  <2>1. cur \in Listed /\ cur # 0 /\ InPass /\ InPass' /\ soon' = SoonAfter(d) /\ limit' = limit
        /\ cur' = NextOf(cur) /\ Unlink({cur}, Age(d))
    BY <1>0, <1>12 DEF CallbackDone, PassInv, InPass
  <2>a. /\ Age(d) \in [Ids -> Int] /\ SoonAfter(d) <= Never
        /\ \A t \in Passed : SoonAfter(d) <= Age(d)[t]
    <3>1. d \in Nat
      BY <1>0
    <3>2. soon # Never \/ Passed = {}
      BY <1>e, <2>1
    <3>3. Age(d) \in [Ids -> Int]
      BY <1>0, <3>1, AgeType
    <3> HIDE DEF Age, SoonAfter
    <3> QED  BY <1>d, <2>1, <3>2, <3>3
  <2> HIDE DEF Age, SoonAfter
  <2>2. Listed' = Listed \ {cur}
    BY <1>0, <2>1, <2>a, UnlinkTimers
  <2>3. cleared' = cleared \ {cur} /\ \A t \in Ids : t # cur => due'[t] = Age(d)[t]
    BY <2>1 DEF Unlink
  <2>4. \A t \in Passed' : t = cur \/ t \in Passed
    BY <1>0, <2>1, <2>2, <2>3, PassedOne
  <2>5. \A t \in Passed' : t # cur /\ t \in Ids
    BY <1>0, <2>2 DEF Passed
  <2> QED  BY <2>1, <2>a, <2>3, <2>4, <2>5 DEF SoonInv
<1>13. ASSUME NEW d \in 0 .. MaxBusy, NEW r \in Returns, CallbackAgain(r, d)  PROVE SoonInv'
  <2>1. /\ cur \in Ids /\ cur # 0 /\ InPass /\ InPass' /\ limit' = limit /\ cur' = NextOf(cur)
        /\ soon' = SmallerOf(SoonAfter(d), due'[cur]) /\ UNCHANGED <<list, cleared>>
        /\ due' = [Age(d) EXCEPT ![cur] = needs'[cur] - d]
    BY <1>0, <1>13 DEF CallbackAgain, PassInv, InPass
  <2>a. /\ Age(d) \in [Ids -> Int] /\ SoonAfter(d) <= Never /\ SoonAfter(d) \in Int
        /\ \A t \in Passed : SoonAfter(d) <= Age(d)[t]
    <3>1. d \in Nat
      BY <1>0
    <3>2. soon # Never \/ Passed = {}
      BY <1>e, <2>1
    <3>3. Age(d) \in [Ids -> Int]
      BY <1>0, <3>1, AgeType
    <3> HIDE DEF Age, SoonAfter
    <3> QED  BY <1>d, <2>1, <3>2, <3>3
  <2> HIDE DEF Age, SoonAfter
  <2>2. \A t \in Passed' : t = cur \/ t \in Passed
    BY <1>0, <2>1, PassedOne DEF Listed
  <2>3. due' \in [Ids -> Int] /\ \A t \in Ids : t # cur => due'[t] = Age(d)[t]
    <3>1. TimersInv'
      BY <1>13, TimersStep DEF Next, Pass
    <3>2. due' \in [Ids -> Int]
      BY <3>1 DEF TimersInv
    <3> QED  BY <2>1, <2>a, <3>2
  <2>4. soon' \in Int /\ soon' <= SoonAfter(d) /\ soon' <= due'[cur] /\ due'[cur] \in Int
    BY <2>1, <2>a, <2>3 DEF SmallerOf
  <2>5. ASSUME NEW t \in Passed'  PROVE soon' <= due'[t]
    <3>1. CASE t = cur
      BY <2>4, <3>1
    <3>2. CASE t # cur
      <4>1. t \in Passed /\ t \in Ids
        BY <1>0, <1>a, <2>2, <3>2
      <4> QED  BY <2>3, <2>4, <2>a, <3>2, <4>1
    <3> QED  BY <3>1, <3>2
  <2>6. soon' <= Never
    BY <1>0, <2>4, <2>a
  <2> QED  BY <2>1, <2>5, <2>6 DEF SoonInv
<1>14. ASSUME EndPass  PROVE SoonInv'
  BY <1>0, <1>14 DEF EndPass, SoonInv, InPass
<1>15. ASSUME DestroyUnprotected \/ DestroyAll  PROVE SoonInv'
  BY <1>3, <1>15 DEF DestroyUnprotected, DestroyAll
<1> QED
  BY <1>1, <1>2, <1>4, <1>5, <1>6, <1>7, <1>8, <1>9, <1>10, <1>11, <1>12, <1>13, <1>14, <1>15
  DEF Next, App, Pass

\* The wait ape_timers_process returns is no longer than the next schedule of
\* any timer it has passed, counted from lastsample and rounded.
LEMMA EndPassWait ==
    ASSUME ListInv, Schedules, SoonInv, EndPass
    PROVE  WaitSound' /\ left' = wait' * Ms
<1> USE TimersAssumption
<1>0. /\ soon \in Int /\ Never \in Nat /\ due \in [Ids -> Int] /\ since \in Nat \cup {NoSample}
      /\ list \in Seq(Ids) /\ needs \in [Ids -> Nat] /\ pc = "last" /\ cur = 0
      /\ UNCHANGED <<since, list, cleared, due, limit, low>> /\ left' = wait' * Ms
      /\ wait' = IF soon = Never THEN Resolution ELSE WaitFor(soon)
  BY NeverFact DEF ListInv, TimersInv, PassInv, EndPass, listVars
<1>1. Listed \subseteq Ids /\ Ids \subseteq Nat \ {0} /\ Listed' = Listed
  <2>1. Listed \subseteq Ids /\ Listed' = Listed
    BY <1>0, Members DEF Listed
  <2> QED  BY <2>1 DEF Ids
<1> DEFINE S == IF since = NoSample THEN 0 ELSE since
           ms == (soon + S + Half) \div Ms
<1>2. S \in Int /\ Half \in Int
  BY <1>0 DEF NoSample, Half
<1>3. ms \in Int /\ ms * Ms <= soon + S + Half
  <2> DEFINE x == soon + S + Half
  <2>1. x \in Int
    BY <1>0, <1>2
  <2> HIDE DEF x
  <2>2. x \div Ms \in Int /\ (x \div Ms) * Ms <= x
    BY <2>1
  <2> QED  BY <2>2 DEF x
<1>4. WaitFor(soon) = IF ms < MinWait THEN MinWait ELSE ms
  BY DEF WaitFor
<1>5. MinWait' = MinWait /\ MinWait \in Nat
  BY <1>0 DEF MinWait
<1>6. ASSUME NEW t \in Listed \ cleared, t <= limit  PROVE soon <= due[t] /\ soon # Never
  <2>1. t \in Passed /\ t \in Ids
    BY <1>0, <1>1, <1>6 DEF Passed
  <2> QED  BY <1>0, <2>1 DEF SoonInv, Schedules, InPass
<1> HIDE DEF S, ms
<1>7. ASSUME NEW t \in Listed \ cleared, t <= limit
      PROVE  wait' <= MinWait \/ left' <= due[t] + Half + S
  <2>1. wait' = IF ms < MinWait THEN MinWait ELSE ms
    BY <1>0, <1>4, <1>6, <1>7
  <2>2. CASE ms < MinWait
    BY <1>5, <2>1, <2>2
  <2>3. CASE ~(ms < MinWait)
    <3>1. left' = ms * Ms /\ ms * Ms \in Int
      <4>1. wait' = ms /\ left' = wait' * Ms
        BY <1>0, <2>1, <2>3
      <4>2. ms * Ms \in Int
        BY <1>3
      <4> QED  BY <4>1, <4>2
    <3>2. soon <= due[t] /\ due[t] \in Int
      BY <1>0, <1>1, <1>6, <1>7
    <3> DEFINE v == ms * Ms
    <3>3. left' = v /\ v \in Int /\ v <= soon + S + Half /\ soon \in Int
      BY <1>0, <1>3, <3>1
    <3> HIDE DEF v
    <3> QED  BY <1>2, <3>2, <3>3
  <2> QED  BY <2>2, <2>3
<1>8. WaitSound'
  BY <1>0, <1>1, <1>5, <1>7 DEF WaitSound, S
<1> QED  BY <1>0, <1>8

\* While the loop waits, time only shortens what is left of the wait.
LEMMA WaitStep ==
    ASSUME ListInv, WaitInv, [Next]_vars
    PROVE  WaitInv'
<1> USE TimersAssumption
<1>1. Schedules' /\ SoonInv'
  BY SchedulesStep, SoonStep DEF WaitInv
<1>2. ASSUME pc' # "poll"  PROVE WaitInv'
  BY <1>1, <1>2 DEF WaitInv, WaitSound
<1>3. ASSUME pc' = "poll"  PROVE EndPass \/ Tick \/ UNCHANGED vars
  BY <1>3 DEF Next, App, Pass, AppRuns, TimerCreate, TimerDestroy, TimerUnprotect, TimerSetClearFunc,
     TimerClearById, SetLowResolution, AsyncCreate, AsyncSetClearFunc, AsyncDestroy, DestroyMany,
     DestroyUnprotected, DestroyAll, EndPoll, BeginPass, AsyncReturn, CallbackDone, CallbackAgain,
     AsyncCall, BeginWalk, WalkCleared, WalkNotDue, WalkDue, EndWalk, passVars
<1>4. ASSUME EndPass  PROVE WaitInv'
  <2>1. WaitSound' /\ left' = wait' * Ms
    BY <1>4, EndPassWait DEF WaitInv
  <2>2. wait' * Ms \in Int
    <3>1. wait' \in Nat
      BY PassStep DEF PassInv
    <3> QED  BY <3>1
  <2> QED  BY <1>1, <2>1, <2>2 DEF WaitInv
<1>5. ASSUME Tick  PROVE WaitInv'
  <2>1. /\ left \in Nat /\ wait \in Nat /\ left <= wait * Ms /\ left' = left - 1
        /\ wait' = wait /\ pc' = pc /\ wait * Ms \in Int
    BY <1>5 DEF Tick, WaitInv, ListInv, PassInv, passVars
  <2>2. left' < wait' * Ms /\ left' # wait' * Ms /\ left' <= wait' * Ms
    BY <2>1
  <2> QED  BY <1>1, <2>2 DEF WaitInv, WaitSound
<1>6. ASSUME UNCHANGED vars  PROVE WaitInv'
  BY <1>1, <1>6 DEF WaitInv, WaitSound, vars, listVars, passVars, pollVars, Listed, MinWait
<1> QED  BY <1>2, <1>3, <1>4, <1>5, <1>6

\* The wait handed to poll is no longer than any timer older than the pass
\* allows, for any number of timers, delays and lengths of callbacks.
THEOREM WaitsNoLonger == Spec => []WaitSound
<1>1. Init => WaitInv
  <2> SUFFICES ASSUME Init PROVE WaitInv
    OBVIOUS
  <2>1. Schedules
    BY NeverPositive DEF Init, Schedules
  <2>2. SoonInv
    BY NeverFact DEF Init, SoonInv, InPass
  <2>3. list = <<>> /\ left = Ms /\ wait = 1
    BY DEF Init
  <2>4. Listed = {}
    BY <2>3 DEF Listed, ToSet
  <2>5. left <= wait * Ms
    BY <2>3, TimersAssumption
  <2> QED  BY <2>1, <2>2, <2>4, <2>5 DEF WaitInv, WaitSound
<1>2. ListInv /\ WaitInv /\ [Next]_vars => WaitInv'
  BY WaitStep
<1>3. WaitInv => WaitSound
  BY DEF WaitInv
<1> QED  BY <1>1, <1>2, <1>3, ListsConsistent, PTL DEF Spec

=============================================================================
