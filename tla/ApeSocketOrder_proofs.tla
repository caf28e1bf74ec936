----------------------- MODULE ApeSocketOrder_proofs -----------------------
(***************************************************************************)
(* Proofs about ApeSocketJobs for an application that does everything the  *)
(* module allows: writes, vectors, files that may fail, and shutdowns,     *)
(* with the type bits of jobs mixed as they come.  Nothing is left then of *)
(* the shapes that ApeSocketJobs_proofs rests on; the order stays.         *)
(***************************************************************************)
EXTENDS ApeSocketJobs_proofs

-----------------------------------------------------------------------------
(* The inductive invariant.                                                *)

\* What a slot of the job list may be
GoodList == {l \in ListType : l.current \in 1 .. Len(l.slots)}
JobPtr   == {NullPtr} \cup {ListPtr(l) : l \in GoodList}
              \cup {FilePtr(b, n, o) : b \in Nat, n \in Nat, o \in Nat}
JobSlot  == [active : BOOLEAN, flags : SUBSET {"WRITEV", "SENDFILE", "SHUTDOWN"}, ptr : JobPtr]
RowType  == [slots : Seq(JobSlot), current : Nat]

\* Only the active slots from the head on, up to the first idle one, will
\* ever be worked on.
Ahead(t, j) == \A i \in 1 .. j : t[i].active

\* All that such a slot can send comes behind byte from, and not behind byte
\* to; a packet list ends with byte to.
Sends(s, from, to) ==
    /\ s.flags # {}
    /\ s.flags = {"WRITEV"} =>
         /\ s.ptr.kind = "list" /\ s.ptr.list.current > 1
         /\ \E x \in Nat : from <= x /\ Stretch(s.ptr.list, x, to, TRUE)
    /\ s.flags = {"SENDFILE"} =>
         /\ s.ptr.kind = "file" /\ s.ptr.off <= s.ptr.len
         /\ from <= s.ptr.base + s.ptr.off /\ s.ptr.base + s.ptr.len <= to

\* A slot that is taken for new data holds no old data, as far as it is ever
\* sent.
Unused(s) ==
    /\ s.flags = {} => s.ptr = NullPtr
    /\ s.flags = {"WRITEV"} => s.ptr.kind = "list" /\ Empty(s.ptr.list)

\* The jobs send bytes of the stream in the order of the list, job j none
\* behind pos[j].  Behind an idle slot that is not the current one anything
\* may be: it is never reached.
Rows(t, c, pos) ==
    /\ t \in Seq(JobSlot) /\ c \in 1 .. Len(t)
    /\ pos \in [0 .. c -> Nat]
    /\ \A i, k \in 0 .. c : i <= k => pos[i] <= pos[k]
    /\ \A j \in 1 .. c : Ahead(t, j) => Sends(t[j], pos[j - 1], pos[j])
    /\ Ahead(t, c - 1) /\ ~t[c].active => Unused(t[c])
    /\ \A j \in c + 1 .. Len(t) : t[j] = NoJob

\* What went out is in order, and nothing of it behind byte x
OutUpTo(w, x) ==
    /\ w \in Seq(Nat) /\ \A i \in 1 .. Len(w) : w[i] <= x
    /\ \A i, k \in 1 .. Len(w) : i < k => w[i] < w[k]

RowsInv ==
    \E pos : /\ Rows(jobs.slots, jobs.current, pos) /\ OutUpTo(wire, pos[0])
             /\ pos[jobs.current] = accepted

OrderInv ==
    /\ jobs \in RowType /\ accepted \in 0 .. MaxStream /\ room \in 0 .. SndBuf
    /\ RowsInv

-----------------------------------------------------------------------------
(* Slots and lists.                                                        *)

\* The fields of the three kinds of pointers, and of a fresh slot.
LEMMA PtrFacts ==
    /\ NullPtr.kind = "null" /\ NullPtr \in JobPtr
    /\ \A l : ListPtr(l).kind = "list" /\ ListPtr(l).list = l
    /\ \A l \in GoodList : ListPtr(l) \in JobPtr
    /\ \A b, n, o : /\ FilePtr(b, n, o).kind = "file" /\ FilePtr(b, n, o).base = b
                    /\ FilePtr(b, n, o).len = n /\ FilePtr(b, n, o).off = o
    /\ \A b, n, o \in Nat : FilePtr(b, n, o) \in JobPtr
    /\ NoJob \in JobSlot /\ ~NoJob.active /\ NoJob.flags = {} /\ NoJob.ptr = NullPtr
    /\ Unused(NoJob)
<1>1. /\ NullPtr.kind = "null" /\ NullPtr \in JobPtr
      /\ \A l : ListPtr(l).kind = "list" /\ ListPtr(l).list = l
      /\ \A b, n, o : /\ FilePtr(b, n, o).kind = "file" /\ FilePtr(b, n, o).base = b
                      /\ FilePtr(b, n, o).len = n /\ FilePtr(b, n, o).off = o
  BY DEF NullPtr, ListPtr, FilePtr, JobPtr
<1>2. \A l \in GoodList : ListPtr(l) \in JobPtr
  BY DEF JobPtr
<1>3. \A b, n, o \in Nat : FilePtr(b, n, o) \in JobPtr
  BY DEF JobPtr
<1>4. ~NoJob.active /\ NoJob.flags = {} /\ NoJob.ptr = NullPtr
  BY DEF NoJob
<1>5. NoJob \in JobSlot
  <2> DEFINE N == NullPtr
  <2>1. N \in JobPtr
    BY <1>1
  <2> HIDE DEF N
  <2>2. [active |-> FALSE, flags |-> {}, ptr |-> N] \in JobSlot
    BY <2>1 DEF JobSlot
  <2> QED  BY <2>2 DEF N, NoJob
<1>6. Unused(NoJob)
  BY <1>4 DEF Unused
<1> QED  BY <1>1, <1>2, <1>3, <1>4, <1>5, <1>6

\* What kind a pointer is of says what it holds.
LEMMA PtrKinds ==
    ASSUME NEW y \in JobPtr
    PROVE  /\ y.kind = "null" => y = NullPtr
           /\ y.kind = "list" => y = ListPtr(y.list) /\ y.list \in GoodList
           /\ y.kind = "file" => /\ y = FilePtr(y.base, y.len, y.off)
                                 /\ y.base \in Nat /\ y.len \in Nat /\ y.off \in Nat
           /\ y.kind \in {"null", "list", "file"}
<1>1. CASE y = NullPtr
  BY <1>1, PtrFacts
<1>2. CASE \E l \in GoodList : y = ListPtr(l)
  BY <1>2, PtrFacts
<1>3. CASE \E b, n, o \in Nat : y = FilePtr(b, n, o)
  BY <1>3, PtrFacts
<1> QED  BY <1>1, <1>2, <1>3 DEF JobPtr

\* A slot is a record of three fields, each of which can be set.
LEMMA SlotIs ==
    ASSUME NEW s \in JobSlot
    PROVE  /\ s = [active |-> s.active, flags |-> s.flags, ptr |-> s.ptr]
           /\ s.active \in BOOLEAN /\ s.ptr \in JobPtr
           /\ s.flags \in SUBSET {"WRITEV", "SENDFILE", "SHUTDOWN"}
BY DEF JobSlot

\* A slot that is made, and what EXCEPT does to it.
LEMMA NewSlot ==
    ASSUME NEW v \in BOOLEAN, NEW fl \in SUBSET {"WRITEV", "SENDFILE", "SHUTDOWN"}, NEW y \in JobPtr
    PROVE  /\ [active |-> v, flags |-> fl, ptr |-> y] \in JobSlot
           /\ \A x : [[active |-> v, flags |-> fl, ptr |-> y] EXCEPT !.ptr = x] =
                       [active |-> v, flags |-> fl, ptr |-> x]
           /\ [[active |-> v, flags |-> fl, ptr |-> y] EXCEPT !.active = FALSE] =
                [active |-> FALSE, flags |-> fl, ptr |-> y]
<1>1. [active |-> v, flags |-> fl, ptr |-> y] \in JobSlot
  BY DEF JobSlot
<1>2. \A x : [[active |-> v, flags |-> fl, ptr |-> y] EXCEPT !.ptr = x] =
               [active |-> v, flags |-> fl, ptr |-> x]
  OBVIOUS
<1>3. \A w \in BOOLEAN : [[active |-> v, flags |-> fl, ptr |-> y] EXCEPT !.active = w] =
                           [active |-> w, flags |-> fl, ptr |-> y]
  OBVIOUS
<1>4. FALSE \in BOOLEAN
  OBVIOUS
<1>5. [[active |-> v, flags |-> fl, ptr |-> y] EXCEPT !.active = FALSE] =
        [active |-> FALSE, flags |-> fl, ptr |-> y]
  BY <1>3, <1>4, Zenon
<1> QED  BY <1>1, <1>2, <1>5

\* The slots of a list with a spare one.
LEMMA SpareRow ==
    ASSUME NEW q \in RowType, q.current \in 1 .. Len(q.slots)
    PROVE  /\ q.slots \in Seq(JobSlot) /\ Len(q.slots) \in Nat
           /\ Spare(q) \in Seq(JobSlot) /\ Len(Spare(q)) \in Nat
           /\ q.current + 1 \in 1 .. Len(Spare(q)) /\ Len(Spare(q)) >= Len(q.slots)
           /\ \A i \in 1 .. Len(q.slots) : Spare(q)[i] = q.slots[i]
           /\ \A i \in Len(q.slots) + 1 .. Len(Spare(q)) : Spare(q)[i] = NoJob
<1> DEFINE n == Len(q.slots)
           c == q.current
           g == Grown(q.slots, NoJob, 2)
<1>1. q.slots \in Seq(JobSlot) /\ n \in Nat /\ c \in 1 .. n
  BY DEF RowType
<1>2. /\ g \in Seq(JobSlot) /\ Len(g) = n + 2 /\ \A i \in 1 .. n : g[i] = q.slots[i]
      /\ \A i \in n + 1 .. n + 2 : g[i] = NoJob
  <2>1. \A k \in Nat : Extended(JobSlot, q.slots, NoJob, k, Grown(q.slots, NoJob, k))
    BY <1>1, PtrFacts, GrowFacts, Zenon
  <2>2. Extended(JobSlot, q.slots, NoJob, 2, g)
    <3>1. 2 \in Nat
      OBVIOUS
    <3> QED  BY <2>1, <3>1, Zenon
  <2> HIDE DEF g
  <2> QED  BY <2>2 DEF Extended
<1> HIDE DEF g
<1>3. CASE c = n
  <2>1. Spare(q) = g
    BY <1>3 DEF Spare, g
  <2> QED  BY <1>1, <1>2, <1>3, <2>1
<1>4. CASE c # n
  <2>1. Spare(q) = q.slots
    BY <1>4 DEF Spare
  <2> QED  BY <1>1, <1>4, <2>1
<1> QED  BY <1>3, <1>4

\* What ape_socket_job_get_slot returns, whatever the slots hold.
LEMMA GetSlotRow ==
    ASSUME NEW q \in RowType, q.current \in 1 .. Len(q.slots), NEW ty
    PROVE  LET u == Room(q, ty)
               k == Place(q, ty)
           IN  /\ u \in Seq(JobSlot) /\ Len(u) \in Nat /\ Len(u) >= Len(q.slots)
               /\ k \in 1 .. Len(u) /\ k \in {q.current, q.current + 1}
               /\ \A i \in 1 .. Len(q.slots) : u[i] = q.slots[i]
               /\ \A i \in Len(q.slots) + 1 .. Len(u) : u[i] = NoJob
               /\ k # q.current => q.slots[q.current].active
               /\ k = q.current /\ q.slots[q.current].active =>
                    ty = "WRITEV" /\ "WRITEV" \in q.slots[q.current].flags
               /\ JobGetSlot(q, ty) = [slots |-> Put(u, k, Marked(u[k], ty)), current |-> k]
<1> DEFINE n == Len(q.slots)
           c == q.current
           t == Spare(q)
           g == IF c = n THEN GrowPool(q, NoJob, 2) ELSE q
<1>1. /\ q.slots \in Seq(JobSlot) /\ n \in Nat /\ t \in Seq(JobSlot) /\ Len(t) \in Nat
      /\ c + 1 \in 1 .. Len(t) /\ c \in 1 .. n
      /\ Len(t) >= n /\ (\A i \in 1 .. n : t[i] = q.slots[i])
      /\ \A i \in n + 1 .. Len(t) : t[i] = NoJob
  BY SpareRow
<1>2. q = [slots |-> q.slots, current |-> c]
  BY DEF RowType
<1>3. g = [slots |-> t, current |-> c]
  <2>1. GrowPool(q, NoJob, 2) = [slots |-> Grown(q.slots, NoJob, 2), current |-> c]
    <3>1. GrowPool(q, NoJob, 2) = [q EXCEPT !.slots = Grown(q.slots, NoJob, 2)]
      BY DEF GrowPool, Grown
    <3> QED  BY <1>2, <3>1
  <2> QED  BY <1>2, <2>1 DEF Spare
<1>4. [g EXCEPT !.current = @ + 1] = [slots |-> t, current |-> c + 1]
  BY <1>3
<1> HIDE DEF t
<1>5. CASE Open(q, ty)
  <2>1. JobGetSlot(q, ty) = Mark(q, c, ty)
    BY <1>5 DEF JobGetSlot, Open
  <2>2. Mark(q, c, ty) = [slots |-> Put(q.slots, c, Marked(q.slots[c], ty)), current |-> c]
    <3> DEFINE z == q.slots
    <3>1. q = [slots |-> z, current |-> c]
      BY <1>2
    <3> HIDE DEF z, c
    <3>2. Mark([slots |-> z, current |-> c], c, ty) =
            [slots |-> Put(z, c, Marked(z[c], ty)), current |-> c]
      BY MarkIs DEF Put
    <3>3. Mark(q, c, ty) = Mark([slots |-> z, current |-> c], c, ty)
      BY <3>1
    <3> QED  BY <3>2, <3>3 DEF z, c
  <2>3. Room(q, ty) = q.slots /\ Place(q, ty) = c
    BY <1>5 DEF Room, Place
  <2>4. q.slots[c].active => ty = "WRITEV" /\ "WRITEV" \in q.slots[c].flags
    BY <1>5 DEF Open
  <2> QED  BY <1>1, <2>1, <2>2, <2>3, <2>4
<1>6. CASE ~Open(q, ty)
  <2>1. JobGetSlot(q, ty) = Mark([g EXCEPT !.current = @ + 1], c + 1, ty)
    BY <1>6 DEF JobGetSlot, Open
  <2>2. JobGetSlot(q, ty) = Mark([slots |-> t, current |-> c + 1], c + 1, ty)
    BY <1>4, <2>1
  <2>3. Mark([slots |-> t, current |-> c + 1], c + 1, ty) =
          [slots |-> Put(t, c + 1, Marked(t[c + 1], ty)), current |-> c + 1]
    BY MarkIs DEF Put
  <2>4. Room(q, ty) = t /\ Place(q, ty) = c + 1
    BY <1>6 DEF Room, Place, t
  <2>5. q.slots[c].active /\ c + 1 # c
    BY <1>1, <1>6 DEF Open
  <2> QED  BY <1>1, <2>2, <2>3, <2>4, <2>5
<1> QED  BY <1>5, <1>6

-----------------------------------------------------------------------------
(* What the steps do to the rows.                                          *)

\* Writing one slot.
LEMMA PutIs ==
    ASSUME NEW u \in Seq(JobSlot), NEW k \in 1 .. Len(u), NEW s \in JobSlot
    PROVE  /\ Put(u, k, s) \in Seq(JobSlot) /\ Len(Put(u, k, s)) = Len(u)
           /\ Put(u, k, s)[k] = s /\ \A i \in 1 .. Len(u) : i # k => Put(u, k, s)[i] = u[i]
BY DEF Put

\* The row with a head that is idle: nothing in it will be sent before
\* what comes now.
LEMMA Restart ==
    ASSUME NEW t, NEW c, NEW pos, Rows(t, c, pos), ~t[1].active, NEW x \in Nat
    PROVE  \E pos2 : Rows(t, c, pos2) /\ pos2[0] = x /\ pos2[c] = x
<1>1. c \in 1 .. Len(t) /\ Len(t) \in Nat
  BY DEF Rows
<1> DEFINE new == [i \in 0 .. c |-> x]
<1>2. new \in [0 .. c -> Nat] /\ \A i \in 0 .. c : new[i] = x
  OBVIOUS
<1>3. 0 \in 0 .. c /\ c \in 0 .. c
  BY <1>1
<1>4. \A j \in 1 .. c : ~Ahead(t, j)
  <2>1. \A j \in 1 .. c : 1 \in 1 .. j
    BY <1>1
  <2> QED  BY <2>1 DEF Ahead
<1> HIDE DEF new
<1>5. \A i, k \in 0 .. c : i <= k => new[i] <= new[k]
  BY <1>2
<1>6. Rows(t, c, new)
  BY <1>2, <1>4, <1>5 DEF Rows
<1> QED  BY <1>2, <1>3, <1>6

\* The row, made longer if need be, has a slot at current, or behind it when
\* current is active.
SlotAt(t, c, u, k) ==
    /\ u \in Seq(JobSlot) /\ Len(u) >= Len(t)
    /\ \A i \in 1 .. Len(t) : u[i] = t[i]
    /\ \A i \in Len(t) + 1 .. Len(u) : u[i] = NoJob
    /\ k \in {c, c + 1} /\ k \in 1 .. Len(u) /\ (k # c => t[c].active)

\* That slot is written.
LEMMA PutRow ==
    ASSUME NEW t, NEW c, NEW pos, Rows(t, c, pos),
           NEW u, NEW k, SlotAt(t, c, u, k),
           NEW s \in JobSlot, NEW a \in Nat, pos[c] <= a,
           NEW from, from = (IF k = c THEN pos[c - 1] ELSE pos[c]),
           Ahead(t, k - 1) /\ s.active => Sends(s, from, a),
           Ahead(t, k - 1) /\ ~s.active => Unused(s)
    PROVE  \E pos2 : Rows(Put(u, k, s), k, pos2) /\ pos2[0] = pos[0] /\ pos2[k] = a
<1> DEFINE v == Put(u, k, s)
           new == [i \in 0 .. k |-> IF i = k THEN a ELSE pos[i]]
<1>0. /\ u \in Seq(JobSlot) /\ Len(u) >= Len(t)
      /\ \A i \in 1 .. Len(t) : u[i] = t[i]
      /\ \A i \in Len(t) + 1 .. Len(u) : u[i] = NoJob
      /\ k \in {c, c + 1} /\ k \in 1 .. Len(u) /\ (k # c => t[c].active)
  BY DEF SlotAt
<1>1. /\ t \in Seq(JobSlot) /\ c \in 1 .. Len(t) /\ Len(t) \in Nat /\ Len(u) \in Nat
      /\ pos \in [0 .. c -> Nat] /\ (\A i, j \in 0 .. c : i <= j => pos[i] <= pos[j])
      /\ (\A j \in 1 .. c : Ahead(t, j) => Sends(t[j], pos[j - 1], pos[j]))
      /\ \A j \in c + 1 .. Len(t) : t[j] = NoJob
  BY <1>0 DEF Rows
<1>2. /\ v \in Seq(JobSlot) /\ Len(v) = Len(u) /\ v[k] = s
      /\ \A i \in 1 .. Len(u) : i # k => v[i] = u[i]
  BY <1>0, PutIs
<1> HIDE DEF v
<1>3. /\ c \in Nat /\ k \in Nat /\ 1 <= c /\ c <= k /\ k <= c + 1
      /\ 0 \in 0 .. k /\ k \in 0 .. k /\ 0 # k /\ k - 1 \in 0 .. c /\ c \in 0 .. c
  BY <1>0, <1>1
<1>4. /\ \A i \in 0 .. k : new[i] = IF i = k THEN a ELSE pos[i]
      /\ new \in [0 .. k -> Nat]
  <2>1. ASSUME NEW i \in 0 .. k  PROVE (IF i = k THEN a ELSE pos[i]) \in Nat
    <3>1. i # k => i \in 0 .. c
      BY <1>3
    <3> QED  BY <1>1, <3>1
  <2> QED  BY <2>1
<1> HIDE DEF new
<1>5. new[0] = pos[0] /\ new[k] = a
  BY <1>3, <1>4
<1>6. \A i, j \in 0 .. k : i <= j => new[i] <= new[j]
  <2> SUFFICES ASSUME NEW i \in 0 .. k, NEW j \in 0 .. k, i <= j  PROVE new[i] <= new[j]
    OBVIOUS
  <2>1. CASE j = k
    <3>1. CASE i = k
      BY <1>4, <2>1, <3>1
    <3>2. CASE i # k
      <4>1. i \in 0 .. c /\ i <= c
        BY <1>0, <1>3, <3>2
      <4>2. pos[i] <= pos[c] /\ pos[i] \in Nat /\ pos[c] \in Nat
        BY <1>1, <1>3, <4>1
      <4> QED  BY <1>4, <2>1, <3>2, <4>2
    <3> QED  BY <3>1, <3>2
  <2>2. CASE j # k
    <3>1. i # k /\ i \in 0 .. c /\ j \in 0 .. c
      BY <1>0, <1>3, <2>2
    <3> QED  BY <1>1, <1>4, <2>2, <3>1
  <2> QED  BY <2>1, <2>2
<1>7. \A i \in 1 .. k - 1 : v[i] = t[i]
  <2>1. \A i \in 1 .. k - 1 : i \in 1 .. Len(t) /\ i \in 1 .. Len(u) /\ i # k
    BY <1>0, <1>1, <1>3
  <2> QED  BY <1>0, <1>2, <2>1
<1>8. \A j \in 0 .. k - 1 : Ahead(v, j) <=> Ahead(t, j)
  <2>1. \A j \in 0 .. k - 1 : \A i \in 1 .. j : i \in 1 .. k - 1
    BY <1>3
  <2> QED  BY <1>7, <2>1 DEF Ahead
<1>9. k - 1 \in 0 .. k - 1 /\ k \in 1 .. k
  BY <1>3
<1>10. Ahead(v, k) => Ahead(t, k - 1) /\ s.active
  <2>1. \A i \in 1 .. k - 1 : i \in 1 .. k
    BY <1>3
  <2> QED  BY <1>2, <1>7, <1>9, <2>1 DEF Ahead
<1>11. ASSUME NEW j \in 1 .. k, Ahead(v, j)  PROVE Sends(v[j], new[j - 1], new[j])
  <2>1. CASE j = k
    <3>1. k - 1 \in 0 .. k /\ k - 1 # k
      BY <1>3
    <3>2. new[k - 1] = from
      <4>1. k # c => k - 1 = c
        BY <1>3
      <4>2. new[k - 1] = pos[k - 1]
        BY <1>4, <3>1
      <4> QED  BY <4>1, <4>2
    <3>3. Sends(s, new[k - 1], a)
      BY <1>10, <1>11, <2>1, <3>2
    <3> QED  BY <1>2, <1>5, <2>1, <3>3
  <2>2. CASE j # k
    <3>1. j \in 1 .. k - 1 /\ j \in 0 .. k - 1 /\ j \in 1 .. c /\ j \in 0 .. k /\ j - 1 \in 0 .. k
          /\ j - 1 # k
      BY <1>0, <1>3, <2>2
    <3>2. Ahead(t, j)
      BY <1>8, <1>11, <3>1
    <3>3. Sends(t[j], pos[j - 1], pos[j])
      BY <1>1, <3>1, <3>2
    <3>4. v[j] = t[j] /\ new[j - 1] = pos[j - 1] /\ new[j] = pos[j]
      BY <1>4, <1>7, <2>2, <3>1
    <3> QED  BY <3>3, <3>4
  <2> QED  BY <2>1, <2>2
<1>12. Ahead(v, k - 1) /\ ~v[k].active => Unused(v[k])
  BY <1>2, <1>8, <1>9
<1>13. ASSUME NEW j \in k + 1 .. Len(v)  PROVE v[j] = NoJob
  <2>1. j \in 1 .. Len(u) /\ j # k /\ j > c
    BY <1>0, <1>2, <1>3
  <2>2. v[j] = u[j]
    BY <1>2, <2>1
  <2>3. CASE j <= Len(t)
    <3>1. j \in 1 .. Len(t) /\ j \in c + 1 .. Len(t)
      BY <1>1, <1>3, <2>1, <2>3
    <3> QED  BY <1>0, <1>1, <2>2, <3>1
  <2>4. CASE j > Len(t)
    <3>1. j \in Len(t) + 1 .. Len(u)
      BY <1>1, <2>1, <2>4
    <3> QED  BY <1>0, <2>2, <3>1
  <2> QED  BY <1>1, <2>1, <2>3, <2>4
<1>14. Rows(v, k, new)
  BY <1>0, <1>2, <1>4, <1>6, <1>11, <1>12, <1>13 DEF Rows
<1> QED  BY <1>5, <1>14 DEF v

\* A head that has less to send than before.
LEMMA HeadSends ==
    ASSUME NEW t, NEW c, NEW pos, Rows(t, c, pos), t[1].active,
           NEW s \in JobSlot, s.active,
           NEW x \in Nat, pos[0] <= x, x <= pos[1], Sends(s, x, pos[1])
    PROVE  \E pos2 : Rows(Put(t, 1, s), c, pos2) /\ pos2[0] = x /\ pos2[c] = pos[c]
<1> DEFINE v == Put(t, 1, s)
           new == [i \in 0 .. c |-> IF i = 0 THEN x ELSE pos[i]]
<1>1. /\ t \in Seq(JobSlot) /\ c \in 1 .. Len(t) /\ Len(t) \in Nat
      /\ pos \in [0 .. c -> Nat] /\ (\A i, j \in 0 .. c : i <= j => pos[i] <= pos[j])
      /\ (\A j \in 1 .. c : Ahead(t, j) => Sends(t[j], pos[j - 1], pos[j]))
      /\ (Ahead(t, c - 1) /\ ~t[c].active => Unused(t[c]))
      /\ \A j \in c + 1 .. Len(t) : t[j] = NoJob
  BY DEF Rows
<1>2. 1 \in 1 .. Len(t) /\ 0 \in 0 .. c /\ 1 \in 0 .. c /\ c \in 0 .. c /\ c # 0 /\ c \in Nat
  BY <1>1
<1>3. /\ v \in Seq(JobSlot) /\ Len(v) = Len(t) /\ v[1] = s
      /\ \A i \in 1 .. Len(t) : i # 1 => v[i] = t[i]
  BY <1>1, <1>2, PutIs
<1> HIDE DEF v
<1>4. \A i \in 0 .. c : new[i] = (IF i = 0 THEN x ELSE pos[i]) /\ new[i] \in Nat
  BY <1>1
<1>5. new \in [0 .. c -> Nat]
  BY <1>1
<1> HIDE DEF new
<1>6. \A i, j \in 0 .. c : i <= j => new[i] <= new[j]
  <2> SUFFICES ASSUME NEW i \in 0 .. c, NEW j \in 0 .. c, i <= j  PROVE new[i] <= new[j]
    OBVIOUS
  <2>1. CASE i # 0
    BY <1>1, <1>4, <2>1
  <2>2. CASE i = 0 /\ j = 0
    BY <1>4, <2>2
  <2>3. CASE i = 0 /\ j # 0
    <3>1. 1 <= j /\ pos[1] <= pos[j] /\ pos[1] \in Nat /\ pos[j] \in Nat
      BY <1>1, <1>2, <2>3
    <3> QED  BY <1>4, <2>3, <3>1
  <2> QED  BY <2>1, <2>2, <2>3
<1>7. \A i \in 1 .. Len(t) : v[i].active <=> t[i].active
  BY <1>3
<1>8. \A j \in 0 .. c : Ahead(v, j) <=> Ahead(t, j)
  <2>1. \A j \in 0 .. c : \A i \in 1 .. j : i \in 1 .. Len(t)
    BY <1>1
  <2> QED  BY <1>7, <2>1 DEF Ahead
<1>9. ASSUME NEW j \in 1 .. c, Ahead(v, j)  PROVE Sends(v[j], new[j - 1], new[j])
  <2>1. CASE j = 1
    <3>1. new[1 - 1] = x /\ new[1] = pos[1]
      <4>1. 1 - 1 = 0
        OBVIOUS
      <4> QED  BY <1>2, <1>4, <4>1
    <3> QED  BY <1>3, <2>1, <3>1
  <2>2. CASE j # 1
    <3>1. j \in 0 .. c /\ j - 1 \in 0 .. c /\ j # 0 /\ j - 1 # 0 /\ j \in 1 .. Len(t)
      BY <1>1, <2>2
    <3>2. v[j] = t[j] /\ new[j - 1] = pos[j - 1] /\ new[j] = pos[j]
      BY <1>3, <1>4, <2>2, <3>1
    <3>3. Sends(t[j], pos[j - 1], pos[j])
      BY <1>1, <1>8, <1>9, <3>1
    <3> QED  BY <3>2, <3>3
  <2> QED  BY <2>1, <2>2
<1>10. Ahead(v, c - 1) /\ ~v[c].active => Unused(v[c])
  <2>1. c - 1 \in 0 .. c /\ c \in 1 .. Len(t)
    BY <1>1
  <2>2. CASE c = 1
    BY <1>3, <2>2
  <2>3. CASE c # 1
    BY <1>1, <1>3, <1>8, <2>1, <2>3
  <2> QED  BY <2>2, <2>3
<1>11. \A j \in c + 1 .. Len(v) : v[j] = NoJob
  <2>1. \A j \in c + 1 .. Len(v) : j \in 1 .. Len(t) /\ j # 1 /\ j \in c + 1 .. Len(t)
    BY <1>1, <1>3
  <2> QED  BY <1>1, <1>3, <2>1
<1>12. Rows(v, c, new)
  BY <1>1, <1>3, <1>5, <1>6, <1>9, <1>10, <1>11 DEF Rows
<1>13. new[0] = x /\ new[c] = pos[c]
  BY <1>2, <1>4
<1> QED  BY <1>12, <1>13 DEF v

\* The end of the head's job: the slot goes behind current, and is free.
LEMMA HeadRetires ==
    ASSUME NEW t, NEW c, NEW pos, Rows(t, c, pos), t[1].active,
           NEW s \in JobSlot, ~s.active, Unused(s)
    PROVE  LET r == IF c = 1 THEN Put(t, 1, s) ELSE Rotated(Put(t, 1, s), c)
           IN  /\ r \in Seq(JobSlot)
               /\ \E pos2 : Rows(r, c, pos2) /\ pos2[0] = pos[1] /\ pos2[c] = pos[c]
<1> DEFINE v == Put(t, 1, s)
           r == IF c = 1 THEN v ELSE Rotated(v, c)
           new == [i \in 0 .. c |-> IF i = c THEN pos[c] ELSE pos[i + 1]]
<1>1. /\ t \in Seq(JobSlot) /\ c \in 1 .. Len(t) /\ Len(t) \in Nat
      /\ pos \in [0 .. c -> Nat] /\ (\A i, j \in 0 .. c : i <= j => pos[i] <= pos[j])
      /\ (\A j \in 1 .. c : Ahead(t, j) => Sends(t[j], pos[j - 1], pos[j]))
      /\ \A j \in c + 1 .. Len(t) : t[j] = NoJob
  BY DEF Rows
<1>2. 1 \in 1 .. Len(t) /\ 0 \in 0 .. c /\ 1 \in 0 .. c /\ c \in 0 .. c /\ c # 0 /\ c \in Nat
  BY <1>1
<1>3. /\ v \in Seq(JobSlot) /\ Len(v) = Len(t) /\ v[1] = s
      /\ \A i \in 1 .. Len(t) : i # 1 => v[i] = t[i]
  BY <1>1, <1>2, PutIs
<1> HIDE DEF v
<1>4. /\ r \in Seq(JobSlot) /\ Len(r) = Len(t) /\ r[c] = s
      /\ \A i \in 1 .. c - 1 : r[i] = t[i + 1]
      /\ \A i \in c + 1 .. Len(t) : r[i] = t[i]
  <2>1. CASE c = 1
    <3>1. r = v
      BY <2>1
    <3>2. \A i \in c + 1 .. Len(t) : i \in 1 .. Len(t) /\ i # 1
      BY <1>1
    <3>3. \A i \in 1 .. c - 1 : FALSE
      BY <2>1
    <3> HIDE DEF r
    <3> QED  BY <1>3, <2>1, <3>1, <3>2, <3>3
  <2>2. CASE c # 1
    <3>1. r = Rotated(v, c) /\ c \in 1 .. Len(v)
      BY <1>1, <1>3, <2>2
    <3> HIDE DEF r
    <3>2. /\ r \in Seq(JobSlot) /\ Len(r) = Len(v) /\ r[c] = v[1]
          /\ \A i \in 1 .. c - 1 : r[i] = v[i + 1]
          /\ \A i \in c + 1 .. Len(v) : r[i] = v[i]
      BY <1>3, <3>1, HeadFacts
    <3>3. \A i \in 1 .. c - 1 : i + 1 \in 1 .. Len(t) /\ i + 1 # 1
      BY <1>1
    <3>4. \A i \in c + 1 .. Len(t) : i \in 1 .. Len(t) /\ i # 1
      BY <1>1
    <3> QED  BY <1>3, <3>2, <3>3, <3>4
  <2> QED  BY <2>1, <2>2
<1> HIDE DEF r
<1>5. /\ \A i \in 0 .. c : new[i] = IF i = c THEN pos[c] ELSE pos[i + 1]
      /\ new \in [0 .. c -> Nat]
  <2>1. ASSUME NEW i \in 0 .. c  PROVE (IF i = c THEN pos[c] ELSE pos[i + 1]) \in Nat
    <3>1. i # c => i + 1 \in 0 .. c
      BY <1>2
    <3> QED  BY <1>1, <1>2, <3>1
  <2> QED  BY <2>1
<1> HIDE DEF new
<1>6. \A i, j \in 0 .. c : i <= j => new[i] <= new[j]
  <2> SUFFICES ASSUME NEW i \in 0 .. c, NEW j \in 0 .. c, i <= j  PROVE new[i] <= new[j]
    OBVIOUS
  <2>1. CASE j = c /\ i = c
    BY <1>1, <1>2, <1>5, <2>1
  <2>2. CASE j = c /\ i # c
    <3>1. i + 1 \in 0 .. c /\ i + 1 <= c
      BY <1>2, <2>2
    <3> QED  BY <1>1, <1>2, <1>5, <2>2, <3>1
  <2>3. CASE j # c
    <3>1. i # c /\ i + 1 \in 0 .. c /\ j + 1 \in 0 .. c /\ i + 1 <= j + 1
      BY <1>2, <2>3
    <3> QED  BY <1>1, <1>5, <2>3, <3>1
  <2> QED  BY <2>1, <2>2, <2>3
<1>7. ASSUME NEW j \in 0 .. c - 1  PROVE Ahead(r, j) => Ahead(t, j + 1)
  <2>1. ASSUME Ahead(r, j), NEW i \in 1 .. j + 1  PROVE t[i].active
    <3>1. CASE i = 1
      BY <3>1
    <3>2. CASE i # 1
      <4>1. i - 1 \in 1 .. j /\ i - 1 \in 1 .. c - 1 /\ (i - 1) + 1 = i
        BY <1>2, <3>2
      <4>2. r[i - 1] = t[i] /\ r[i - 1].active
        BY <1>4, <2>1, <4>1 DEF Ahead
      <4> QED  BY <4>2
    <3> QED  BY <3>1, <3>2
  <2> QED  BY <2>1 DEF Ahead
<1>8. ASSUME NEW j \in 1 .. c, Ahead(r, j)  PROVE Sends(r[j], new[j - 1], new[j])
  <2>1. j # c
    <3>1. j \in 1 .. j
      BY <1>2
    <3> QED  BY <1>4, <1>8, <3>1 DEF Ahead
  <2>2. j \in 0 .. c - 1 /\ j \in 1 .. c - 1 /\ j + 1 \in 1 .. c /\ (j + 1) - 1 = j /\ j \in 0 .. c
        /\ j - 1 \in 0 .. c /\ j - 1 # c /\ (j - 1) + 1 = j
    BY <1>2, <2>1
  <2>3. Sends(t[j + 1], pos[(j + 1) - 1], pos[j + 1])
    BY <1>1, <1>7, <1>8, <2>2
  <2>4. r[j] = t[j + 1] /\ new[j - 1] = pos[j] /\ new[j] = pos[j + 1]
    BY <1>4, <1>5, <2>1, <2>2
  <2> QED  BY <2>2, <2>3, <2>4
<1>9. \A j \in c + 1 .. Len(r) : r[j] = NoJob
  BY <1>1, <1>4
<1>10. Rows(r, c, new)
  BY <1>1, <1>4, <1>5, <1>6, <1>8, <1>9 DEF Rows
<1>11. new[0] = pos[1] /\ new[c] = pos[c]
  <2>1. 0 + 1 = 1 /\ 0 # c
    BY <1>2
  <2> QED  BY <1>2, <1>5, <2>1
<1> QED  BY <1>4, <1>10, <1>11 DEF r, v

-----------------------------------------------------------------------------
(* What goes out.                                                          *)

\* Bytes that follow what went out keep it in order.
LEMMA OutGrows ==
    ASSUME NEW w, NEW x \in Nat, OutUpTo(w, x), NEW z \in Nat, x <= z, NEW k \in Nat,
           NEW b, b = [i \in 1 .. k |-> z + i]
    PROVE  OutUpTo(w \o b, z + k)
<1>1. /\ w \in Seq(Nat) /\ Len(w) \in Nat /\ (\A i \in 1 .. Len(w) : w[i] \in Nat /\ w[i] <= x)
      /\ \A i, j \in 1 .. Len(w) : i < j => w[i] < w[j]
  BY DEF OutUpTo
<1>2. b \in Seq(Nat) /\ Len(b) = k /\ \A i \in 1 .. k : b[i] = z + i
  <2>1. \A i \in 1 .. k : z + i \in Nat
    OBVIOUS
  <2> QED  BY <2>1
<1>3. /\ w \o b \in Seq(Nat) /\ Len(w \o b) = Len(w) + k
      /\ \A i \in 1 .. Len(w) : (w \o b)[i] = w[i]
      /\ \A i \in Len(w) + 1 .. Len(w) + k : (w \o b)[i] = b[i - Len(w)]
  BY <1>1, <1>2
<1> DEFINE v == w \o b
           n == Len(w)
<1> HIDE DEF v, n
<1>4. /\ v \in Seq(Nat) /\ Len(v) = n + k /\ n \in Nat
      /\ \A i \in 1 .. n : v[i] = w[i] /\ w[i] \in Nat /\ w[i] <= x
  BY <1>1, <1>3 DEF v, n
<1>5. \A i \in n + 1 .. n + k : v[i] = z + (i - n) /\ i - n \in 1 .. k
  <2>1. \A i \in n + 1 .. n + k : i - n \in 1 .. k
    BY <1>4
  <2> QED  BY <1>2, <1>3, <2>1 DEF v, n
<1>6. \A i \in 1 .. n + k : i \in 1 .. n \/ i \in n + 1 .. n + k
  BY <1>4
<1>7. ASSUME NEW i \in 1 .. n + k  PROVE v[i] <= z + k
  <2>1. CASE i \in 1 .. n
    <3>1. v[i] \in Nat /\ v[i] <= x
      BY <1>4, <2>1
    <3> QED  BY <3>1
  <2>2. CASE i \in n + 1 .. n + k
    <3>1. v[i] = z + (i - n) /\ i - n \in 1 .. k
      BY <1>5, <2>2
    <3> QED  BY <3>1
  <2> QED  BY <1>6, <2>1, <2>2
<1>8. ASSUME NEW i \in 1 .. n + k, NEW j \in 1 .. n + k, i < j  PROVE v[i] < v[j]
  <2>1. CASE j \in 1 .. n
    <3>1. i \in 1 .. n
      BY <1>4, <1>8, <2>1
    <3>2. w[i] < w[j]
      BY <1>1, <1>8, <2>1, <3>1 DEF n
    <3> QED  BY <1>4, <2>1, <3>1, <3>2
  <2>2. CASE i \in 1 .. n /\ j \in n + 1 .. n + k
    <3>1. v[i] \in Nat /\ v[i] <= x
      BY <1>4, <2>2
    <3>2. v[j] = z + (j - n) /\ j - n \in 1 .. k
      BY <1>5, <2>2
    <3> QED  BY <3>1, <3>2
  <2>3. CASE i \in n + 1 .. n + k /\ j \in n + 1 .. n + k
    BY <1>4, <1>5, <1>8, <2>3
  <2>4. CASE i \in n + 1 .. n + k /\ j \in 1 .. n
    BY <1>4, <1>8, <2>4
  <2> QED  BY <1>6, <2>1, <2>2, <2>3, <2>4
<1>9. OutUpTo(v, z + k)
  BY <1>4, <1>7, <1>8 DEF OutUpTo
<1> QED  BY <1>9 DEF v

\* What is not behind a byte is not behind a later one.
LEMMA OutFurther ==
    ASSUME NEW w, NEW x \in Nat, OutUpTo(w, x), NEW y \in Nat, x <= y
    PROVE  OutUpTo(w, y)
<1>1. \A i \in 1 .. Len(w) : w[i] \in Nat
  BY DEF OutUpTo
<1> QED  BY <1>1 DEF OutUpTo

\* The bytes a call or a file has are what they are numbered.
LEMMA BytesAre ==
    ASSUME NEW f \in Nat, NEW k \in Nat, NEW e \in Nat, f + k <= e
    PROVE  Bytes(f, f + k, e) = [i \in 1 .. k |-> f + i]
<1>1. (f + k) - f = k
  OBVIOUS
<1>2. \A i \in 1 .. k : f + i <= e
  OBVIOUS
<1> QED  BY <1>1, <1>2 DEF Bytes

-----------------------------------------------------------------------------
(* What goes into the list.                                                *)

\* A slot that got a type and a pointer.
Given(s, ty, y) == [active |-> TRUE, flags |-> s.flags \cup {ty}, ptr |-> y]

\* ... and what JobGetSlot leaves is such a slot.
LEMMA GivenIs ==
    ASSUME NEW s \in JobSlot, NEW ty \in {"WRITEV", "SENDFILE", "SHUTDOWN"}, NEW y
    PROVE  /\ Given(s, ty, y).active /\ Given(s, ty, y).flags = s.flags \cup {ty}
           /\ Given(s, ty, y).ptr = y
           /\ y \in JobPtr => Given(s, ty, y) \in JobSlot
           /\ Marked(s, ty) = Given(s, ty, s.ptr) /\ Marked(s, ty) \in JobSlot
<1>1. s.flags \cup {ty} \in SUBSET {"WRITEV", "SENDFILE", "SHUTDOWN"} /\ s.ptr \in JobPtr
  BY SlotIs
<1>2. \A p \in JobPtr : Given(s, ty, p) \in JobSlot
  <2>1. TRUE \in BOOLEAN
    OBVIOUS
  <2> QED  BY <1>1, <2>1, NewSlot DEF Given
<1> QED  BY <1>1, <1>2 DEF Given, Marked

\* The pointer that a call puts into the slot it was given.
LEMMA GetAndSet ==
    ASSUME NEW q \in RowType, q.current \in 1 .. Len(q.slots),
           NEW ty \in {"WRITEV", "SENDFILE", "SHUTDOWN"}, NEW y
    PROVE  LET j == JobGetSlot(q, ty)
               u == Room(q, ty)
               k == Place(q, ty)
           IN  /\ j.current = k /\ CurrentPtr(j) = u[k].ptr
               /\ [j EXCEPT !.slots[j.current].ptr = y] =
                    [slots |-> Put(u, k, Given(u[k], ty, y)), current |-> k]
<1> DEFINE j == JobGetSlot(q, ty)
           u == Room(q, ty)
           k == Place(q, ty)
           a == Marked(u[k], ty)
           v == Put(u, k, a)
<1>1. u \in Seq(JobSlot) /\ k \in 1 .. Len(u) /\ j = [slots |-> v, current |-> k]
  BY GetSlotRow
<1> HIDE DEF j, u, k
<1>2. u[k] \in JobSlot
  BY <1>1
<1>3. a \in JobSlot /\ a = Given(u[k], ty, u[k].ptr)
  BY <1>2, GivenIs
<1>4. a.ptr = u[k].ptr
  BY <1>2, <1>3, GivenIs
<1> HIDE DEF a
<1>5. v[k] = a
  BY <1>1, <1>3, PutIs
<1>6. j.current = k /\ j.slots = v
  BY <1>1
<1>7. CurrentPtr(j) = u[k].ptr
  <2> HIDE DEF v
  <2> QED  BY <1>4, <1>5, <1>6 DEF CurrentPtr
<1>8. [j EXCEPT !.slots[j.current].ptr = y] =
        [slots |-> [v EXCEPT ![k] = [v[k] EXCEPT !.ptr = y]], current |-> k]
  <2> HIDE DEF v
  <2> QED  BY <1>1, <1>6
<1>9. [a EXCEPT !.ptr = y] = Given(u[k], ty, y)
  <2> DEFINE fl == u[k].flags \cup {ty}
             p == u[k].ptr
  <2>1. a = [active |-> TRUE, flags |-> fl, ptr |-> p]
    BY <1>3 DEF Given
  <2>2. Given(u[k], ty, y) = [active |-> TRUE, flags |-> fl, ptr |-> y]
    BY DEF Given
  <2> HIDE DEF fl, p
  <2>3. [[active |-> TRUE, flags |-> fl, ptr |-> p] EXCEPT !.ptr = y] =
          [active |-> TRUE, flags |-> fl, ptr |-> y]
    BY FieldFacts, Zenon
  <2> QED  BY <2>1, <2>2, <2>3
<1> DEFINE z == Given(u[k], ty, y)
<1> HIDE DEF z
<1>10. [v EXCEPT ![k] = z] = Put(u, k, z)
  BY <1>1 DEF v, Put
<1>11. [j EXCEPT !.slots[j.current].ptr = y] = [slots |-> [v EXCEPT ![k] = z], current |-> k]
  <2> HIDE DEF v
  <2> QED  BY <1>5, <1>8, <1>9 DEF z
<1> QED  BY <1>6, <1>7, <1>10, <1>11 DEF j, u, k, z

\* A packet list stays one when a packet is added.
LEMMA AddGood ==
    ASSUME NEW l \in GoodList, NEW p \in PacketType
    PROVE  AddPacket(l, p) \in GoodList
<1> DEFINE s == [l.slots EXCEPT ![l.current] = p]
           g == Grown(s, NoPacket, PacketSlots)
<1>1. /\ l \in ListType /\ l.slots \in Seq(PacketType) /\ Len(l.slots) \in Nat
      /\ l.current \in 1 .. Len(l.slots)
  BY DEF GoodList, ListType
<1>2. s \in Seq(PacketType) /\ Len(s) = Len(l.slots)
  BY <1>1
<1>3. AddPacket(l, p) =
        [slots |-> IF l.current = Len(l.slots) THEN g ELSE s, current |-> l.current + 1]
  BY <1>1, AddPacketIs
<1> HIDE DEF s
<1>4. g \in Seq(PacketType) /\ Len(g) = Len(s) + PacketSlots
  BY <1>2, ListGrows
<1>5. PacketSlots \in Nat \ {0}
  BY JobsAssumption
<1> HIDE DEF g
<1> DEFINE x == IF l.current = Len(l.slots) THEN g ELSE s
<1>6. x \in Seq(PacketType) /\ l.current + 1 \in 1 .. Len(x) /\ l.current + 1 \in Nat
  BY <1>1, <1>2, <1>4, <1>5
<1> HIDE DEF x
<1>7. AddPacket(l, p) = [slots |-> x, current |-> l.current + 1]
  BY <1>3 DEF x
<1> QED  BY <1>6, <1>7 DEF GoodList, ListType

\* A slot that a packet goes to.
LEMMA FedSlot ==
    ASSUME NEW s \in JobSlot, s.ptr.kind # "file", NEW p \in PacketType
    PROVE  /\ Fed(s, p) \in JobSlot /\ Fed(s, p).active
           /\ Fed(s, p).flags = s.flags \cup {"WRITEV"}
           /\ Fed(s, p).ptr.kind = "list"
           /\ Fed(s, p).ptr.list = AddPacket(PacketList(s.ptr), p)
           /\ Fed(s, p) = Given(s, "WRITEV", ListPtr(AddPacket(PacketList(s.ptr), p)))
<1> DEFINE l == PacketList(s.ptr)
           r == AddPacket(l, p)
<1>1. l \in GoodList
  <2>1. CASE s.ptr.kind = "null"
    <3>1. Empty(l)
      BY <2>1, NewList DEF PacketList
    <3>2. 1 \in 1 .. Len(l.slots)
      BY <3>1 DEF Empty, ListType
    <3> QED  BY <3>1, <3>2 DEF Empty, GoodList
  <2>2. CASE s.ptr.kind = "list"
    <3>1. s.ptr.list \in GoodList
      BY <2>2, SlotIs, PtrKinds
    <3>2. l = s.ptr.list
      BY <2>2 DEF PacketList
    <3> QED  BY <3>1, <3>2
  <2> QED  BY <2>1, <2>2, SlotIs, PtrKinds
<1>2. r \in GoodList
  BY <1>1, AddGood
<1> HIDE DEF r
<1>3. Fed(s, p) = Given(s, "WRITEV", ListPtr(r))
  BY DEF Fed, Given, r
<1>4. ListPtr(r) \in JobPtr /\ ListPtr(r).kind = "list" /\ ListPtr(r).list = r
  BY <1>2, PtrFacts
<1>5. "WRITEV" \in {"WRITEV", "SENDFILE", "SHUTDOWN"}
  OBVIOUS
<1> DEFINE y == ListPtr(r)
           ty == "WRITEV"
<1>6. y \in JobPtr /\ ty \in {"WRITEV", "SENDFILE", "SHUTDOWN"}
  BY <1>4, <1>5
<1> HIDE DEF y, ty
<1>7. /\ Given(s, ty, y).active /\ Given(s, ty, y).flags = s.flags \cup {ty}
      /\ Given(s, ty, y).ptr = y /\ Given(s, ty, y) \in JobSlot
  <2>1. Given(s, ty, y).active /\ Given(s, ty, y).flags = s.flags \cup {ty} /\ Given(s, ty, y).ptr = y
    BY DEF Given
  <2>2. s.flags \cup {ty} \in SUBSET {"WRITEV", "SENDFILE", "SHUTDOWN"}
    BY <1>6, SlotIs
  <2>3. TRUE \in BOOLEAN
    OBVIOUS
  <2>4. Given(s, ty, y) \in JobSlot
    BY <1>6, <2>2, <2>3, NewSlot DEF Given
  <2> QED  BY <2>1, <2>4
<1> QED  BY <1>3, <1>4, <1>7 DEF r, y, ty

\* ... sends that packet last.
LEMMA FedSends ==
    ASSUME NEW s \in JobSlot, s.ptr.kind # "file",
           NEW p \in PacketType, p.used, NEW from \in Nat, NEW a \in Nat,
           p.base + p.off = a, a < p.base + p.len,
           \/ s.active /\ Sends(s, from, a) /\ p.off = 0
           \/ ~s.active /\ Unused(s) /\ from <= a
    PROVE  Sends(Fed(s, p), from, p.base + p.len)
<1> DEFINE l == PacketList(s.ptr)
           r == AddPacket(l, p)
<1>1. /\ Fed(s, p).flags = s.flags \cup {"WRITEV"} /\ Fed(s, p).ptr.kind = "list"
      /\ Fed(s, p).ptr.list = r
  BY FedSlot
<1>2. Fed(s, p).flags # {} /\ Fed(s, p).flags # {"SENDFILE"}
  BY <1>1
<1>3. CASE Fed(s, p).flags # {"WRITEV"}
  BY <1>2, <1>3 DEF Sends
<1>4. CASE Fed(s, p).flags = {"WRITEV"}
  <2>1. s.flags = {} \/ s.flags = {"WRITEV"}
    BY <1>1, <1>4
  <2>2. \E x \in Nat : from <= x /\ Stretch(l, x, a, TRUE) /\ (l.current > 1 => p.off = 0)
    <3>1. CASE s.active
      <4>1. s.flags = {"WRITEV"} /\ Sends(s, from, a) /\ p.off = 0
        BY <2>1, <3>1 DEF Sends
      <4>2. l = s.ptr.list
        BY <4>1 DEF PacketList, Sends
      <4> QED  BY <4>1, <4>2 DEF Sends
    <3>2. CASE ~s.active
      <4>1. Empty(l)
        <5>1. CASE s.flags = {}
          <6>1. s.ptr.kind = "null"
            BY <3>2, <5>1, PtrFacts DEF Unused
          <6> QED  BY <6>1, NewList DEF PacketList
        <5>2. CASE s.flags = {"WRITEV"}
          BY <3>2, <5>2 DEF Unused, PacketList
        <5> QED  BY <2>1, <5>1, <5>2
      <4>2. Stretch(l, a, a, TRUE) /\ l.current = 1
        BY <4>1, EmptyStretch DEF Empty
      <4>3. from <= a /\ (l.current > 1 => p.off = 0)
        BY <3>2, <4>2
      <4> QED  BY <4>2, <4>3
    <3> QED  BY <3>1, <3>2
  <2>3. PICK x \in Nat : from <= x /\ Stretch(l, x, a, TRUE) /\ (l.current > 1 => p.off = 0)
    BY <2>2
  <2> HIDE DEF l
  <2>4. l.current \in Nat /\ l.current >= 1
    <3>1. Stretch(l, x, a, TRUE)
      BY <2>3
    <3>2. l \in ListType /\ l.current \in 1 .. Len(l.slots)
      BY <3>1, Zenon DEF Stretch
    <3> QED  BY <3>2 DEF ListType
  <2>5. l.current > 1 \/ ~TRUE => p.off = 0
    BY <2>3
  <2> DEFINE f == TRUE
  <2>6. f \in BOOLEAN /\ Stretch(l, x, a, f) /\ (l.current > 1 \/ ~f => p.off = 0)
    BY <2>3, <2>5
  <2> HIDE DEF f
  <2>7. Stretch(r, x, p.base + p.len, TRUE) /\ r.current = l.current + 1
    <3>1. Stretch(r, x, p.base + p.len, f) /\ r.current = l.current + 1
      BY <2>3, <2>6, AddRun
    <3> QED  BY <3>1 DEF f
  <2> HIDE DEF r
  <2>8. r.current > 1
    BY <2>4, <2>7
  <2> QED  BY <1>1, <1>2, <1>4, <2>3, <2>7, <2>8 DEF Sends
<1> QED  BY <1>3, <1>4

\* The slot a call is given: it is idle and holds nothing to send, or its
\* packets are the last bytes of all.
LEMMA SlotTaken ==
    ASSUME NEW q \in RowType, NEW pos, Rows(q.slots, q.current, pos),
           NEW ty \in {"WRITEV", "SENDFILE", "SHUTDOWN"},
           NEW s \in JobSlot, s.active, NEW a \in Nat, pos[q.current] <= a,
           \A from \in Nat :
              LET v == Room(q, ty)[Place(q, ty)]
              IN  /\ from <= pos[q.current]
                  /\ \/ ~v.active /\ Unused(v)
                     \/ /\ v.active /\ Sends(v, from, pos[q.current]) /\ q.slots[1].active
                        /\ ty = "WRITEV"
                  => Sends(s, from, a)
    PROVE  \E pos2 : /\ Rows(Put(Room(q, ty), Place(q, ty), s), Place(q, ty), pos2)
                     /\ pos2[0] = pos[0] /\ pos2[Place(q, ty)] = a
<1> DEFINE t == q.slots
           c == q.current
           u == Room(q, ty)
           k == Place(q, ty)
           from == IF k = c THEN pos[c - 1] ELSE pos[c]
<1>1. /\ t \in Seq(JobSlot) /\ c \in 1 .. Len(t) /\ Len(t) \in Nat
      /\ pos \in [0 .. c -> Nat] /\ (\A i, j \in 0 .. c : i <= j => pos[i] <= pos[j])
      /\ (\A j \in 1 .. c : Ahead(t, j) => Sends(t[j], pos[j - 1], pos[j]))
      /\ (Ahead(t, c - 1) /\ ~t[c].active => Unused(t[c]))
      /\ \A j \in c + 1 .. Len(t) : t[j] = NoJob
  BY DEF Rows
<1>2. /\ u \in Seq(JobSlot) /\ Len(u) \in Nat /\ Len(u) >= Len(t)
      /\ k \in 1 .. Len(u) /\ k \in {c, c + 1}
      /\ \A i \in 1 .. Len(t) : u[i] = t[i]
      /\ \A i \in Len(t) + 1 .. Len(u) : u[i] = NoJob
      /\ k # c => t[c].active
      /\ k = c /\ t[c].active => ty = "WRITEV"
  BY <1>1, GetSlotRow
<1> HIDE DEF u, k
<1>3. c - 1 \in 0 .. c /\ c \in 0 .. c /\ c \in 1 .. c /\ c - 1 <= c
  BY <1>1
<1>4. from \in Nat /\ from <= pos[c]
  BY <1>1, <1>3
<1>5. ASSUME Ahead(t, k - 1)  PROVE Sends(s, from, a)
  <2>1. CASE k = c /\ t[c].active
    <3>1. Ahead(t, c)
      <4>1. \A i \in 1 .. c : i = c \/ i \in 1 .. k - 1
        BY <1>1, <2>1
      <4> QED  BY <1>5, <2>1, <4>1 DEF Ahead
    <3>2. Sends(t[c], pos[c - 1], pos[c]) /\ t[1].active
      <4>1. 1 \in 1 .. c
        BY <1>1
      <4> QED  BY <1>1, <1>3, <3>1, <4>1 DEF Ahead
    <3>3. u[k] = t[c] /\ from = pos[c - 1]
      BY <1>1, <1>2, <2>1
    <3> HIDE DEF from
    <3> QED  BY <1>2, <1>4, <2>1, <3>2, <3>3 DEF u, k
  <2>2. CASE k = c /\ ~t[c].active
    <3>1. Unused(t[c]) /\ u[k] = t[c]
      BY <1>1, <1>2, <1>5, <2>2
    <3> HIDE DEF from
    <3> QED  BY <1>4, <2>2, <3>1 DEF u, k
  <2>3. CASE k # c
    <3>1. u[k] = NoJob
      <4>1. k = c + 1
        BY <1>2, <2>3
      <4>2. CASE k <= Len(t)
        <5>1. k \in 1 .. Len(t) /\ k \in c + 1 .. Len(t)
          BY <1>1, <4>1, <4>2
        <5> QED  BY <1>1, <1>2, <5>1
      <4>3. CASE k > Len(t)
        <5>1. k \in Len(t) + 1 .. Len(u)
          BY <1>1, <1>2, <4>3
        <5> QED  BY <1>2, <5>1
      <4> QED  BY <1>1, <1>2, <4>2, <4>3
    <3>2. Unused(u[k]) /\ ~u[k].active
      BY <3>1, PtrFacts
    <3> HIDE DEF from
    <3> QED  BY <1>4, <3>2 DEF u, k
  <2> QED  BY <2>1, <2>2, <2>3
<1>6. Ahead(t, k - 1) /\ s.active => Sends(s, from, a)
  BY <1>5
<1>7. \E pos2 : Rows(Put(u, k, s), k, pos2) /\ pos2[0] = pos[0] /\ pos2[k] = a
  <2>1. from = (IF k = c THEN pos[c - 1] ELSE pos[c])
    OBVIOUS
  <2> HIDE DEF t, c, from
  <2>2. Rows(t, c, pos) /\ pos[c] <= a
    BY DEF t, c
  <2>3. SlotAt(t, c, u, k)
    BY <1>2 DEF SlotAt
  <2>4. Ahead(t, k - 1) /\ ~s.active => Unused(s)
    OBVIOUS
  <2> QED  BY <1>6, <2>1, <2>2, <2>3, <2>4, PutRow
<1> QED  BY <1>7 DEF u, k

\* ape_socket_queue_data: the rest of the data goes last, or the slot's file
\* descriptor is taken for a packet list.
LEMMA QueueRow ==
    ASSUME NEW pos, jobs \in RowType, Rows(jobs.slots, jobs.current, pos),
           accepted \in Nat, NEW len \in Nat, NEW off \in Nat, off < len,
           accepted + len <= MaxStream, NEW cls \in {"copy", "auto", "own"},
           pos[jobs.current] = accepted + off, HeadJob.active => off = 0,
           QueueData(len, off, cls)
    PROVE  /\ jobs' \in RowType
           /\ \E pos2 : /\ Rows(jobs'.slots, jobs'.current, pos2) /\ pos2[0] = pos[0]
                        /\ pos2[jobs'.current] = accepted + len
<1> DEFINE ty == "WRITEV"
           j == JobGetSlot(jobs, ty)
           t == jobs.slots
           c == jobs.current
           u == Room(jobs, ty)
           k == Place(jobs, ty)
           p == Packet(accepted, len, off, cls)
           y == ListPtr(AddPacket(PacketList(CurrentPtr(j)), p))
<1>0. ty \in {"WRITEV", "SENDFILE", "SHUTDOWN"} /\ ty = "WRITEV"
  OBVIOUS
<1>1. p \in PacketType /\ p.used /\ p.base = accepted /\ p.len = len /\ p.off = off
  <2>1. accepted \in 0 .. MaxStream /\ len \in 0 .. MaxStream /\ off \in 0 .. MaxStream
    BY JobsAssumption
  <2> QED  BY <2>1 DEF Packet, PacketType
<1> HIDE DEF p
<1>2. t \in Seq(JobSlot) /\ c \in 1 .. Len(t) /\ Len(t) \in Nat
  BY DEF Rows
<1>3. /\ u \in Seq(JobSlot) /\ Len(u) \in Nat /\ Len(u) >= Len(t)
      /\ k \in 1 .. Len(u) /\ k \in {c, c + 1}
      /\ \A i \in 1 .. Len(t) : u[i] = t[i]
      /\ \A i \in Len(t) + 1 .. Len(u) : u[i] = NoJob
      /\ k = c /\ t[c].active => "WRITEV" \in t[c].flags
  BY <1>0, <1>2, GetSlotRow
<1>4. /\ j.current = k /\ CurrentPtr(j) = u[k].ptr
      /\ [j EXCEPT !.slots[j.current].ptr = y] = [slots |-> Put(u, k, Given(u[k], ty, y)), current |-> k]
  <2> HIDE DEF ty, y
  <2> QED  BY <1>0, <1>2, GetAndSet
<1>5. \/ /\ u[k].ptr.kind # "file"
         /\ jobs' = [slots |-> Put(u, k, Given(u[k], ty, y)), current |-> k]
      \/ u[k].ptr.kind = "file" /\ jobs' = jobs
  <2>1. \/ /\ CurrentPtr(j).kind # "file"
           /\ jobs' = [j EXCEPT !.slots[j.current].ptr = y]
        \/ CurrentPtr(j).kind = "file" /\ jobs' = jobs
    <3> HIDE DEF j
    <3> QED  BY DEF QueueData, jobVars, CurrentPtr, p, j
  <2> HIDE DEF j, y
  <2> QED  BY <1>4, <2>1
<1> HIDE DEF j
<1>6. CASE /\ u[k].ptr.kind # "file"
           /\ jobs' = [slots |-> Put(u, k, Given(u[k], ty, y)), current |-> k]
  <2> DEFINE s == Fed(u[k], p)
  <2>1. u[k] \in JobSlot
    BY <1>3
  <2>2. s \in JobSlot /\ s.active /\ Given(u[k], ty, y) = s
    BY <1>1, <1>4, <1>6, <2>1, FedSlot
  <2>3. pos[c] \in Nat /\ pos[c] <= accepted + len /\ accepted + len \in Nat
    OBVIOUS
  <2>4. ASSUME NEW from \in Nat, from <= pos[c],
               \/ ~u[k].active /\ Unused(u[k])
               \/ u[k].active /\ Sends(u[k], from, pos[c]) /\ t[1].active
        PROVE  Sends(s, from, accepted + len)
    <3>1. \/ u[k].active /\ Sends(u[k], from, pos[c]) /\ p.off = 0
          \/ ~u[k].active /\ Unused(u[k]) /\ from <= pos[c]
      BY <1>1, <2>4 DEF HeadJob
    <3>2. p.base + p.off = pos[c] /\ pos[c] < p.base + p.len /\ p.base + p.len = accepted + len
      BY <1>1
    <3>3. Sends(Fed(u[k], p), from, p.base + p.len)
      <4> DEFINE v == u[k]
                 e == pos[c]
      <4>1. v \in JobSlot /\ v.ptr.kind # "file" /\ e \in Nat /\ p.base + p.off = e /\ e < p.base + p.len
        BY <1>6, <2>1, <2>3, <3>2
      <4>2. \/ v.active /\ Sends(v, from, e) /\ p.off = 0
            \/ ~v.active /\ Unused(v) /\ from <= e
        BY <3>1
      <4> HIDE DEF v, e
      <4>3. Sends(Fed(v, p), from, p.base + p.len)
        BY <1>1, <4>1, <4>2, FedSends
      <4> QED  BY <4>3 DEF v
    <3> QED  BY <3>2, <3>3
  <2> HIDE DEF s
  <2>5. \E pos2 : /\ Rows(Put(u, k, s), k, pos2)
                  /\ pos2[0] = pos[0] /\ pos2[k] = accepted + len
    <3> HIDE DEF ty
    <3>1. \A from \in Nat :
              LET v == Room(jobs, ty)[Place(jobs, ty)]
              IN  /\ from <= pos[jobs.current]
                  /\ \/ ~v.active /\ Unused(v)
                     \/ /\ v.active /\ Sends(v, from, pos[jobs.current]) /\ jobs.slots[1].active
                        /\ ty = "WRITEV"
                  => Sends(s, from, accepted + len)
      BY <2>4
    <3> DEFINE e == accepted + len
    <3>2. e \in Nat /\ pos[jobs.current] <= e
      BY <2>3
    <3> HIDE DEF e
    <3>3. \E pos2 : /\ Rows(Put(Room(jobs, ty), Place(jobs, ty), s), Place(jobs, ty), pos2)
                    /\ pos2[0] = pos[0] /\ pos2[Place(jobs, ty)] = e
      BY <1>0, <2>2, <3>1, <3>2, SlotTaken DEF e
    <3> QED  BY <3>3 DEF e
  <2>6. jobs' = [slots |-> Put(u, k, s), current |-> k]
    BY <1>6, <2>2
  <2>7. jobs' \in RowType
    <3>1. Put(u, k, s) \in Seq(JobSlot)
      BY <1>3, <2>2, PutIs
    <3> QED  BY <1>3, <2>6, <3>1 DEF RowType
  <2> QED  BY <2>5, <2>6, <2>7
<1>7. CASE u[k].ptr.kind = "file" /\ jobs' = jobs
  <2>1. k = c
    <3> SUFFICES ASSUME k # c PROVE FALSE
      OBVIOUS
    <3>1. k = c + 1
      BY <1>3
    <3>2. u[k] = NoJob
      <4>1. CASE k <= Len(t)
        <5>1. k \in 1 .. Len(t) /\ k \in c + 1 .. Len(t)
          BY <1>2, <3>1, <4>1
        <5> QED  BY <1>3, <5>1 DEF Rows
      <4>2. CASE k > Len(t)
        <5>1. k \in Len(t) + 1 .. Len(u)
          BY <1>2, <1>3, <4>2
        <5> QED  BY <1>3, <5>1
      <4> QED  BY <1>2, <1>3, <4>1, <4>2
    <3> QED  BY <1>7, <3>2, PtrFacts
  <2>2. t[c] \in JobSlot /\ t[c].ptr.kind = "file" /\ (t[c].active => "WRITEV" \in t[c].flags)
    BY <1>2, <1>3, <1>7, <2>1
  <2>3. pos[c] \in Nat /\ pos[c] <= accepted + len /\ accepted + len \in Nat
    OBVIOUS
  <2>4. Ahead(t, c - 1) /\ t[c].active => Sends(t[c], pos[c - 1], accepted + len)
    <3> SUFFICES ASSUME Ahead(t, c - 1), t[c].active  PROVE Sends(t[c], pos[c - 1], accepted + len)
      OBVIOUS
    <3>1. Ahead(t, c)
      <4>1. \A i \in 1 .. c : i = c \/ i \in 1 .. c - 1
        BY <1>2
      <4> QED  BY <4>1 DEF Ahead
    <3>2. Sends(t[c], pos[c - 1], pos[c])
      BY <1>2, <3>1 DEF Rows
    <3>3. t[c].flags # {"WRITEV"} /\ t[c].flags # {"SENDFILE"} /\ t[c].flags # {}
      BY <2>2, <3>2 DEF Sends
    <3> QED  BY <3>3 DEF Sends
  <2>5. Ahead(t, c - 1) /\ ~t[c].active => Unused(t[c])
    BY DEF Rows
  <2>6. Put(t, c, t[c]) = t
    BY <1>2 DEF Put
  <2>7. \E pos2 : Rows(t, c, pos2) /\ pos2[0] = pos[0] /\ pos2[c] = accepted + len
    <3> DEFINE s == t[c]
               e == accepted + len
               from == pos[c - 1]
    <3> HIDE DEF t, c, s, e, from
    <3>1. Rows(t, c, pos) /\ s \in JobSlot /\ e \in Nat /\ pos[c] <= e /\ SlotAt(t, c, t, c)
      BY <1>2, <2>2, <2>3 DEF t, c, s, e, SlotAt
    <3>2. /\ Ahead(t, c - 1) /\ s.active => Sends(s, from, e)
          /\ from = (IF c = c THEN pos[c - 1] ELSE pos[c])
      BY <2>4 DEF s, e, from
    <3>3. Ahead(t, c - 1) /\ ~s.active => Unused(s)
      BY <2>5 DEF s
    <3>4. \E pos2 : Rows(Put(t, c, s), c, pos2) /\ pos2[0] = pos[0] /\ pos2[c] = e
      BY <3>1, <3>2, <3>3, PutRow
    <3> QED  BY <2>6, <3>4 DEF s, e
  <2> QED  BY <1>7, <2>7
<1> QED  BY <1>5, <1>6, <1>7


\* A slot that is filled with something new: a file, or a shutdown.
LEMMA SlotFilled ==
    ASSUME NEW pos, jobs \in RowType, Rows(jobs.slots, jobs.current, pos),
           NEW ty \in {"WRITEV", "SENDFILE", "SHUTDOWN"},
           NEW s \in JobSlot, s.active, NEW a \in Nat, pos[jobs.current] <= a,
           \A from \in Nat : from <= pos[jobs.current] => Sends(s, from, a),
           jobs' = [slots |-> Put(Room(jobs, ty), Place(jobs, ty), s), current |-> Place(jobs, ty)]
    PROVE  /\ jobs' \in RowType
           /\ \E pos2 : /\ Rows(jobs'.slots, jobs'.current, pos2) /\ pos2[0] = pos[0]
                        /\ pos2[jobs'.current] = a
<1> DEFINE u == Room(jobs, ty)
           k == Place(jobs, ty)
<1>1. jobs.current \in 1 .. Len(jobs.slots)
  BY DEF Rows
<1>2. u \in Seq(JobSlot) /\ k \in 1 .. Len(u)
  BY <1>1, GetSlotRow
<1>3. \E pos2 : Rows(Put(u, k, s), k, pos2) /\ pos2[0] = pos[0] /\ pos2[k] = a
  BY SlotTaken
<1> HIDE DEF u, k
<1>4. Put(u, k, s) \in Seq(JobSlot) /\ k \in Nat
  BY <1>2, PutIs
<1>5. jobs' = [slots |-> Put(u, k, s), current |-> k]
  BY DEF u, k
<1> DEFINE v == Put(u, k, s)
<1> HIDE DEF v
<1>6. jobs' \in RowType /\ jobs'.slots = v /\ jobs'.current = k
  BY <1>4, <1>5 DEF RowType, v
<1> QED  BY <1>3, <1>6 DEF v

\* A file that is queued (APE_sendfile).
LEMMA FileRow ==
    ASSUME NEW pos, jobs \in RowType, Rows(jobs.slots, jobs.current, pos),
           accepted \in Nat, NEW len \in Nat, NEW off \in Nat, off <= len,
           pos[jobs.current] = accepted + off,
           LET j == JobGetSlot(jobs, "SENDFILE")
           IN  jobs' = [j EXCEPT !.slots[j.current].ptr = FilePtr(accepted, len, off)]
    PROVE  /\ jobs' \in RowType
           /\ \E pos2 : /\ Rows(jobs'.slots, jobs'.current, pos2) /\ pos2[0] = pos[0]
                        /\ pos2[jobs'.current] = accepted + len
<1> DEFINE ty == "SENDFILE"
           j == JobGetSlot(jobs, ty)
           u == Room(jobs, ty)
           k == Place(jobs, ty)
           y == FilePtr(accepted, len, off)
           s == Given(u[k], ty, y)
           a == accepted + len
<1>1. jobs.current \in 1 .. Len(jobs.slots)
  BY DEF Rows
<1>2. ty \in {"WRITEV", "SENDFILE", "SHUTDOWN"} /\ ty = "SENDFILE"
  OBVIOUS
<1>3. jobs' = [j EXCEPT !.slots[j.current].ptr = y]
  OBVIOUS
<1>4. /\ y \in JobPtr /\ y.kind = "file" /\ y.base = accepted /\ y.len = len /\ y.off = off
  BY PtrFacts
<1>5. a \in Nat /\ accepted + off <= a
  OBVIOUS
<1> HIDE DEF ty, y, a
<1>6. u \in Seq(JobSlot) /\ k \in 1 .. Len(u)
  BY <1>1, <1>2, GetSlotRow
<1>7. jobs' = [slots |-> Put(u, k, s), current |-> k]
  BY <1>1, <1>2, <1>3, GetAndSet
<1>8. u[k] \in JobSlot
  BY <1>6
<1>9. s \in JobSlot /\ s.active /\ s.flags = u[k].flags \cup {ty} /\ s.ptr = y
  BY <1>2, <1>4, <1>8, GivenIs
<1> HIDE DEF s
<1>10. \A from \in Nat : from <= pos[jobs.current] => Sends(s, from, a)
  <2>1. s.flags # {} /\ s.flags # {"WRITEV"}
    BY <1>2, <1>9
  <2>2. y.base + y.len <= a /\ y.base + y.off = pos[jobs.current] /\ y.off <= y.len
    BY <1>4 DEF a
  <2> QED  BY <1>4, <1>9, <2>1, <2>2 DEF Sends
<1>11. pos[jobs.current] <= a
  BY <1>5
<1>12. /\ jobs' \in RowType
       /\ \E pos2 : /\ Rows(jobs'.slots, jobs'.current, pos2) /\ pos2[0] = pos[0]
                    /\ pos2[jobs'.current] = a
  BY <1>2, <1>5, <1>7, <1>9, <1>10, <1>11, SlotFilled
<1> QED  BY <1>12 DEF a

\* A shutdown that is queued (APE_socket_shutdown).
LEMMA EndRow ==
    ASSUME NEW pos, jobs \in RowType, Rows(jobs.slots, jobs.current, pos),
           jobs' = JobGetSlot(jobs, "SHUTDOWN")
    PROVE  /\ jobs' \in RowType
           /\ \E pos2 : /\ Rows(jobs'.slots, jobs'.current, pos2) /\ pos2[0] = pos[0]
                        /\ pos2[jobs'.current] = pos[jobs.current]
<1> DEFINE ty == "SHUTDOWN"
           u == Room(jobs, ty)
           k == Place(jobs, ty)
           s == Marked(u[k], ty)
           a == pos[jobs.current]
<1>1. jobs.current \in 1 .. Len(jobs.slots) /\ a \in Nat /\ a <= a
  BY DEF Rows
<1>2. ty \in {"WRITEV", "SENDFILE", "SHUTDOWN"} /\ ty = "SHUTDOWN"
  OBVIOUS
<1>3. jobs' = JobGetSlot(jobs, ty)
  OBVIOUS
<1> HIDE DEF ty, a
<1>4. /\ u \in Seq(JobSlot) /\ k \in 1 .. Len(u)
      /\ jobs' = [slots |-> Put(u, k, s), current |-> k]
  BY <1>1, <1>2, <1>3, GetSlotRow
<1>5. u[k] \in JobSlot
  BY <1>4
<1>6. s \in JobSlot /\ s.active /\ s.flags = u[k].flags \cup {ty}
  <2>1. s.active /\ s.flags = u[k].flags \cup {ty}
    BY DEF Marked
  <2> QED  BY <1>2, <1>5, <2>1, GivenIs
<1> HIDE DEF s
<1>7. \A from \in Nat : from <= pos[jobs.current] => Sends(s, from, a)
  BY <1>2, <1>6 DEF Sends
<1>8. pos[jobs.current] <= a
  BY <1>1 DEF a
<1>9. /\ jobs' \in RowType
      /\ \E pos2 : /\ Rows(jobs'.slots, jobs'.current, pos2) /\ pos2[0] = pos[0]
                   /\ pos2[jobs'.current] = a
  BY <1>1, <1>2, <1>4, <1>6, <1>7, <1>8, SlotFilled
<1> QED  BY <1>9 DEF a

-----------------------------------------------------------------------------
(* What leaves the list.                                                   *)

\* The head of the list, and what it has to send.
LEMMA HeadIs ==
    ASSUME jobs \in RowType, NEW pos, Rows(jobs.slots, jobs.current, pos)
    PROVE  /\ jobs.slots \in Seq(JobSlot) /\ 1 \in 1 .. Len(jobs.slots)
           /\ jobs.current \in 1 .. Len(jobs.slots) /\ jobs.current \in Nat
           /\ HeadJob = jobs.slots[1] /\ HeadJob \in JobSlot
           /\ pos[0] \in Nat /\ pos[1] \in Nat /\ pos[jobs.current] \in Nat
           /\ pos[0] <= pos[1] /\ pos[0] <= pos[jobs.current]
           /\ HeadJob.active => Sends(HeadJob, pos[0], pos[1])
<1> DEFINE t == jobs.slots
           c == jobs.current
<1>1. /\ t \in Seq(JobSlot) /\ c \in 1 .. Len(t) /\ Len(t) \in Nat
      /\ pos \in [0 .. c -> Nat] /\ (\A i, k \in 0 .. c : i <= k => pos[i] <= pos[k])
      /\ \A j \in 1 .. c : Ahead(t, j) => Sends(t[j], pos[j - 1], pos[j])
  BY DEF Rows
<1>2. 1 \in 1 .. Len(t) /\ 0 \in 0 .. c /\ 1 \in 0 .. c /\ c \in 0 .. c /\ 1 \in 1 .. c /\ c \in Nat
  BY <1>1
<1>3. HeadJob = t[1] /\ t[1] \in JobSlot
  BY <1>1, <1>2 DEF HeadJob
<1>4. t[1].active => Ahead(t, 1)
  BY DEF Ahead
<1>5. t[1].active => Sends(t[1], pos[0], pos[1])
  <2>1. 1 - 1 = 0
    OBVIOUS
  <2> QED  BY <1>1, <1>2, <1>4, <2>1
<1>6. pos[0] \in Nat /\ pos[1] \in Nat /\ pos[c] \in Nat /\ pos[0] <= pos[1] /\ pos[0] <= pos[c]
  BY <1>1, <1>2
<1> QED  BY <1>1, <1>2, <1>3, <1>5, <1>6

\* A slot with another pointer, and then without its ACTIVE flag
Pointed(s, y) == [active |-> s.active, flags |-> s.flags, ptr |-> y]
Ended(s, y)   == [active |-> FALSE, flags |-> s.flags, ptr |-> y]

\* A list whose head gets another pointer
Repointed(q, y) == [q EXCEPT !.slots[1].ptr = y]

\* The head gets another pointer, and is retired with it.
LEMMA HeadPtr ==
    ASSUME NEW q \in RowType, 1 \in 1 .. Len(q.slots), NEW y \in JobPtr
    PROVE  LET js == Repointed(q, y)
               v  == Put(q.slots, 1, Ended(q.slots[1], y))
           IN  /\ js = [slots |-> Put(q.slots, 1, Pointed(q.slots[1], y)), current |-> q.current]
               /\ Retire(js) = [slots |-> IF q.current = 1 THEN v ELSE Rotated(v, q.current),
                                current |-> q.current]
               /\ Pointed(q.slots[1], y) \in JobSlot /\ Ended(q.slots[1], y) \in JobSlot
<1> DEFINE t == q.slots
           c == q.current
           a == Pointed(t[1], y)
           b == Ended(t[1], y)
           v == Put(t, 1, a)
           u == Put(t, 1, b)
           js == [q EXCEPT !.slots[1].ptr = y]
<1>1. t \in Seq(JobSlot) /\ 1 \in 1 .. Len(t) /\ q = [slots |-> t, current |-> c]
  BY DEF RowType
<1> HIDE DEF t, c
<1>2. t[1] \in JobSlot
  BY <1>1
<1>3. [t[1] EXCEPT !.ptr = y] = a /\ [a EXCEPT !.active = FALSE] = b /\ a \in JobSlot /\ b \in JobSlot
  <2> DEFINE w == t[1].active
             fl == t[1].flags
             z == t[1].ptr
  <2>1. t[1] = [active |-> w, flags |-> fl, ptr |-> z] /\ w \in BOOLEAN /\ z \in JobPtr
        /\ fl \in SUBSET {"WRITEV", "SENDFILE", "SHUTDOWN"}
    BY <1>2, SlotIs
  <2>2. a = [active |-> w, flags |-> fl, ptr |-> y] /\ b = [active |-> FALSE, flags |-> fl, ptr |-> y]
    BY DEF Pointed, Ended
  <2> HIDE DEF w, fl, z, a, b
  <2>3. [[active |-> w, flags |-> fl, ptr |-> z] EXCEPT !.ptr = y] = [active |-> w, flags |-> fl, ptr |-> y]
    BY <2>1, NewSlot
  <2>4. /\ [[active |-> w, flags |-> fl, ptr |-> y] EXCEPT !.active = FALSE] =
             [active |-> FALSE, flags |-> fl, ptr |-> y]
        /\ [active |-> w, flags |-> fl, ptr |-> y] \in JobSlot
    BY <2>1, NewSlot
  <2>5. [active |-> FALSE, flags |-> fl, ptr |-> y] \in JobSlot
    <3>1. FALSE \in BOOLEAN
      OBVIOUS
    <3> QED  BY <2>1, <3>1, NewSlot
  <2> QED  BY <2>1, <2>2, <2>3, <2>4, <2>5, Zenon
<1> HIDE DEF a, b
<1>4. js = [slots |-> v, current |-> c]
  <2>1. [[slots |-> t, current |-> c] EXCEPT !.slots[1].ptr = y] =
          [slots |-> [t EXCEPT ![1] = [t[1] EXCEPT !.ptr = y]], current |-> c]
    OBVIOUS
  <2>2. js = [[slots |-> t, current |-> c] EXCEPT !.slots[1].ptr = y]
    BY <1>1, Zenon
  <2> QED  BY <1>3, <2>1, <2>2 DEF Put
<1> HIDE DEF js
<1>5. v[1] = a
  BY <1>1 DEF Put
<1>6. [js EXCEPT !.slots[1].active = FALSE] = [slots |-> [v EXCEPT ![1] = [v[1] EXCEPT !.active = FALSE]], current |-> c]
  <2> HIDE DEF v
  <2>1. \A z \in BOOLEAN : [js EXCEPT !.slots[1].active = z] =
          [slots |-> [v EXCEPT ![1] = [v[1] EXCEPT !.active = z]], current |-> c]
    BY <1>4
  <2>2. FALSE \in BOOLEAN
    OBVIOUS
  <2> QED  BY <2>1, <2>2, Zenon
<1>7. [js EXCEPT !.slots[1].active = FALSE] = [slots |-> [v EXCEPT ![1] = b], current |-> c]
  <2> HIDE DEF v
  <2> QED  BY <1>3, <1>5, <1>6
<1>8. [v EXCEPT ![1] = b] = u
  BY <1>1 DEF Put
<1> HIDE DEF u
<1>9. Retire(js) = HeadToCurrent([slots |-> u, current |-> c])
  BY <1>7, <1>8 DEF Retire
<1>10. HeadToCurrent([slots |-> u, current |-> c]) = [slots |-> IF c = 1 THEN u ELSE Rotated(u, c), current |-> c]
  BY DEF HeadToCurrent, Rotated
<1> QED  BY <1>3, <1>4, <1>9, <1>10 DEF js, v, a, u, b, t, c, Repointed

\* The two fields of a job list.
LEMMA RowIs ==
    ASSUME NEW r \in Seq(JobSlot), NEW c \in Nat, NEW q, q = [slots |-> r, current |-> c]
    PROVE  q \in RowType /\ q.slots = r /\ q.current = c
BY DEF RowType

\* The job at the head ends with nothing left that is ever sent.
LEMMA HeadDone ==
    ASSUME NEW pos, jobs \in RowType, Rows(jobs.slots, jobs.current, pos), HeadJob.active,
           NEW y \in JobPtr, Unused(Ended(HeadJob, y)),
           jobs' = Retire(Repointed(jobs, y))
    PROVE  /\ jobs' \in RowType
           /\ \E pos2 : /\ Rows(jobs'.slots, jobs'.current, pos2) /\ pos2[0] = pos[1]
                        /\ pos2[jobs'.current] = pos[jobs.current]
<1> DEFINE t == jobs.slots
           c == jobs.current
           s == Ended(t[1], y)
           r == IF c = 1 THEN Put(t, 1, s) ELSE Rotated(Put(t, 1, s), c)
<1>1. 1 \in 1 .. Len(t) /\ c \in Nat /\ HeadJob = t[1]
  BY HeadIs
<1>2. jobs' = [slots |-> r, current |-> c] /\ s \in JobSlot
  BY <1>1, HeadPtr
<1>3. ~s.active /\ Unused(s)
  BY <1>1 DEF Ended
<1> HIDE DEF s
<1>4. r \in Seq(JobSlot) /\ \E pos2 : Rows(r, c, pos2) /\ pos2[0] = pos[1] /\ pos2[c] = pos[c]
  <2> HIDE DEF t, c
  <2>1. Rows(t, c, pos) /\ t[1].active
    BY <1>1 DEF t, c
  <2> QED  BY <1>2, <1>3, <2>1, HeadRetires
<1> HIDE DEF r
<1>5. jobs' \in RowType /\ jobs'.slots = r /\ jobs'.current = c
  BY <1>1, <1>2, <1>4 DEF RowType
<1> QED  BY <1>4, <1>5

\* The job at the head goes on with less to send.
LEMMA HeadGoesOn ==
    ASSUME NEW pos, jobs \in RowType, Rows(jobs.slots, jobs.current, pos), HeadJob.active,
           NEW y \in JobPtr, NEW x \in Nat, pos[0] <= x, x <= pos[1],
           Sends(Pointed(HeadJob, y), x, pos[1]),
           jobs' = Repointed(jobs, y)
    PROVE  /\ jobs' \in RowType
           /\ \E pos2 : /\ Rows(jobs'.slots, jobs'.current, pos2) /\ pos2[0] = x
                        /\ pos2[jobs'.current] = pos[jobs.current]
<1> DEFINE t == jobs.slots
           c == jobs.current
           s == Pointed(t[1], y)
           r == Put(t, 1, s)
<1>1. t \in Seq(JobSlot) /\ 1 \in 1 .. Len(t) /\ c \in Nat /\ HeadJob = t[1]
  BY HeadIs
<1>2. jobs' = [slots |-> r, current |-> c] /\ s \in JobSlot
  BY <1>1, HeadPtr
<1>3. s.active /\ Sends(s, x, pos[1])
  BY <1>1 DEF Pointed
<1> HIDE DEF s
<1>4. r \in Seq(JobSlot)
  BY <1>1, <1>2, PutIs
<1>5. \E pos2 : Rows(r, c, pos2) /\ pos2[0] = x /\ pos2[c] = pos[c]
  <2> HIDE DEF t, c
  <2>1. Rows(t, c, pos) /\ t[1].active
    BY <1>1 DEF t, c
  <2> QED  BY <1>2, <1>3, <2>1, HeadSends
<1> HIDE DEF r
<1>6. jobs' \in RowType /\ jobs'.slots = r /\ jobs'.current = c
  <2> HIDE DEF t, c
  <2> QED  BY <1>1, <1>2, <1>4, RowIs
<1> QED  BY <1>5, <1>6

\* A fresh job list.
LEMMA NewRow ==
    ASSUME NEW x \in Nat
    PROVE  LET q == NewPoolList(NoJob, 2)
           IN  /\ q \in RowType
               /\ \E pos : Rows(q.slots, q.current, pos) /\ pos[0] = x /\ pos[q.current] = x
<1> DEFINE b == Block(NoJob, 2)
           q == NewPoolList(NoJob, 2)
           pos == [i \in 0 .. 1 |-> x]
<1>1. b \in Seq(JobSlot) /\ Len(b) = 2 /\ \A i \in 1 .. 2 : b[i] = NoJob
  <2> HIDE DEF NoJob
  <2> QED  BY PtrFacts DEF Block
<1> HIDE DEF b
<1>2. q = [slots |-> b, current |-> 1]
  BY DEF NewPoolList, b
<1>3. q \in RowType /\ q.slots = b /\ q.current = 1
  BY <1>1, <1>2 DEF RowType
<1> HIDE DEF q
<1>4. pos \in [0 .. 1 -> Nat] /\ \A i \in 0 .. 1 : pos[i] = x
  OBVIOUS
<1>5. 0 \in 0 .. 1 /\ 1 \in 0 .. 1
  OBVIOUS
<1> HIDE DEF pos
<1>6. ~b[1].active /\ Unused(b[1]) /\ b[2] = NoJob
  BY <1>1, PtrFacts
<1>7. Rows(b, 1, pos)
  <2>1. b \in Seq(JobSlot) /\ 1 \in 1 .. Len(b)
    BY <1>1
  <2>2. \A i, k \in 0 .. 1 : i <= k => pos[i] <= pos[k]
    BY <1>4
  <2>3. \A j \in 1 .. 1 : ~Ahead(b, j)
    BY <1>6 DEF Ahead
  <2>4. \A j \in 1 + 1 .. Len(b) : b[j] = NoJob
    BY <1>1, <1>6
  <2> QED  BY <1>4, <1>6, <2>1, <2>2, <2>3, <2>4 DEF Rows
<1> QED  BY <1>3, <1>4, <1>5, <1>7 DEF q

-----------------------------------------------------------------------------
(* The steps.                                                              *)

\* What is to be shown of a step.
LEMMA OrderThen ==
    ASSUME jobs' \in RowType, NEW pos, Rows(jobs'.slots, jobs'.current, pos),
           OutUpTo(wire', pos[0]), pos[jobs'.current] = accepted',
           accepted' \in 0 .. MaxStream, room' \in 0 .. SndBuf
    PROVE  OrderInv'
BY DEF OrderInv, RowsInv

\* A step that only makes room, or nothing of the kind.
LEMMA OrderStays ==
    ASSUME OrderInv, UNCHANGED <<jobs, wire, accepted>>, room' \in 0 .. SndBuf
    PROVE  OrderInv'
BY DEF OrderInv, RowsInv

\* The rows, where the invariant holds.
LEMMA OrderIs ==
    ASSUME OrderInv
    PROVE  /\ jobs \in RowType /\ accepted \in 0 .. MaxStream /\ accepted \in Nat
           /\ room \in 0 .. SndBuf /\ room \in Nat /\ MaxStream \in Nat /\ SndBuf \in Nat
           /\ \E pos : /\ Rows(jobs.slots, jobs.current, pos) /\ OutUpTo(wire, pos[0])
                       /\ pos[jobs.current] = accepted
BY JobsAssumption DEF OrderInv, RowsInv

\* A call that finds the head idle gives the kernel k bytes: what is in the
\* list is of no account any more, and whatever is queued comes behind them.
LEMMA Bypass ==
    ASSUME OrderInv, ~HeadJob.active, NEW k \in Nat, NEW len \in Nat, k <= len,
           NEW y \in Nat, k <= y
    PROVE  \E pos : /\ Rows(jobs.slots, jobs.current, pos) /\ OutUpTo(wire, pos[0])
                    /\ OutUpTo(wire \o Bytes(accepted, accepted + k, accepted + len), pos[0])
                    /\ pos[jobs.current] = accepted + y
<1> DEFINE b == Bytes(accepted, accepted + k, accepted + len)
           t == jobs.slots
           c == jobs.current
           e == accepted + y
<1>1. PICK pos : /\ Rows(t, c, pos) /\ OutUpTo(wire, pos[0]) /\ pos[c] = accepted
  BY OrderIs
<1>2. /\ jobs \in RowType /\ accepted \in Nat /\ accepted + len \in Nat
      /\ accepted + k <= accepted + len /\ accepted + k \in Nat
      /\ e \in Nat /\ accepted + k <= e /\ accepted <= e
  BY OrderIs
<1>3. ~t[1].active /\ pos[0] \in Nat /\ pos[0] <= accepted /\ pos[0] <= e
  BY <1>1, <1>2, HeadIs
<1>4. b = [i \in 1 .. k |-> accepted + i]
  BY <1>2, BytesAre
<1> HIDE DEF b, e
<1>5. OutUpTo(wire \o b, accepted + k)
  BY <1>1, <1>2, <1>3, <1>4, OutGrows
<1>6. OutUpTo(wire \o b, e) /\ OutUpTo(wire, e)
  BY <1>1, <1>2, <1>3, <1>5, OutFurther
<1>7. \E pos2 : Rows(t, c, pos2) /\ pos2[0] = e /\ pos2[c] = e
  <2> HIDE DEF t, c
  <2> QED  BY <1>1, <1>2, <1>3, Restart
<1> QED  BY <1>6, <1>7 DEF b, e

\* APE_socket_write behind pending output.
LEMMA AddsWrite ==
    ASSUME OrderInv, NEW len \in Lens, NEW cls \in Classes, WriteQueued(len, cls)
    PROVE  OrderInv'
<1>1. /\ len \in Nat /\ 0 < len /\ 0 \in Nat /\ cls \in {"copy", "auto", "own"}
      /\ accepted + len <= MaxStream /\ QueueData(len, 0, cls)
      /\ accepted' = accepted + len /\ wire' = wire /\ room' = room
  BY JobsAssumption DEF WriteQueued, kernelVars
<1>2. /\ jobs \in RowType /\ accepted \in Nat /\ room \in 0 .. SndBuf /\ MaxStream \in Nat
  BY OrderIs
<1>3. PICK pos : /\ Rows(jobs.slots, jobs.current, pos) /\ OutUpTo(wire, pos[0])
                 /\ pos[jobs.current] = accepted
  BY OrderIs
<1>4. pos[jobs.current] = accepted + 0
  BY <1>2, <1>3
<1>5. /\ jobs' \in RowType
      /\ \E pos2 : /\ Rows(jobs'.slots, jobs'.current, pos2) /\ pos2[0] = pos[0]
                   /\ pos2[jobs'.current] = accepted + len
  BY <1>1, <1>2, <1>3, <1>4, QueueRow
<1>6. accepted' \in 0 .. MaxStream
  BY <1>1, <1>2
<1> QED  BY <1>1, <1>2, <1>3, <1>5, <1>6, OrderThen

\* A call the kernel takes k bytes of, and of which nothing is queued.
LEMMA Bypassed ==
    ASSUME OrderInv, ~HeadJob.active, NEW len \in Nat, accepted + len <= MaxStream,
           jobs' = jobs, accepted' = accepted + len, room' \in 0 .. SndBuf,
           NEW k \in Nat, k <= len,
           \/ wire' = wire
           \/ wire' = wire \o Bytes(accepted, accepted + k, accepted + len)
    PROVE  OrderInv'
<1>1. jobs \in RowType /\ accepted \in Nat /\ MaxStream \in Nat
  BY OrderIs
<1>2. PICK pos : /\ Rows(jobs.slots, jobs.current, pos) /\ OutUpTo(wire, pos[0])
                 /\ OutUpTo(wire \o Bytes(accepted, accepted + k, accepted + len), pos[0])
                 /\ pos[jobs.current] = accepted + len
  BY Bypass
<1>3. OutUpTo(wire', pos[0])
  BY <1>2
<1>4. accepted' \in 0 .. MaxStream /\ pos[jobs'.current] = accepted'
  BY <1>1, <1>2
<1>5. jobs' \in RowType /\ Rows(jobs'.slots, jobs'.current, pos)
  BY <1>1, <1>2
<1> QED  BY <1>3, <1>4, <1>5, OrderThen

\* APE_socket_write that the kernel takes all of, or that fails; a vector.
LEMMA PassesBy ==
    ASSUME OrderInv,
           \/ \E len \in Lens : WriteAll(len) \/ WriteError(len)
           \/ \E len \in VecLens : SocketWritev(len)
    PROVE  OrderInv'
<1>1. room \in 0 .. SndBuf /\ room \in Nat /\ SndBuf \in Nat /\ 0 \in 0 .. SndBuf
  BY OrderIs
<1>2. \A len \in Lens \cup VecLens : len \in Nat
  BY JobsAssumption
<1>3. ASSUME NEW len \in Lens, WriteAll(len)  PROVE OrderInv'
  <2>1. /\ ~HeadJob.active /\ accepted + len <= MaxStream /\ len <= room /\ jobs' = jobs
        /\ wire' = wire \o Bytes(accepted, accepted + len, accepted + len)
        /\ room' = room - len /\ accepted' = accepted + len
    BY <1>3 DEF WriteAll, Blocked, jobVars
  <2>2. room' \in 0 .. SndBuf /\ len <= len /\ len \in Nat
    BY <1>1, <1>2, <2>1
  <2> QED  BY <2>1, <2>2, Bypassed
<1>4. ASSUME NEW len \in Lens, WriteError(len)  PROVE OrderInv'
  <2>1. /\ ~HeadJob.active /\ accepted + len <= MaxStream /\ jobs' = jobs
        /\ accepted' = accepted + len
        /\ \/ wire' = wire /\ room' = room
           \/ /\ room < len /\ room' = 0
              /\ wire' = wire \o Bytes(accepted, accepted + room, accepted + len)
    BY <1>4 DEF WriteError, Blocked, jobVars
  <2>2. len \in Nat /\ room' \in 0 .. SndBuf
    BY <1>1, <1>2, <2>1
  <2>3. CASE wire' = wire
    BY <2>1, <2>2, <2>3, Bypassed
  <2>4. CASE /\ room < len
             /\ wire' = wire \o Bytes(accepted, accepted + room, accepted + len)
    <3>1. room <= len /\ room \in Nat
      BY <1>1, <2>2, <2>4
    <3> QED  BY <2>1, <2>2, <2>4, <3>1, Bypassed
  <2> QED  BY <2>1, <2>3, <2>4
<1>5. ASSUME NEW len \in VecLens, SocketWritev(len)  PROVE OrderInv'
  <2> DEFINE k == Least(len, room)
  <2>1. /\ ~HeadJob.active /\ accepted + len <= MaxStream /\ jobs' = jobs
        /\ accepted' = accepted + len
        /\ \/ /\ wire' = wire \o Bytes(accepted, accepted + k, accepted + len)
              /\ room' = room - k
           \/ wire' = wire /\ room' = room
    BY <1>5 DEF SocketWritev, Blocked, jobVars
  <2>2. len \in Nat /\ k \in Nat /\ k <= len /\ k <= room
    BY <1>1, <1>2 DEF Least
  <2> HIDE DEF k
  <2>3. room' \in 0 .. SndBuf
    BY <1>1, <2>1, <2>2
  <2> QED  BY <2>1, <2>2, <2>3, Bypassed
<1> QED  BY <1>3, <1>4, <1>5

\* APE_socket_write that the kernel takes a part of.
LEMMA AddsRest ==
    ASSUME OrderInv, NEW len \in Lens, NEW cls \in Classes, WriteSome(len, cls, 0)
    PROVE  OrderInv'
<1>1. /\ jobs \in RowType /\ accepted \in Nat /\ room \in Nat /\ MaxStream \in Nat
      /\ 0 \in 0 .. SndBuf
  BY OrderIs
<1>2. len \in Nat /\ len > 0 /\ cls \in {"copy", "auto", "own"}
  BY JobsAssumption
<1>3. Least(len, 0) = 0 /\ room + 0 = room /\ 0 - 0 = 0
  BY <1>1, <1>2 DEF Least
<1>4. /\ ~HeadJob.active /\ accepted + len <= MaxStream /\ room < len
      /\ wire' = wire \o Bytes(accepted, accepted + room, accepted + len)
      /\ accepted' = accepted + len /\ room' = 0
      /\ QueueData(len, room, cls)
  <2> DEFINE m == Least(len, 0)
             x == room + m
  <2>1. /\ ~Blocked /\ accepted + len <= MaxStream /\ room < len
        /\ wire' = wire \o Bytes(accepted, accepted + x, accepted + len)
        /\ accepted' = accepted + len /\ room' = 0 - m
        /\ (x < len /\ QueueData(len, RestOff(x), cls)) \/ x >= len
    BY DEF WriteSome
  <2>2. x = room /\ m = 0
    BY <1>3
  <2> HIDE DEF m, x
  <2>3. ~(room >= len)
    BY <1>1, <1>2, <2>1
  <2> QED  BY <1>3, <2>1, <2>2, <2>3 DEF Blocked, RestOff
<1>5. PICK pos : /\ Rows(jobs.slots, jobs.current, pos) /\ OutUpTo(wire, pos[0])
                 /\ OutUpTo(wire \o Bytes(accepted, accepted + room, accepted + len), pos[0])
                 /\ pos[jobs.current] = accepted + room
  <2> DEFINE e == room
  <2>1. room <= len /\ room <= e /\ e \in Nat /\ ~HeadJob.active /\ room \in Nat /\ len \in Nat
    BY <1>1, <1>2, <1>4
  <2> HIDE DEF e
  <2>2. \E pos : /\ Rows(jobs.slots, jobs.current, pos) /\ OutUpTo(wire, pos[0])
                 /\ OutUpTo(wire \o Bytes(accepted, accepted + room, accepted + len), pos[0])
                 /\ pos[jobs.current] = accepted + e
    BY <2>1, Bypass
  <2> QED  BY <2>2 DEF e
<1>6. /\ jobs' \in RowType
      /\ \E pos2 : /\ Rows(jobs'.slots, jobs'.current, pos2) /\ pos2[0] = pos[0]
                   /\ pos2[jobs'.current] = accepted + len
  BY <1>1, <1>2, <1>4, <1>5, QueueRow
<1>7. accepted' \in 0 .. MaxStream /\ room' \in 0 .. SndBuf
  BY <1>1, <1>2, <1>4
<1> QED  BY <1>4, <1>5, <1>6, <1>7, OrderThen

\* APE_sendfile behind pending output.
LEMMA AddsFile ==
    ASSUME OrderInv, NEW len \in FileLens, SendfileQueued(len)
    PROVE  OrderInv'
<1>1. /\ jobs \in RowType /\ accepted \in Nat /\ room \in 0 .. SndBuf /\ MaxStream \in Nat
      /\ len \in Nat /\ 0 \in Nat /\ 0 <= len
  BY OrderIs, JobsAssumption
<1>2. /\ accepted + len <= MaxStream /\ accepted' = accepted + len /\ wire' = wire /\ room' = room
      /\ LET j == JobGetSlot(jobs, "SENDFILE")
         IN  jobs' = [j EXCEPT !.slots[j.current].ptr = FilePtr(accepted, len, 0)]
  BY DEF SendfileQueued, kernelVars
<1>3. PICK pos : /\ Rows(jobs.slots, jobs.current, pos) /\ OutUpTo(wire, pos[0])
                 /\ pos[jobs.current] = accepted
  BY OrderIs
<1>4. pos[jobs.current] = accepted + 0
  BY <1>1, <1>3
<1>5. /\ jobs' \in RowType
      /\ \E pos2 : /\ Rows(jobs'.slots, jobs'.current, pos2) /\ pos2[0] = pos[0]
                   /\ pos2[jobs'.current] = accepted + len
  BY <1>1, <1>2, <1>3, <1>4, FileRow
<1>6. accepted' \in 0 .. MaxStream
  BY <1>1, <1>2
<1> QED  BY <1>1, <1>2, <1>3, <1>5, <1>6, OrderThen

\* APE_sendfile on an idle output side.
LEMMA SendsFile ==
    ASSUME OrderInv, NEW len \in FileLens, Sendfile(len)
    PROVE  OrderInv'
<1> DEFINE k == Least(len, room)
<1>1. /\ jobs \in RowType /\ accepted \in Nat /\ room \in 0 .. SndBuf /\ room \in Nat
      /\ MaxStream \in Nat /\ len \in Nat /\ SndBuf \in Nat
  BY OrderIs, JobsAssumption
<1>2. /\ ~HeadJob.active /\ accepted + len <= MaxStream /\ accepted' = accepted + len
      /\ wire' = wire \o Bytes(accepted, accepted + k, accepted + len) /\ room' = room - k
      /\ \/ /\ k < len
            /\ LET j == JobGetSlot(jobs, "SENDFILE")
               IN  jobs' = [j EXCEPT !.slots[j.current].ptr = FilePtr(accepted, len, k)]
         \/ jobs' = jobs
  BY DEF Sendfile, Blocked
<1>3. k \in Nat /\ k <= len /\ k <= room
  BY <1>1 DEF Least
<1> HIDE DEF k
<1>4. accepted' \in 0 .. MaxStream /\ room' \in 0 .. SndBuf
  BY <1>1, <1>2, <1>3
<1>5. CASE jobs' = jobs
  BY <1>1, <1>2, <1>3, <1>4, <1>5, Bypassed
<1>6. CASE LET j == JobGetSlot(jobs, "SENDFILE")
           IN  jobs' = [j EXCEPT !.slots[j.current].ptr = FilePtr(accepted, len, k)]
  <2>1. PICK pos : /\ Rows(jobs.slots, jobs.current, pos) /\ OutUpTo(wire, pos[0])
                   /\ OutUpTo(wire \o Bytes(accepted, accepted + k, accepted + len), pos[0])
                   /\ pos[jobs.current] = accepted + k
    <3>1. k <= k
      BY <1>3
    <3> QED  BY <1>1, <1>2, <1>3, <3>1, Bypass
  <2>2. /\ jobs' \in RowType
        /\ \E pos2 : /\ Rows(jobs'.slots, jobs'.current, pos2) /\ pos2[0] = pos[0]
                     /\ pos2[jobs'.current] = accepted + len
    BY <1>1, <1>3, <1>6, <2>1, FileRow
  <2> QED  BY <1>2, <1>4, <2>1, <2>2, OrderThen
<1> QED  BY <1>2, <1>5, <1>6

\* APE_socket_shutdown.
LEMMA AddsEnd ==
    ASSUME OrderInv, Shutdown  PROVE OrderInv'
<1>1. /\ jobs' = JobGetSlot(jobs, "SHUTDOWN") \/ jobs' = jobs
      /\ wire' = wire /\ accepted' = accepted /\ room' = room
  BY DEF Shutdown, kernelVars, streamVars
<1>2. jobs \in RowType /\ accepted \in 0 .. MaxStream /\ room \in 0 .. SndBuf
  BY OrderIs
<1>3. CASE jobs' = jobs
  BY <1>1, <1>2, <1>3, OrderStays
<1>4. CASE jobs' = JobGetSlot(jobs, "SHUTDOWN")
  <2>1. PICK pos : /\ Rows(jobs.slots, jobs.current, pos) /\ OutUpTo(wire, pos[0])
                   /\ pos[jobs.current] = accepted
    BY OrderIs
  <2>2. /\ jobs' \in RowType
        /\ \E pos2 : /\ Rows(jobs'.slots, jobs'.current, pos2) /\ pos2[0] = pos[0]
                     /\ pos2[jobs'.current] = pos[jobs.current]
    BY <1>2, <1>4, <2>1, EndRow
  <2> QED  BY <1>1, <1>2, <2>1, <2>2, OrderThen
<1> QED  BY <1>1, <1>3, <1>4

\* One writev() of a stretch.
LEMMA TakesRun ==
    ASSUME NEW l, NEW x, NEW to, Stretch(l, x, to, TRUE), l.current > 1,
           NEW avail \in Nat, avail > 0
    PROVE  /\ Taken(l, avail) \in 1 .. avail
           /\ \A k \in 1 .. Taken(l, avail) : ByteOf(Chunk(l), k) = x + k
           /\ Stretch(Rest(l, avail), x + Taken(l, avail), to, TRUE)
<1> DEFINE n == Taken(l, avail)
           r == Rest(l, avail)
           ch == Chunk(l)
           c == l.current
<1>1. /\ n \in 1 .. avail /\ n <= to - x
      /\ \A k \in 1 .. n : ByteOf(ch, k) = x + k
      /\ Stretch(r, x + n, to, TRUE)
      /\ \E f \in 0 .. c - 1 :
           /\ {k \in DOMAIN ch : Ends(ch)[k] <= n} = 1 .. f
           /\ \A i \in 1 .. f : ch[i] = l.slots[i]
           /\ r.current = c - f
           /\ \A i \in 1 .. r.current - 1 :
                /\ r.slots[i].base = l.slots[i + f].base
                /\ r.slots[i].cls = l.slots[i + f].cls
  <2>1. TRUE \in BOOLEAN
    OBVIOUS
  <2> QED  BY <2>1, TookRun DEF Rest, Taken
<1> QED  BY <1>1, Zenon DEF n, r, ch

\* ape_socket_do_jobs sends some of a WRITEV job.
LEMMA SendsPackets ==
    ASSUME OrderInv, Writev  PROVE OrderInv'
<1> DEFINE l == HeadJob.ptr.list
           ch == Chunk(l)
           n == Taken(l, room)
           r == Rest(l, room)
           b == [k \in 1 .. n |-> ByteOf(ch, k)]
           y == ListPtr(r)
<1>1. /\ HeadJob.active /\ HeadJob.flags = {"WRITEV"} /\ room > 0
      /\ wire' = wire \o b /\ room' = room - n /\ accepted' = accepted
      /\ IF r.slots[1].used
         THEN jobs' = Repointed(jobs, y)
         ELSE jobs' = Retire(Repointed(jobs, y))
  BY DEF Writev, RunsJob, Taken, Rest, Repointed
<1>2. /\ jobs \in RowType /\ accepted \in 0 .. MaxStream /\ room \in 0 .. SndBuf /\ room \in Nat
      /\ SndBuf \in Nat
  BY OrderIs
<1>3. PICK pos : /\ Rows(jobs.slots, jobs.current, pos) /\ OutUpTo(wire, pos[0])
                 /\ pos[jobs.current] = accepted
  BY OrderIs
<1>4. pos[0] \in Nat /\ pos[1] \in Nat /\ Sends(HeadJob, pos[0], pos[1])
  BY <1>1, <1>2, <1>3, HeadIs
<1>5. PICK x \in Nat : pos[0] <= x /\ Stretch(l, x, pos[1], TRUE) /\ l.current > 1
  BY <1>1, <1>4 DEF Sends
<1> DEFINE to == pos[1]
<1>6. Stretch(l, x, to, TRUE)
  BY <1>5
<1> HIDE DEF to, l
<1>7. /\ n \in 1 .. room /\ \A k \in 1 .. n : ByteOf(ch, k) = x + k
      /\ Stretch(r, x + n, to, TRUE)
  BY <1>1, <1>2, <1>5, <1>6, TakesRun
<1>8. b = [k \in 1 .. n |-> x + k]
  BY <1>7
<1> HIDE DEF n, r, b, ch
<1>9. n \in Nat /\ x + n \in Nat /\ pos[0] <= x + n /\ room' \in 0 .. SndBuf
  BY <1>1, <1>2, <1>4, <1>5, <1>7
<1>10. OutUpTo(wire', x + n)
  BY <1>1, <1>3, <1>4, <1>5, <1>8, <1>9, OutGrows
<1>11. r \in GoodList
  <2>1. r \in ListType /\ r.current \in 1 .. Len(r.slots)
    BY <1>7, Zenon DEF Stretch
  <2> QED  BY <2>1 DEF GoodList
<1>12. y \in JobPtr /\ y.kind = "list" /\ y.list = r
  BY <1>11, PtrFacts
<1>13. /\ r.slots[1].used <=> r.current > 1
       /\ r.current = 1 => x + n = to /\ Empty(r)
  BY <1>7, StretchEnds
<1>14. r.current \in Nat /\ r.current >= 1 /\ x + n <= to
  <2>1. r.current \in 1 .. Len(r.slots) /\ Len(r.slots) \in Nat /\ r.slots \in Seq(PacketType)
    BY <1>11 DEF GoodList, ListType
  <2>2. PICK at \in [0 .. Len(r.slots) -> Nat] :
           Placed(r, at, TRUE) /\ at[0] = x + n /\ at[Len(r.slots)] = to
    BY <1>7 DEF Stretch
  <2>3. at[0] <= at[Len(r.slots)]
    BY <2>1, <2>2 DEF Placed
  <2> QED  BY <2>1, <2>2, <2>3
<1> HIDE DEF y
<1>15. CASE r.slots[1].used
  <2>1. jobs' = Repointed(jobs, y) /\ r.current > 1
    BY <1>1, <1>13, <1>15
  <2>2. Sends(Pointed(HeadJob, y), x + n, pos[1])
    <3>1. Pointed(HeadJob, y).flags = {"WRITEV"} /\ Pointed(HeadJob, y).ptr = y
      BY <1>1 DEF Pointed
    <3>2. {"WRITEV"} # {} /\ {"WRITEV"} # {"SENDFILE"}
      OBVIOUS
    <3>3. \E z \in Nat : x + n <= z /\ Stretch(r, z, to, TRUE)
      <4> DEFINE e == x + n
      <4>1. e \in Nat /\ e <= e
        BY <1>9
      <4>2. Stretch(r, e, to, TRUE)
        BY <1>7, Zenon
      <4> HIDE DEF e
      <4>3. \E z \in Nat : e <= z /\ Stretch(r, z, to, TRUE)
        BY <4>1, <4>2, Zenon
      <4> QED  BY <4>3 DEF e
    <3> QED  BY <1>12, <2>1, <3>1, <3>2, <3>3 DEF Sends, to
  <2>3. /\ jobs' \in RowType
        /\ \E pos2 : /\ Rows(jobs'.slots, jobs'.current, pos2) /\ pos2[0] = x + n
                     /\ pos2[jobs'.current] = pos[jobs.current]
    <3> DEFINE z == x + n
    <3>1. z \in Nat /\ pos[0] <= z /\ z <= pos[1] /\ Sends(Pointed(HeadJob, y), z, pos[1])
      BY <1>9, <1>14, <2>2 DEF to
    <3> HIDE DEF z
    <3>2. /\ jobs' \in RowType
          /\ \E pos2 : /\ Rows(jobs'.slots, jobs'.current, pos2) /\ pos2[0] = z
                       /\ pos2[jobs'.current] = pos[jobs.current]
      BY <1>1, <1>2, <1>3, <1>12, <2>1, <3>1, HeadGoesOn
    <3> QED  BY <3>2 DEF z
  <2> QED  BY <1>1, <1>2, <1>3, <1>9, <1>10, <2>3, OrderThen
<1>16. CASE ~r.slots[1].used
  <2>1. jobs' = Retire(Repointed(jobs, y)) /\ x + n = pos[1] /\ Empty(r)
    BY <1>1, <1>13, <1>14, <1>16 DEF to
  <2>2. Unused(Ended(HeadJob, y))
    <3>1. Ended(HeadJob, y).flags = {"WRITEV"} /\ Ended(HeadJob, y).ptr = y
      BY <1>1 DEF Ended
    <3> QED  BY <1>12, <2>1, <3>1 DEF Unused
  <2>3. /\ jobs' \in RowType
        /\ \E pos2 : /\ Rows(jobs'.slots, jobs'.current, pos2) /\ pos2[0] = pos[1]
                     /\ pos2[jobs'.current] = pos[jobs.current]
    BY <1>1, <1>2, <1>3, <1>12, <2>1, <2>2, HeadDone
  <2> QED  BY <1>1, <1>2, <1>3, <1>9, <1>10, <2>1, <2>3, OrderThen
<1> QED  BY <1>15, <1>16

\* ape_socket_do_jobs sends some of a file.
LEMMA SendsSome ==
    ASSUME OrderInv, SendfileSome  PROVE OrderInv'
<1> DEFINE p == HeadJob.ptr
           k == Least(p.len - p.off, room)
           y == FilePtr(p.base, p.len, p.off + k)
           f == p.base + p.off
<1>1. /\ HeadJob.active /\ HeadJob.flags = {"SENDFILE"} /\ p.off < p.len /\ room > 0
      /\ wire' = wire \o Bytes(f, f + k, p.base + p.len)
      /\ room' = room - k /\ accepted' = accepted
      /\ jobs' = [jobs EXCEPT !.slots[1].ptr.off = @ + k]
  BY DEF SendfileSome, RunsJob
<1>2. /\ jobs \in RowType /\ accepted \in 0 .. MaxStream /\ room \in 0 .. SndBuf /\ room \in Nat
      /\ SndBuf \in Nat
  BY OrderIs
<1>3. PICK pos : /\ Rows(jobs.slots, jobs.current, pos) /\ OutUpTo(wire, pos[0])
                 /\ pos[jobs.current] = accepted
  BY OrderIs
<1>4. /\ pos[0] \in Nat /\ pos[1] \in Nat /\ Sends(HeadJob, pos[0], pos[1])
      /\ HeadJob \in JobSlot /\ HeadJob = jobs.slots[1] /\ 1 \in 1 .. Len(jobs.slots)
      /\ jobs.slots \in Seq(JobSlot)
  BY <1>1, <1>2, <1>3, HeadIs
<1>5. p.kind = "file" /\ pos[0] <= p.base + p.off /\ p.base + p.len <= pos[1]
  BY <1>1, <1>4 DEF Sends
<1>6. p = FilePtr(p.base, p.len, p.off) /\ p.base \in Nat /\ p.len \in Nat /\ p.off \in Nat
  BY <1>4, <1>5, SlotIs, PtrKinds
<1>7. k \in Nat /\ k <= p.len - p.off /\ k <= room
  BY <1>1, <1>2, <1>6 DEF Least
<1>8. jobs' = Repointed(jobs, y)
  <2> DEFINE t == jobs.slots
             c == jobs.current
  <2>1. jobs = [slots |-> t, current |-> c] /\ t[1] = HeadJob
    BY <1>2, <1>4 DEF RowType
  <2>2. [jobs EXCEPT !.slots[1].ptr.off = @ + k] =
          [jobs EXCEPT !.slots[1].ptr = [jobs.slots[1].ptr EXCEPT !.off = @ + k]]
    OBVIOUS
  <2>3. [p EXCEPT !.off = @ + k] = y
    <3> DEFINE q == FilePtr(p.base, p.len, p.off)
    <3>1. [q EXCEPT !.off = @ + k] = FilePtr(p.base, p.len, q.off + k)
      <4> HIDE DEF k
      <4> QED  BY DEF FilePtr
    <3>2. q = p
      BY <1>6
    <3> HIDE DEF q, k, p
    <3> QED  BY <3>1, <3>2
  <2> HIDE DEF y, k
  <2> QED  BY <1>1, <1>4, <2>2, <2>3 DEF Repointed
<1> HIDE DEF k
<1> DEFINE base == p.base
           len == p.len
           off == p.off
           e == base + len
           z == f + k
<1>9. /\ base \in Nat /\ len \in Nat /\ off \in Nat /\ off + k \in Nat /\ off + k <= len
      /\ pos[0] <= base + off /\ base + len <= pos[1]
  <2> HIDE DEF p
  <2> QED  BY <1>5, <1>6, <1>7
<1>10. /\ y \in JobPtr /\ y.kind = "file" /\ y.base = base /\ y.len = len /\ y.off = off + k
  <2> HIDE DEF base, len, off
  <2>1. y = FilePtr(base, len, off + k)
    BY DEF base, len, off
  <2> QED  BY <1>9, <2>1, PtrFacts
<1>11. /\ f \in Nat /\ e \in Nat /\ z \in Nat /\ z <= e /\ pos[0] <= f /\ pos[0] <= z /\ z <= pos[1]
       /\ room' \in 0 .. SndBuf
       /\ y.base + y.off = z /\ y.base + y.len <= pos[1] /\ y.off <= y.len
  <2>1. f = base + off /\ z = (base + off) + k /\ e = base + len /\ room' = room - k
    BY <1>1
  <2>2. y.base + y.off = base + (off + k) /\ y.base + y.len = base + len
    BY <1>10
  <2> HIDE DEF f, z, e, base, len, off, y, p
  <2>3. /\ base + (off + k) = (base + off) + k /\ (base + off) + k <= base + len
        /\ base + off \in Nat /\ base + len \in Nat /\ (base + off) + k \in Nat
        /\ pos[0] <= (base + off) + k /\ (base + off) + k <= pos[1]
    BY <1>4, <1>7, <1>9
  <2>4. room - k \in 0 .. SndBuf
    BY <1>2, <1>7
  <2>5. y.off <= y.len
    BY <1>9, <1>10
  <2> QED  BY <1>9, <2>1, <2>2, <2>3, <2>4, <2>5
<1> HIDE DEF y, base, len, off, p
<1>12. OutUpTo(wire', z)
  <2> HIDE DEF f, e
  <2>1. Bytes(f, f + k, e) = [i \in 1 .. k |-> f + i]
    BY <1>7, <1>11, BytesAre
  <2>2. wire' = wire \o Bytes(f, f + k, e)
    BY <1>1 DEF e, base, len
  <2> QED  BY <1>3, <1>4, <1>7, <1>11, <2>1, <2>2, OutGrows
<1> HIDE DEF z
<1>13. Sends(Pointed(HeadJob, y), z, pos[1])
  <2>1. Pointed(HeadJob, y).flags = {"SENDFILE"} /\ Pointed(HeadJob, y).ptr = y
    BY <1>1 DEF Pointed
  <2>2. {"SENDFILE"} # {} /\ {"WRITEV"} # {"SENDFILE"} /\ z <= z
    BY <1>11
  <2> QED  BY <1>10, <1>11, <2>1, <2>2 DEF Sends
<1>14. /\ jobs' \in RowType
       /\ \E pos2 : /\ Rows(jobs'.slots, jobs'.current, pos2) /\ pos2[0] = z
                    /\ pos2[jobs'.current] = pos[jobs.current]
  BY <1>1, <1>2, <1>3, <1>8, <1>10, <1>11, <1>13, HeadGoesOn
<1> QED  BY <1>1, <1>2, <1>3, <1>11, <1>12, <1>14, OrderThen

\* ape_socket_do_jobs ends a file, or drops a job of several types.
LEMMA EndsJob ==
    ASSUME OrderInv, SendfileDone \/ JobDefault  PROVE OrderInv'
<1>1. /\ jobs \in RowType /\ accepted \in 0 .. MaxStream /\ room \in 0 .. SndBuf
  BY OrderIs
<1>2. PICK pos : /\ Rows(jobs.slots, jobs.current, pos) /\ OutUpTo(wire, pos[0])
                 /\ pos[jobs.current] = accepted
  BY OrderIs
<1>3. HeadJob.active /\ wire' = wire /\ accepted' = accepted /\ room' = room
  BY DEF SendfileDone, JobDefault, RunsJob, kernelVars, streamVars
<1>4. /\ pos[0] \in Nat /\ pos[1] \in Nat /\ pos[0] <= pos[1] /\ Sends(HeadJob, pos[0], pos[1])
      /\ HeadJob \in JobSlot /\ HeadJob = jobs.slots[1]
  BY <1>1, <1>2, <1>3, HeadIs
<1>5. \E y \in JobPtr : /\ Unused(Ended(HeadJob, y))
                        /\ jobs' = Retire(Repointed(jobs, y))
  <2>1. CASE SendfileDone
    <3>1. HeadJob.flags = {"SENDFILE"} /\ jobs' = Retire(Repointed(jobs, NullPtr))
      BY <2>1 DEF SendfileDone, RunsJob, Repointed
    <3>2. Ended(HeadJob, NullPtr).flags = {"SENDFILE"} /\ {"SENDFILE"} # {} /\ {"SENDFILE"} # {"WRITEV"}
      BY <3>1 DEF Ended
    <3>3. Unused(Ended(HeadJob, NullPtr))
      BY <3>2 DEF Unused
    <3> QED  BY <3>1, <3>3, PtrFacts
  <2>2. CASE JobDefault
    <3> DEFINE y == HeadJob.ptr
    <3>1. HeadJob.flags # {"WRITEV"} /\ jobs' = Retire(jobs)
      BY <2>2 DEF JobDefault
    <3>2. HeadJob.flags # {}
      BY <1>4 DEF Sends
    <3>3. Ended(HeadJob, y).flags = HeadJob.flags
      BY DEF Ended
    <3>4. Unused(Ended(HeadJob, y))
      BY <3>1, <3>2, <3>3 DEF Unused
    <3>5. Repointed(jobs, y) = jobs
      <4>1. [HeadJob EXCEPT !.ptr = y] = HeadJob
        BY <1>4 DEF JobSlot
      <4>2. [jobs.slots EXCEPT ![1] = HeadJob] = jobs.slots
        BY <1>1, <1>4 DEF RowType
      <4>3. [jobs EXCEPT !.slots = jobs.slots] = jobs
        BY <1>1 DEF RowType
      <4>4. [jobs EXCEPT !.slots[1].ptr = y] =
              [jobs EXCEPT !.slots = [jobs.slots EXCEPT ![1] = [jobs.slots[1] EXCEPT !.ptr = y]]]
        OBVIOUS
      <4> QED  BY <1>4, <4>1, <4>2, <4>3, <4>4 DEF Repointed
    <3>6. y \in JobPtr
      BY <1>4, SlotIs
    <3> HIDE DEF y
    <3> QED  BY <3>1, <3>4, <3>5, <3>6
  <2> QED  BY <2>1, <2>2
<1>6. PICK y \in JobPtr : /\ Unused(Ended(HeadJob, y))
                          /\ jobs' = Retire(Repointed(jobs, y))
  BY <1>5
<1>7. /\ jobs' \in RowType
      /\ \E pos2 : /\ Rows(jobs'.slots, jobs'.current, pos2) /\ pos2[0] = pos[1]
                   /\ pos2[jobs'.current] = pos[jobs.current]
  BY <1>1, <1>2, <1>3, <1>6, HeadDone
<1>8. OutUpTo(wire', pos[1])
  BY <1>2, <1>3, <1>4, OutFurther
<1> QED  BY <1>1, <1>2, <1>3, <1>7, <1>8, OrderThen

\* The socket starts with a fresh job list.
LEMMA OrderStarts ==
    ASSUME Init  PROVE OrderInv
<1>1. jobs = NewPoolList(NoJob, 2) /\ accepted = 0 /\ room = SndBuf /\ wire = <<>>
  BY DEF Init
<1>2. 0 \in Nat /\ 0 \in 0 .. MaxStream /\ SndBuf \in 0 .. SndBuf
  BY JobsAssumption
<1>3. /\ jobs \in RowType
      /\ \E pos : Rows(jobs.slots, jobs.current, pos) /\ pos[0] = 0 /\ pos[jobs.current] = 0
  BY <1>1, <1>2, NewRow
<1>4. OutUpTo(wire, 0)
  BY <1>1 DEF OutUpTo
<1> QED  BY <1>1, <1>2, <1>3, <1>4 DEF OrderInv, RowsInv

\* ape_socket_free.
LEMMA OrderFreed ==
    ASSUME OrderInv, Free  PROVE OrderInv'
<1>1. jobs' = NewPoolList(NoJob, 2) /\ accepted' = accepted /\ wire' = wire /\ room' = room
  BY DEF Free, kernelVars, streamVars
<1>2. /\ jobs \in RowType /\ accepted \in 0 .. MaxStream /\ accepted \in Nat /\ room \in 0 .. SndBuf
  BY OrderIs
<1>3. PICK pos : /\ Rows(jobs.slots, jobs.current, pos) /\ OutUpTo(wire, pos[0])
                 /\ pos[jobs.current] = accepted
  BY OrderIs
<1>4. OutUpTo(wire', accepted)
  BY <1>1, <1>2, <1>3, HeadIs, OutFurther
<1>5. /\ jobs' \in RowType
      /\ \E pos2 : /\ Rows(jobs'.slots, jobs'.current, pos2) /\ pos2[0] = accepted
                   /\ pos2[jobs'.current] = accepted
  BY <1>1, <1>2, NewRow
<1> QED  BY <1>1, <1>2, <1>4, <1>5, OrderThen

\* Every step keeps the invariant, when the peer makes no room between two
\* write() calls of one APE_socket_write.
LEMMA OrderStep ==
    ASSUME AckDuringWrite = FALSE, OrderInv, [Next]_vars  PROVE OrderInv'
<1>1. room \in 0 .. SndBuf /\ room \in Nat /\ SndBuf \in Nat
  BY OrderIs
<1>2. CASE UNCHANGED vars
  BY <1>1, <1>2, OrderStays DEF vars, jobVars, streamVars, kernelVars
<1>3. CASE App
  <2>1. (IF AckDuringWrite THEN 0 .. SndBuf ELSE {0}) = {0}
    OBVIOUS
  <2>2. \/ \E len \in Lens : WriteAll(len) \/ WriteError(len)
        \/ \E len \in VecLens : SocketWritev(len)
        \/ \E len \in Lens, cls \in Classes : WriteQueued(len, cls) \/ WriteSome(len, cls, 0)
        \/ \E len \in FileLens : SendfileQueued(len) \/ Sendfile(len)
        \/ Shutdown \/ ShutdownNow
    BY <1>3, <2>1 DEF App
  <2>3. CASE ShutdownNow
    BY <1>1, <2>3, OrderStays DEF ShutdownNow, jobVars, streamVars, kernelVars
  <2> QED  BY <2>2, <2>3, PassesBy, AddsWrite, AddsRest, AddsFile, SendsFile, AddsEnd
<1>4. CASE WriteEvent \/ ReadDone
  BY <1>1, <1>4, OrderStays DEF WriteEvent, ReadDone, jobVars, streamVars, kernelVars
<1>5. CASE Jobs
  <2>1. CASE JobNone \/ WritevRefused \/ WritevError \/ SendfileRefused \/ JobShutdown
    BY <1>1, <2>1, OrderStays
       DEF JobNone, WritevRefused, WritevError, SendfileRefused, JobShutdown,
           jobVars, streamVars, kernelVars
  <2> QED  BY <1>5, <2>1, SendsPackets, SendsSome, EndsJob DEF Jobs
<1>6. CASE Ack
  <2>1. room' \in 0 .. SndBuf /\ UNCHANGED <<jobs, wire, accepted>>
    BY <1>1, <1>6 DEF Ack, jobVars, streamVars
  <2> QED  BY <2>1, OrderStays
<1>7. CASE Free
  BY <1>7, OrderFreed
<1> QED  BY <1>2, <1>3, <1>4, <1>5, <1>6, <1>7 DEF Next

\* No byte goes out twice and none overtakes another, whatever the
\* application mixes: data that joins a job in the current slot whatever its
\* type bits, files that fail half way, jobs that are dropped, and calls that
\* bypass a list whose head is idle (APE_socket_write, APE_sendfile,
\* APE_socket_writev, APE_socket_shutdown and ape_socket_do_jobs).
THEOREM OrderKept ==
    ASSUME AckDuringWrite = FALSE  PROVE Spec => []InOrder
<1>1. Init => OrderInv
  BY OrderStarts
<1>2. OrderInv /\ [Next]_vars => OrderInv'
  BY OrderStep
<1>3. OrderInv => InOrder
  <2> SUFFICES ASSUME OrderInv, NEW i \in 1 .. Len(wire) - 1  PROVE wire[i] < wire[i + 1]
    BY DEF InOrder
  <2>1. /\ wire \in Seq(Nat) /\ Len(wire) \in Nat
        /\ \A j, k \in 1 .. Len(wire) : j < k => wire[j] < wire[k]
    BY OrderIs DEF OutUpTo
  <2>2. i \in 1 .. Len(wire) /\ i + 1 \in 1 .. Len(wire) /\ i < i + 1
    BY <2>1
  <2> QED  BY <2>1, <2>2
<1> QED  BY <1>1, <1>2, <1>3, PTL DEF Spec

=============================================================================
