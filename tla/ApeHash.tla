------------------------------- MODULE ApeHash -------------------------------
(***************************************************************************)
(* The hash table of ape_hash.c with integer keys: buckets of items linked *)
(* by next, all items linked by lnext and lprev, a cleaner called with the *)
(* content of items that go.  An item is known by its address, 0 is NULL.  *)
(* The operations return the table and the set of contents cleaned.        *)
(***************************************************************************)
EXTENDS Integers, FiniteSetsExt

CONSTANTS
    HashSize,      \* htbl->size, HACH_TABLE_MAX in hashtbl_init
    MaxItems       \* bound: items allocated at a time

ASSUME HashAssumption == HashSize \in Nat \ {0} /\ MaxItems \in Nat

Addrs   == 1 .. MaxItems
Buckets == 0 .. HashSize - 1
NoItem  == [key |-> -1, content |-> 0, next |-> 0, lnext |-> 0, lprev |-> 0]

\* hashtbl_init_with_size
HashInit == [first |-> 0, table |-> [b \in Buckets |-> 0], item |-> [a \in Addrs |-> NoItem]]

Allocated(h) == {a \in Addrs : h.item[a] # NoItem}

\* The addresses met on the way along the links from head, 0 behind the last
Way(head, link) ==
    LET at[n \in Nat] ==
            IF n = 0 THEN head
            ELSE IF at[n - 1] = 0 THEN 0 ELSE link[at[n - 1]]
    IN  [n \in 0 .. MaxItems |-> at[n]]

NextOf(h)  == [a \in Addrs |-> h.item[a].next]
LnextOf(h) == [a \in Addrs |-> h.item[a].lnext]

\* The way along next from the head of a bucket
Chain(h, b) == Way(h.table[b], NextOf(h))

\* Where on that way the key is found
Found(h, key) ==
    LET c == Chain(h, key % HashSize)
    IN  {n \in 0 .. MaxItems : c[n] # 0 /\ h.item[c[n]].key = key}

\* hashtbl_seek64
Seek(h, key) ==
    IF Found(h, key) = {} THEN 0
    ELSE h.item[Chain(h, key % HashSize)[Min(Found(h, key))]].content

\* malloc(): which free address it returns makes no difference, so it is the
\* one that is wished for unless that is taken
NewAddr(wish, taken) == IF wish \in Addrs \ taken THEN wish ELSE Min(Addrs \ taken)

\* hashtbl_append64.  If the key is there, the cleaner is given the new
\* content, which is then stored all the same.
Append64(h, key, content) ==
    LET b == key % HashSize
        new == NewAddr(key, Allocated(h))
        linked ==
            [h.item EXCEPT ![new] = [key |-> key, content |-> content, next |-> h.table[b],
                                     lnext |-> h.first, lprev |-> 0]]
    IN  IF Found(h, key) # {}
        THEN [h |-> [h EXCEPT !.item[Chain(h, b)[Min(Found(h, key))]].content = content],
              cleaned |-> {content}]
        ELSE [h |-> [first |-> new,
                     table |-> [h.table EXCEPT ![b] = new],
                     item |-> IF h.first = 0 THEN linked
                              ELSE [linked EXCEPT ![h.first].lprev = new]],
              cleaned |-> {}]

\* Mutant: the item behind keeps pointing at the one that goes
ListUnlinkForward(h, a) ==
    LET i == h.item[a]
    IN  [h EXCEPT !.first = IF i.lprev = 0 THEN i.lnext ELSE h.first,
                  !.item = IF i.lprev = 0 THEN h.item
                           ELSE [h.item EXCEPT ![i.lprev].lnext = i.lnext]]

\* The item at address a is taken out of the list ...
ListUnlink(h, a) ==
    LET i == h.item[a]
        back == IF i.lprev = 0 THEN h.item ELSE [h.item EXCEPT ![i.lprev].lnext = i.lnext]
    IN  [h EXCEPT !.first = IF i.lprev = 0 THEN i.lnext ELSE h.first,
                  !.item = IF i.lnext = 0 THEN back
                           ELSE [back EXCEPT ![i.lnext].lprev = i.lprev]]

\* ... and out of its bucket, n items into the chain
ChainUnlink(h, b, n) ==
    LET a == Chain(h, b)[n]
    IN  IF n = 0 THEN [h EXCEPT !.table[b] = h.item[a].next]
        ELSE [h EXCEPT !.item[Chain(h, b)[n - 1]].next = h.item[a].next]

\* hashtbl_erase64
Erase64(h, key) ==
    LET b == key % HashSize
        n == Min(Found(h, key))
        a == Chain(h, b)[n]
    IN  IF Found(h, key) = {} THEN [h |-> h, cleaned |-> {}]
        ELSE [h |-> [ListUnlink(ChainUnlink(h, b, n), a) EXCEPT !.item[a] = NoItem],
              cleaned |-> {h.item[a].content}]

\* The way along lnext
Walk(h) == Way(h.first, LnextOf(h))

Reached(way) == {way[n] : n \in 0 .. MaxItems} \ {0}

\* The two ways through the table agree: every item is in the chain of its
\* bucket, once, and in the list, once; lprev undoes lnext; both ways end.
WellLinked(h) ==
    /\ Walk(h)[MaxItems] = 0 /\ Reached(Walk(h)) = Allocated(h)
    /\ \A b \in Buckets :
         /\ Chain(h, b)[MaxItems] = 0
         /\ Reached(Chain(h, b)) = {a \in Allocated(h) : h.item[a].key % HashSize = b}
    /\ \A a \in Allocated(h) :
         /\ h.item[a].lnext # 0 => h.item[h.item[a].lnext].lprev = a
         /\ h.item[a].lprev = 0 <=> h.first = a
    /\ \A a, b \in Allocated(h) : h.item[a].key = h.item[b].key => a = b

=============================================================================
