------------------------------- MODULE ApePool -------------------------------
(***************************************************************************)
(* The pool lists of ape_pool.c: a linked list of slots from `head' to     *)
(* `queue', with a cursor `current'.  The order of the next pointers is    *)
(* the sequence slots (head first, queue last); current is a position in   *)
(* it.  What a slot holds is up to the user of the list; the slots of a    *)
(* fresh block hold `empty'.                                               *)
(***************************************************************************)
EXTENDS Naturals, Sequences

Block(empty, n) == [i \in 1 .. n |-> empty]

\* ape_init_pool_list, ape_new_pool_list
NewPoolList(empty, n) == [slots |-> Block(empty, n), current |-> 1]

\* ape_grow_pool: a block of n slots behind the queue
GrowPool(l, empty, n) == [l EXCEPT !.slots = @ \o Block(empty, n)]

\* ape_pool_head_to_queue, k times: the k slots at the head go behind the
\* queue, emptied by the caller
HeadsToQueue(l, empty, k) ==
    [slots   |-> SubSeq(l.slots, k + 1, Len(l.slots)) \o Block(empty, k),
     current |-> l.current - k]

\* ape_pool_head_to_current: the head is linked in behind current and
\* becomes current, unless it is current already
HeadToCurrent(l) ==
    IF l.current = 1
    THEN l
    ELSE [l EXCEPT !.slots = SubSeq(@, 2, l.current) \o <<Head(@)>>
                               \o SubSeq(@, l.current + 1, Len(@))]

=============================================================================
