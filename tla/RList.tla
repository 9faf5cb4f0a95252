------------------------------- MODULE RList -------------------------------
(***************************************************************************)
(* The intrusive doubly linked lists of include/small/rlist.h: circular,   *)
(* with a head of the same type as the entries.  Every function is the     *)
(* sequence of its assignments to prev and next; lists holds what the      *)
(* functions are to do to the lists, as sequences.                         *)
(*                                                                         *)
(* An entry that rlist_cut_before discards keeps its links.  It may be     *)
(* added to a list again, but not deleted or moved; stale has the entries  *)
(* this is so for.                                                         *)
(***************************************************************************)
EXTENDS Naturals, Sequences, SequencesExt

CONSTANTS Heads, Items, None

RListAssumption == Heads \cap Items = {} /\ None \notin Heads \cup Items

VARIABLES link,     \* prev and next of every head and entry
          lists,    \* history: the entries of each list
          stale,    \* history: entries discarded with their links
          loop      \* a loop over a list that may remove the current entry

vars == <<link, lists, stale, loop>>

Nodes == Heads \cup Items

NoLoop == [head |-> None, item |-> None, tmp |-> None, dir |-> "next", todo |-> <<>>]

TypeOK ==
    /\ link \in [Nodes -> [prev : Nodes, next : Nodes]]
    /\ \A h \in Heads : lists[h] \in Seq(Items)
    /\ stale \subseteq Items
    /\ loop = NoLoop \/ loop.head \in Heads
-----------------------------------------------------------------------------
\* The functions, as assignments.

prev_set(l, a, b) == [l EXCEPT ![a].prev = b]
next_set(l, a, b) == [l EXCEPT ![a].next = b]

rlist_create(l, n) == [l EXCEPT ![n] = [prev |-> n, next |-> n]]

rlist_empty(l, n) == l[n].next = l[n].prev /\ l[n].next = n

\* The neighbours of an entry are made to point to it ...
Hook(l, item) ==
    LET l1 == next_set(l, l[item].prev, item) IN prev_set(l1, l1[item].next, item)

\* ... or past it.
Unhook(l, item) ==
    LET l1 == next_set(l, l[item].prev, l[item].next)
    IN  prev_set(l1, l1[item].next, l1[item].prev)

rlist_add(l, head, item) == Hook(next_set(prev_set(l, item, head), item, l[head].next), item)

rlist_add_tail(l, head, item) ==
    Hook(prev_set(next_set(l, item, head), item, l[head].prev), item)

rlist_del(l, item) == rlist_create(Unhook(l, item), item)

rlist_shift(l, head) ==
    LET shift == l[head].next
        l1 == next_set(l, head, l[shift].next)
    IN  rlist_create(prev_set(l1, l1[shift].next, head), shift)

rlist_shift_tail(l, head) == rlist_del(l, l[head].prev)

rlist_move(l, to, item) == rlist_add(rlist_del(l, item), to, item)

rlist_move_tail(l, to, item) ==
    LET l1 == next_set(Unhook(l, item), item, to)
    IN  Hook(prev_set(l1, item, l1[to].prev), item)

\* Altered form of Relink: the last entry is linked before the first, which
\* for an empty list writes to the other head.
RelinkLastFirst(l, a, b) == Hook(IF l[a].next = b THEN next_set(l, a, a) ELSE l, a)

\* Half of rlist_swap: a has got the links of b, which point to b if it was
\* empty.
Relink(l, a, b) ==
    LET l1 == IF l[a].next = b THEN next_set(l, a, a) ELSE l
        l2 == prev_set(l1, l1[a].next, a)
    IN  next_set(l2, l2[a].prev, a)

rlist_swap(l, rhs, lhs) ==
    LET l1 == [l EXCEPT ![rhs] = l[lhs], ![lhs] = l[rhs]]
    IN  Relink(Relink(l1, lhs, rhs), rhs, lhs)

rlist_splice(l, head1, head2) ==
    LET l1 == prev_set(l, l[head1].next, l[head2].prev)
        l2 == next_set(l1, l1[head2].prev, l1[head1].next)
        l3 == next_set(l2, head1, l2[head2].next)
        l4 == prev_set(l3, l3[head2].next, head1)
    IN  IF rlist_empty(l, head2) THEN l ELSE rlist_create(l4, head2)

rlist_splice_tail(l, head1, head2) ==
    LET l1 == next_set(l, l[head1].prev, l[head2].next)
        l2 == prev_set(l1, l1[head2].next, l1[head1].prev)
        l3 == prev_set(l2, head1, l2[head2].prev)
        l4 == next_set(l3, l3[head2].prev, head1)
    IN  IF rlist_empty(l, head2) THEN l ELSE rlist_create(l4, head2)

rlist_cut_before(l, head1, head2, item) ==
    LET l1 == next_set(l, head1, l[head2].next)
        l2 == prev_set(l1, l1[head1].next, head1)
        l3 == prev_set(l2, head1, l2[item].prev)
        l4 == next_set(l3, l3[head1].prev, head1)
    IN  IF l[head1].next = item THEN rlist_create(l, head1)
        ELSE prev_set(next_set(l4, head2, item), item, head2)
-----------------------------------------------------------------------------
\* What they are to do to the lists.

Listed == UNION {ToSet(lists[h]) : h \in Heads}

Without(ls, item) == [h \in Heads |-> SelectSeq(ls[h], LAMBDA x : x # item)]

\* item is put behind (in front of) pos, a head or an entry of a list.
Behind(ls, pos, item) ==
    [h \in Heads |->
        IF pos = h THEN <<item>> \o ls[h]
        ELSE IF pos \in ToSet(ls[h]) THEN InsertAt(ls[h], IndexFirstSubSeq(<<pos>>, ls[h]) + 1, item)
        ELSE ls[h]]

InFront(ls, pos, item) ==
    [h \in Heads |->
        IF pos = h THEN Append(ls[h], item)
        ELSE IF pos \in ToSet(ls[h]) THEN InsertAt(ls[h], IndexFirstSubSeq(<<pos>>, ls[h]), item)
        ELSE ls[h]]

Positions == Heads \cup Listed
Idle == loop = NoLoop

Add(pos, item) ==
    /\ Idle
    /\ item \notin Listed
    /\ \/ /\ link' = rlist_add(link, pos, item)
          /\ lists' = Behind(lists, pos, item)
       \/ /\ link' = rlist_add_tail(link, pos, item)
          /\ lists' = InFront(lists, pos, item)
    /\ stale' = stale \ {item}
    /\ UNCHANGED loop

\* Deleting an entry that is in no list is allowed.
Del(item) ==
    /\ Idle
    /\ item \notin stale
    /\ link' = rlist_del(link, item)
    /\ lists' = Without(lists, item)
    /\ UNCHANGED <<stale, loop>>

Shift(head) ==
    /\ Idle
    /\ ~rlist_empty(link, head)
    /\ \/ /\ link' = rlist_shift(link, head)
          /\ lists' = [lists EXCEPT ![head] = Tail(@)]
       \/ /\ link' = rlist_shift_tail(link, head)
          /\ lists' = [lists EXCEPT ![head] = Front(@)]
    /\ UNCHANGED <<stale, loop>>

Move(pos, item) ==
    /\ Idle
    /\ item \notin stale /\ pos # item
    /\ \/ /\ link' = rlist_move(link, pos, item)
          /\ lists' = Behind(Without(lists, item), pos, item)
       \/ /\ link' = rlist_move_tail(link, pos, item)
          /\ lists' = InFront(Without(lists, item), pos, item)
    /\ UNCHANGED <<stale, loop>>

SwapLists(rhs, lhs) ==
    /\ Idle
    /\ link' = rlist_swap(link, rhs, lhs)
    /\ lists' = [lists EXCEPT ![rhs] = lists[lhs], ![lhs] = lists[rhs]]
    /\ UNCHANGED <<stale, loop>>

Splice(head1, head2) ==
    /\ Idle
    /\ head1 # head2
    /\ \/ /\ link' = rlist_splice(link, head1, head2)
          /\ lists' = [lists EXCEPT ![head1] = lists[head2] \o @, ![head2] = <<>>]
       \/ /\ link' = rlist_splice_tail(link, head1, head2)
          /\ lists' = [lists EXCEPT ![head1] = @ \o lists[head2], ![head2] = <<>>]
    /\ UNCHANGED <<stale, loop>>

\* The list head2 is cut in front of item, which may be head2 itself.
Cut(head1, head2, item) ==
    LET s == lists[head2]
        k == IF item = head2 THEN Len(s) ELSE IndexFirstSubSeq(<<item>>, s) - 1
    IN  /\ Idle
        /\ head1 # head2
        /\ item \in {head2} \cup ToSet(s)
        /\ link' = rlist_cut_before(link, head1, head2, item)
        /\ lists' = [lists EXCEPT ![head1] = SubSeq(s, 1, k),
                                  ![head2] = SubSeq(s, k + 1, Len(s))]
        /\ stale' = stale \cup ToSet(lists[head1])
        /\ UNCHANGED loop
-----------------------------------------------------------------------------
\* rlist_foreach_entry_safe and rlist_foreach_entry_safe_reverse, with bodies
\* that keep the current entry, delete it or move it to another list.

Step(l, n, dir) == IF dir = "next" THEN l[n].next ELSE l[n].prev

\* The loop condition, which sets tmp.
At(l, head, item, dir, todo) ==
    [head |-> head, item |-> item, dir |-> dir, todo |-> todo,
     tmp |-> IF item = head THEN None ELSE Step(l, item, dir)]

ForeachStart(head, dir) ==
    /\ Idle
    /\ loop' = At(link, head, Step(link, head, dir), dir,
                  IF dir = "next" THEN lists[head] ELSE Reverse(lists[head]))
    /\ UNCHANGED <<link, lists, stale>>

\* The body and the step to the next entry.
ForeachBody ==
    /\ ~Idle /\ loop.item # loop.head
    /\ \/ UNCHANGED <<link, lists>>
       \/ /\ link' = rlist_del(link, loop.item)
          /\ lists' = Without(lists, loop.item)
       \/ \E to \in Heads \ {loop.head} :
            /\ link' = rlist_move(link, to, loop.item)
            /\ lists' = Behind(Without(lists, loop.item), to, loop.item)
    /\ loop' = At(link', loop.head, loop.tmp, loop.dir, Tail(loop.todo))
    /\ UNCHANGED stale

ForeachEnd ==
    /\ ~Idle /\ loop.item = loop.head
    /\ loop' = NoLoop
    /\ UNCHANGED <<link, lists, stale>>
-----------------------------------------------------------------------------
\* rlist_create of all heads and entries
Init ==
    /\ link = [n \in Nodes |-> [prev |-> n, next |-> n]]
    /\ lists = [h \in Heads |-> <<>>]
    /\ stale = {}
    /\ loop = NoLoop

Next ==
    \/ \E pos \in Positions, item \in Items : Add(pos, item) \/ Move(pos, item)
    \/ \E item \in Items : Del(item)
    \/ \E head \in Heads : Shift(head) \/ \E dir \in {"next", "prev"} : ForeachStart(head, dir)
    \/ \E head1, head2 \in Heads : SwapLists(head1, head2) \/ Splice(head1, head2)
    \/ \E head1, head2 \in Heads, item \in Nodes : Cut(head1, head2, item)
    \/ ForeachBody
    \/ ForeachEnd

Spec == Init /\ [][Next]_vars
-----------------------------------------------------------------------------
\* The k-th node of a list, counted round from its head.
Ring(h, k) == IF k = 0 \/ k = Len(lists[h]) + 1 THEN h ELSE lists[h][k]

\* The links of every list are the entries it is to have, in order and both
\* ways round, and an entry in no list points to itself, unless it was
\* discarded.
LinksAreLists ==
    /\ \A h \in Heads : \A k \in 0 .. Len(lists[h]) :
         /\ link[Ring(h, k)].next = Ring(h, k + 1)
         /\ link[Ring(h, k + 1)].prev = Ring(h, k)
    /\ \A item \in Items : item \in Listed \/ item \in stale \/ rlist_empty(link, item)
    /\ Listed \cap stale = {}

\* rlist_foreach_entry_safe visits every entry the list had at the start,
\* once and in order, although the body takes entries away.
ForeachVisitsAll ==
    ~Idle => loop.item = IF loop.todo = <<>> THEN loop.head ELSE Head(loop.todo)
=============================================================================
