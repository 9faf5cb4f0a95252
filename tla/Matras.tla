------------------------------- MODULE Matras -------------------------------
(***************************************************************************)
(* matras of small/matras.c: an array of blocks kept in extents, reached   *)
(* through two levels of tables (extents too), with read views that share  *)
(* extents with the array until one of their blocks is touched.            *)
(*                                                                         *)
(* The code compares an extent only with the extent in the same place of   *)
(* another view.  So an extent is named <<place, number>>, where place is  *)
(* the way to it (<<>> the root, <<n1>> a table, <<n1, n2>> the blocks),   *)
(* and the number is the lowest one not in use there: a freed extent comes *)
(* back at once in its old place.  mem is what the tables hold.  What is   *)
(* in the blocks is left out; writable tells instead which blocks the      *)
(* caller may write to: those allocated or touched since the last read     *)
(* view was created.  A call is one step, in which the allocator gives got *)
(* of the extents wanted before it fails.                                  *)
(***************************************************************************)
EXTENDS Integers, Sequences, FiniteSets, FiniteSetsExt, SequencesExt

CONSTANTS PtrsInExt,       \* pointers in an extent
          BlocksInExt,     \* blocks in an extent
          MaxBlocks,       \* bound: blocks allocated
          MaxViews,        \* bound: read views at a time
          MaxNumber,       \* bound: extents for one place at a time
          MaxReserve,      \* bound: touches reserved for
          MayFail          \* calls in which the external allocator can fail

ASSUME MatrasAssumption ==
    /\ PtrsInExt \in Nat \ {0, 1} /\ BlocksInExt \in Nat \ {0}
    /\ MaxBlocks \in Nat /\ MaxViews \in Nat /\ MaxNumber \in Nat /\ MaxReserve \in Nat
    /\ MayFail \subseteq {"touch", "alloc", "dealloc"}

VARIABLES mem,           \* pointers in the tables
          allocated,     \* extents matras has got and not freed
          num_reserved,  \* allocator->num_reserved_extents
          head,          \* m->head: root and block_count
          views,         \* read views, m->head.prev_view last
          extent_count,  \* m->extent_count
          view_count,    \* stats->read_view_extent_count
          writable,      \* blocks the caller may write to
          credit         \* touches the last matras_touch_reserve is good for

vars == <<mem, allocated, num_reserved, head, views, extent_count, view_count, writable, credit>>

NULL == 0
NoView == [root |-> NULL, block_count |-> 0]
Slots == 0 .. PtrsInExt - 1
Numbers == 1 .. MaxNumber
Tables == ({<<>>} \cup {<<i>> : i \in Slots}) \X (Numbers \cup {NULL})
Leaves == (Slots \X Slots) \X Numbers
Empty == [i \in Slots |-> NULL]

capacity == PtrsInExt * PtrsInExt * BlocksInExt
step1 == PtrsInExt * BlocksInExt     \* mask1 + 1
step2 == BlocksInExt                 \* mask2 + 1
n1(id) == id \div step1              \* id >> shift1
n2(id) == (id % step1) \div step2    \* (id & mask1) >> shift2

TypeOK ==
    /\ mem \in [Tables -> [Slots -> Numbers \cup {NULL}]]
    /\ allocated \subseteq Tables \cup Leaves
    /\ num_reserved \in Nat
    /\ head \in [root : Numbers \cup {NULL}, block_count : 0 .. capacity]
    /\ views \in Seq([root : Numbers \cup {NULL}, block_count : 0 .. capacity])
    /\ extent_count \in Nat /\ view_count \in Nat
    /\ writable \subseteq 0 .. head.block_count - 1
    /\ credit \in Nat

\* matras_create, matras_allocator_create
Init ==
    /\ mem = [e \in Tables |-> Empty]
    /\ allocated = {}
    /\ num_reserved = 0
    /\ head = NoView
    /\ views = <<>>
    /\ extent_count = 0 /\ view_count = 0
    /\ writable = {}
    /\ credit = 0

-----------------------------------------------------------------------------
\* The place at level 0, 1 or 2 on the way to block id, and the extent that
\* view v has there (matras_view_get_no_check).
Place(id, level) == SubSeq(<<n1(id), n2(id)>>, 1, level)
Root(v) == <<<<>>, v.root>>
Table(v, id) == <<Place(id, 1), mem[Root(v)][n1(id)]>>
Leaf(v, id) == <<Place(id, 2), mem[Table(v, id)][n2(id)]>>
Extent(v, id, level) == CASE level = 0 -> Root(v)
                          [] level = 1 -> Table(v, id)
                          [] level = 2 -> Leaf(v, id)

\* The numbers free at this level on the way to block id, and the extent
\* the allocator gives for that place.
Free(id, level) == {g \in Numbers : <<Place(id, level), g>> \notin allocated}
New(id, level) == <<Place(id, level), Min(Free(id, level))>>
HasNew(id, levels) == {} \notin {Free(id, level) : level \in levels}

\* matras_allocator_alloc, called until it fails or has given n extents: it
\* gives the reserved ones first and can fail only after them.
Got(n, call) == IF call \in MayFail THEN Min({n, num_reserved}) .. n ELSE {n}

Take(got) == num_reserved' = Max({0, num_reserved - got})

prev_view == IF views = <<>> THEN NoView ELSE Last(views)

matras_needs_touch(id) ==
    /\ prev_view.block_count # 0
    /\ id \div step2 <= (prev_view.block_count - 1) \div step2

\* Altered form of Copies: the extent of the block itself is not compared.
CopiesNoLeaf(id) ==
    IF ~matras_needs_touch(id) THEN 0
    ELSE IF Root(head) = Root(prev_view) THEN 3
    ELSE IF Table(head, id) = Table(prev_view, id) THEN 2
    ELSE 0

\* How many extents on the way to block id, counted from the block, head
\* shares with the newest read view: those matras_touch has to copy.
Copies(id) ==
    IF ~matras_needs_touch(id) THEN 0
    ELSE IF Root(head) = Root(prev_view) THEN 3
    ELSE IF Table(head, id) = Table(prev_view, id) THEN 2
    ELSE IF Leaf(head, id) = Leaf(prev_view, id) THEN 1
    ELSE 0

\* The extent on the way to block id once those at the levels in fresh have
\* been replaced by new ones.
Way(id, fresh, level) ==
    IF level \in fresh THEN New(id, level) ELSE Extent(head, id, level)

\* The tables after new extents at the levels in fresh got the contents of
\* the old ones and pointers to them were stored.
Copied(id, fresh) ==
    LET table == Way(id, fresh, 1)
        leaf == Way(id, fresh, 2)
    IN  [mem EXCEPT ![Way(id, fresh, 0)] = [mem[Root(head)] EXCEPT ![n1(id)] = table[2]],
                    ![table] = [mem[Table(head, id)] EXCEPT ![n2(id)] = leaf[2]]]

\* The levels of the first got of n copies.
Levels(n, got) == 3 - n .. 3 - n + got - 1

\* matras_touch and matras_touch_no_check, by a caller who then writes to
\* the block.  A touch that fails keeps the copies it has made.
matras_touch(id, got) ==
    LET n == Copies(id)
        fresh == Levels(n, got)
    IN  /\ got \in Got(n, "touch") /\ HasNew(id, fresh)
        /\ mem' = Copied(id, fresh)
        /\ head' = [head EXCEPT !.root = Way(id, fresh, 0)[2]]
        /\ allocated' = allocated \cup {Way(id, fresh, level) : level \in fresh}
        /\ Take(got)
        /\ extent_count' = extent_count + got
        /\ view_count' = view_count + got
        /\ writable' = IF got = n THEN writable \cup {id} ELSE writable
        /\ credit' = Max({0, credit - 1})
        /\ UNCHANGED views

\* How many extents are needed for block id if there are none beyond it
\* (matras_alloc_internal), and freed with it if it is the last block.
Missing(id) ==
    IF id = 0 THEN 3 ELSE IF id % step1 = 0 THEN 2 ELSE IF id % step2 = 0 THEN 1 ELSE 0

\* The tables once the extents missing for block id are linked to each other
\* and to the tables there are.
Linked(id) ==
    LET n == Missing(id)
        new(level) == New(id, level)
    IN  CASE n = 3 -> [mem EXCEPT ![new(0)] = [Empty EXCEPT ![n1(id)] = new(1)[2]],
                                  ![new(1)] = [Empty EXCEPT ![n2(id)] = new(2)[2]]]
          [] n = 2 -> [mem EXCEPT ![Root(head)][n1(id)] = new(1)[2],
                                  ![new(1)] = [Empty EXCEPT ![n2(id)] = new(2)[2]]]
          [] n = 1 -> [mem EXCEPT ![Table(head, id)][n2(id)] = new(2)[2]]
          [] n = 0 -> mem

\* Altered form of AllocFailure: the extents got in the call are kept.
AllocFailureKeeps(id, got) ==
    LET fresh == Levels(Missing(id), got)
    IN  /\ head' = IF 0 \in fresh THEN [head EXCEPT !.root = New(id, 0)[2]] ELSE head
        /\ mem' = IF fresh = {1} THEN [mem EXCEPT ![Root(head)][n1(id)] = New(id, 1)[2]] ELSE mem
        /\ allocated' = allocated \cup {New(id, level) : level \in fresh}
        /\ extent_count' = extent_count + got
        /\ UNCHANGED writable

\* The extents got in the call are freed again; pointers to them stay.
AllocFailure(id, got) ==
    LET fresh == Levels(Missing(id), got)
    IN  /\ head' = IF 0 \in fresh THEN [head EXCEPT !.root = New(id, 0)[2]] ELSE head
        /\ mem' = IF fresh = {1} THEN [mem EXCEPT ![Root(head)][n1(id)] = New(id, 1)[2]] ELSE mem
        /\ UNCHANGED <<allocated, extent_count, writable>>

\* matras_alloc (r = 1) and matras_alloc_range.
matras_alloc(r, got) ==
    LET id == head.block_count
        n == Missing(id)
    IN  /\ BlocksInExt % r = 0 /\ id % r = 0
        /\ id + r <= capacity
        /\ got \in Got(n, "alloc") /\ HasNew(id, Levels(n, n))
        /\ Take(got)
        /\ \/ /\ got = n
              /\ head' = [root |-> IF n = 3 THEN New(id, 0)[2] ELSE head.root,
                          block_count |-> id + r]
              /\ mem' = Linked(id)
              /\ allocated' = allocated \cup {New(id, level) : level \in Levels(n, n)}
              /\ extent_count' = extent_count + n
              /\ writable' = writable \cup id .. id + r - 1
           \/ got < n /\ AllocFailure(id, got)
        /\ credit' = 0
        /\ UNCHANGED <<views, view_count>>

\* Memory given back holds nothing of use.
Erase(m, freed) == [e \in DOMAIN m |-> IF e \in freed THEN Empty ELSE m[e]]

\* Altered form of matras_dealloc: the last block is not touched before its
\* extents are freed.
matras_deallocUntouched(r, got) ==
    LET id == head.block_count - r
        freed == {Extent(head, id, level) : level \in Levels(Missing(id), Missing(id))}
    IN  /\ id >= 0 /\ BlocksInExt % r = 0 /\ head.block_count % r = 0
        /\ got = 0
        /\ mem' = Erase(mem, freed)
        /\ head' = [head EXCEPT !.block_count = id]
        /\ allocated' = allocated \ freed
        /\ extent_count' = extent_count - Cardinality(freed)
        /\ writable' = writable \ (id .. id + r - 1)
        /\ credit' = 0
        /\ UNCHANGED <<num_reserved, view_count, views>>

\* matras_dealloc (r = 1) and matras_dealloc_range: touch the first block
\* of the range, whether or not this succeeds, and free the extents that
\* have no other block.
matras_dealloc(r, got) ==
    LET id == head.block_count - r
        n == Copies(id)
        fresh == Levels(n, got)
        freed == {Way(id, fresh, level) : level \in Levels(Missing(id), Missing(id))}
    IN  /\ id >= 0 /\ BlocksInExt % r = 0 /\ head.block_count % r = 0
        /\ got \in Got(n, "dealloc") /\ HasNew(id, fresh)
        /\ mem' = Erase(Copied(id, fresh), freed)
        /\ head' = [root |-> Way(id, fresh, 0)[2], block_count |-> id]
        /\ allocated' = (allocated \cup {Way(id, fresh, level) : level \in fresh}) \ freed
        /\ Take(got)
        /\ extent_count' = extent_count + got - Cardinality(freed)
        /\ view_count' = view_count + got
        /\ writable' = writable \ (id .. id + r - 1)
        /\ credit' = 0
        /\ UNCHANGED views

-----------------------------------------------------------------------------
\* Altered form of ReserveCount: the root is forgotten.
ReserveCountNoRoot(count) == IF prev_view.block_count = 0 THEN 0 ELSE count * 2

ReserveCount(count) ==
    IF prev_view.block_count = 0 THEN 0
    ELSE count * 2 + (IF Root(head) = Root(prev_view) THEN 1 ELSE 0)

\* matras_touch_reserve and matras_allocator_reserve, which keeps what it
\* got when the external allocator fails.
matras_touch_reserve(count, got) ==
    LET wanted == Max({0, ReserveCount(count) - num_reserved})
    IN  /\ got <= wanted
        /\ num_reserved' = num_reserved + got
        /\ credit' = IF got = wanted THEN count ELSE 0
        /\ UNCHANGED <<mem, allocated, head, views, extent_count, view_count, writable>>

\* matras_allocator_destroy followed by matras_allocator_create.
matras_allocator_destroy ==
    /\ num_reserved' = 0
    /\ credit' = 0
    /\ UNCHANGED <<mem, allocated, head, views, extent_count, view_count, writable>>

matras_create_read_view ==
    /\ Len(views) < MaxViews
    /\ views' = Append(views, head)
    /\ writable' = {}
    /\ credit' = 0
    /\ UNCHANGED <<mem, allocated, num_reserved, head, extent_count, view_count>>

\* The extents matras_destroy_read_view frees: those of view v that neither
\* the older view prev nor the younger view next (or head) has in the same
\* place.  A table that stays keeps everything below it.
ViewExtents(v, prev, next) ==
    LET shared1(id) == \E w \in {prev, next} :
                          w.block_count > id - (id % step1) /\ Table(v, id) = Table(w, id)
        shared2(id) == \E w \in {prev, next} :
                          w.block_count > id - (id % step2) /\ Leaf(v, id) = Leaf(w, id)
        own == {id \in 0 .. v.block_count - 1 : ~shared1(id)}
    IN  IF \/ v.block_count = 0
           \/ Root(v) = Root(next) /\ next.block_count # 0
           \/ Root(v) = Root(prev) /\ prev.block_count # 0
        THEN {}
        ELSE {Root(v)} \cup {Table(v, id) : id \in own}
             \cup {Leaf(v, id) : id \in {i \in own : ~shared2(i)}}

\* The i-th view, with none before the first and head after the last.
View(i) == IF i = 0 THEN NoView ELSE IF i > Len(views) THEN head ELSE views[i]

matras_destroy_read_view(i) ==
    LET freed == ViewExtents(views[i], View(i - 1), View(i + 1))
    IN  /\ views' = RemoveAt(views, i)
        /\ mem' = Erase(mem, freed)
        /\ allocated' = allocated \ freed
        /\ extent_count' = extent_count - Cardinality(freed)
        /\ view_count' = view_count - Cardinality(freed)
        /\ credit' = 0
        /\ UNCHANGED <<num_reserved, head, writable>>

\* The extents of a view.
Tree(v) ==
    LET ids == 0 .. v.block_count - 1
    IN  IF ids = {} THEN {}
        ELSE {Root(v)} \cup {Table(v, id) : id \in ids} \cup {Leaf(v, id) : id \in ids}

\* matras_destroy, which destroys the read views, newest first, and then
\* frees the extents of head; with matras_reset or matras_create after it.
matras_destroy ==
    LET byView(i) == ViewExtents(views[i], View(i - 1), head)
        freed == UNION {byView(i) : i \in DOMAIN views}
        count == MapThenSumSet(LAMBDA i : Cardinality(byView(i)), DOMAIN views)
    IN  /\ views' = <<>>
        /\ mem' = Erase(mem, freed \cup Tree(head))
        /\ allocated' = allocated \ (freed \cup Tree(head))
        /\ extent_count' = extent_count - count - Cardinality(Tree(head))
        /\ view_count' = view_count - count
        /\ head' = [head EXCEPT !.block_count = 0]
        /\ writable' = {}
        /\ credit' = 0
        /\ UNCHANGED num_reserved

Next ==
    \/ \E got \in 0 .. 3 :
          \/ \E id \in 0 .. head.block_count - 1 : matras_touch(id, got)
          \/ \E r \in 1 .. BlocksInExt :
                \/ head.block_count + r <= MaxBlocks /\ matras_alloc(r, got)
                \/ matras_dealloc(r, got)
    \/ \E count \in 1 .. MaxReserve, got \in 0 .. 2 * MaxReserve + 1 :
          matras_touch_reserve(count, got)
    \/ matras_allocator_destroy
    \/ matras_create_read_view
    \/ \E i \in DOMAIN views : matras_destroy_read_view(i)
    \/ matras_destroy

Spec == Init /\ [][Next]_vars
-----------------------------------------------------------------------------
All == ToSet(views) \cup {head}

\* Whatever matras_get and matras_view_get walk through, in head or in any
\* read view, is an extent that has not been freed.
NoDangling == \A v \in All : Tree(v) \subseteq allocated

\* "Created views are immutable": a block the caller may write to is in no
\* read view at the same place, however the two came to share extents.
ViewsImmutable ==
    \A id \in writable : \A v \in ToSet(views) :
        id < v.block_count => Leaf(v, id) # Leaf(head, id)

\* matras_touch_reserve(count) makes the next count touches independent of
\* the external allocator.
ReserveSuffices ==
    credit > 0 => \A id \in 0 .. head.block_count - 1 : Copies(id) <= num_reserved

\* assert(m->extent_count == 0) at the end of matras_destroy.
DestroyFreesAll == [][matras_destroy /\ head.block_count # 0 => extent_count' = 0]_vars

\* Every extent belongs to head or to a read view: neither a failed
\* allocation nor the end of a view loses one.  extent_count counts them
\* all, and read_view_extent_count those that are not head's.
NoLeak ==
    /\ allocated = UNION {Tree(v) : v \in All}
    /\ extent_count = Cardinality(allocated)
    /\ view_count = Cardinality(allocated \ Tree(head))
=============================================================================
