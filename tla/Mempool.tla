------------------------------ MODULE Mempool ------------------------------
(***************************************************************************)
(* The pool of small/mempool.c: objects of one size, kept in slabs of one  *)
(* order.  A slab with free objects is hot (in a tree ordered by address,  *)
(* objects come from the lowest one) or cold (too few free objects yet);   *)
(* one slab without objects is kept as a spare.                            *)
(*                                                                         *)
(* A slab is its address, NULL is 0, and an object is its place in the     *)
(* slab, counted from pool->offset.  A mempool belongs to one thread, so a *)
(* call is one step.  slab_get_with_order is used as SlabCache promises    *)
(* it: it fails, or returns a slab nobody has.                             *)
(***************************************************************************)
EXTENDS Integers, Sequences, FiniteSets

CONSTANTS Slabs,                 \* addresses of the slabs of the pool's order
          slab_size,             \* bytes in such a slab
          mslab_sizeof,          \* bytes in its header
          objsize,               \* bytes in an object
          ptr_sizeof,            \* bytes in a link of the garbage list
          MAX_COLD_FRACTION_LB   \* a slab is hot from objcount >> this on

ASSUME MempoolAssumption ==
    /\ Slabs \subseteq Nat \ {0}
    /\ slab_size \in Nat /\ mslab_sizeof \in Nat /\ objsize \in Nat \ {0}
    /\ ptr_sizeof \in Nat
    /\ mslab_sizeof + objsize <= slab_size       \* assert(pool->objcount)
    /\ MAX_COLD_FRACTION_LB \in Nat /\ 2 ^ MAX_COLD_FRACTION_LB \in Nat \ {0}

VARIABLES mslab,      \* struct mslab of every slab of the pool
          hot,        \* pool->hot_slabs
          first_hot,  \* pool->first_hot_slab
          cold,       \* pool->cold_slabs, first element first
          spare,      \* pool->spare
          total,      \* pool->slabs.stats.total
          used,       \* pool->slabs.stats.used
          objects,    \* <<slab, place>> of the objects callers have
          alive       \* mempool_destroy has not been called

vars == <<mslab, hot, first_hot, cold, spare, total, used, objects, alive>>

NULL == 0

objcount == (slab_size - mslab_sizeof) \div objsize
offset == slab_size - objcount * objsize
Places == 0 .. objcount - 1

\* nfree from which on a slab is hot, objcount >> MAX_COLD_FRACTION_LB.
HotFrom == objcount \div 2 ^ MAX_COLD_FRACTION_LB

\* pool->slabs
InPool == DOMAIN mslab

TypeOK ==
    /\ InPool \subseteq Slabs
    /\ mslab \in [InPool -> [nfree : 0 .. objcount, free_list : Seq(Places),
                             free_offset : 0 .. objcount, in_hot : BOOLEAN]]
    /\ hot \subseteq InPool
    /\ first_hot \in InPool \cup {NULL}
    /\ cold \in Seq(InPool)
    /\ spare \in InPool \cup {NULL}
    /\ total \in Nat /\ used \in Nat
    /\ objects \subseteq InPool \X Places
    /\ alive \in BOOLEAN

\* mempool_create_with_order
Init ==
    /\ mslab = <<>>
    /\ hot = {} /\ first_hot = NULL
    /\ cold = <<>>
    /\ spare = NULL
    /\ total = 0 /\ used = 0
    /\ objects = {}
    /\ alive = TRUE

-----------------------------------------------------------------------------
\* mslab_create
mslab_create == [nfree |-> objcount, free_list |-> <<>>, free_offset |-> 0, in_hot |-> FALSE]

\* mslab_tree_next: the next slab of the tree by address.
tree_next(tree, s) ==
    LET above == {x \in tree : x > s}
    IN  IF above = {} THEN NULL
        ELSE CHOOSE x \in above : \A y \in above : x <= y

\* rlist_del_entry: an entry that is in no list is left alone.
Unlink(list, s) ==
    IF \E i \in 1 .. Len(list) : list[i] = s
    THEN LET i == CHOOSE k \in 1 .. Len(list) : list[k] = s
         IN  [k \in 1 .. Len(list) - 1 |-> IF k < i THEN list[k] ELSE list[k + 1]]
    ELSE list

\* Altered form of mslab_alloc: the object stays in the garbage list.
mslab_allocKeepsGarbage(s, m, tree) ==
    LET x == m[s]
        recycled == x.free_list # <<>>
        full == x.nfree = 1
    IN  /\ mslab' = [m EXCEPT ![s] =
                       [nfree |-> x.nfree - 1,
                        free_list |-> x.free_list,
                        free_offset |-> IF recycled THEN x.free_offset ELSE x.free_offset + 1,
                        in_hot |-> ~full]]
        /\ hot' = IF full THEN tree \ {s} ELSE tree
        /\ first_hot' = IF full THEN tree_next(tree, s) ELSE s
        /\ objects' = objects \cup {<<s, IF recycled THEN Head(x.free_list)
                                                     ELSE x.free_offset>>}
        /\ used' = used + objsize

\* mslab_alloc from the first hot slab s; m and tree are the slabs and the
\* tree once mempool_alloc has put s there.
mslab_alloc(s, m, tree) ==
    LET x == m[s]
        recycled == x.free_list # <<>>
        full == x.nfree = 1
    IN  /\ mslab' = [m EXCEPT ![s] =
                       [nfree |-> x.nfree - 1,
                        free_list |-> IF recycled THEN Tail(x.free_list) ELSE <<>>,
                        free_offset |-> IF recycled THEN x.free_offset ELSE x.free_offset + 1,
                        in_hot |-> ~full]]
        /\ hot' = IF full THEN tree \ {s} ELSE tree
        /\ first_hot' = IF full THEN tree_next(tree, s) ELSE s
        /\ objects' = objects \cup {<<s, IF recycled THEN Head(x.free_list)
                                                     ELSE x.free_offset>>}
        /\ used' = used + objsize

AllocHot ==
    /\ first_hot # NULL
    /\ mslab_alloc(first_hot, mslab, hot)
    /\ UNCHANGED <<cold, spare, total, alive>>

AllocSpare ==
    /\ first_hot = NULL /\ spare # NULL
    /\ spare' = NULL
    /\ mslab_alloc(spare, [mslab EXCEPT ![spare].in_hot = TRUE], hot \cup {spare})
    /\ UNCHANGED <<cold, total, alive>>

AllocNewSlab(s) ==
    /\ first_hot = NULL /\ spare = NULL
    /\ s \notin InPool
    /\ total' = total + slab_size
    /\ mslab_alloc(s, [x \in InPool \cup {s} |->
                         IF x = s THEN [mslab_create EXCEPT !.in_hot = TRUE] ELSE mslab[x]],
                   hot \cup {s})
    /\ UNCHANGED <<cold, spare, alive>>

\* slab_get_with_order has failed.
AllocCold ==
    /\ first_hot = NULL /\ spare = NULL /\ cold # <<>>
    /\ cold' = Tail(cold)
    /\ mslab_alloc(Head(cold), [mslab EXCEPT ![Head(cold)].in_hot = TRUE],
                   hot \cup {Head(cold)})
    /\ UNCHANGED <<spare, total, alive>>

mempool_alloc ==
    \/ AllocHot
    \/ AllocSpare
    \/ \E s \in Slabs : AllocNewSlab(s)
    \/ AllocCold

\* mempool_alloc returns NULL: there is no slab to take, even from the cache.
AllocFails == first_hot = NULL /\ spare = NULL /\ cold = <<>>

-----------------------------------------------------------------------------
\* The slab with the object in its garbage list.
Freed(s, obj) ==
    [mslab[s] EXCEPT !.nfree = @ + 1, !.free_list = <<obj>> \o @]

TurnsHot(s) == ~mslab[s].in_hot /\ mslab[s].nfree + 1 >= HotFrom

\* Altered forms of FreeToHot: the first hot slab is not updated; the slab
\* stays in the list of cold slabs.
FreeToHotStaleFirst(s, obj) ==
    /\ TurnsHot(s)
    /\ mslab' = [mslab EXCEPT ![s] = [Freed(s, obj) EXCEPT !.in_hot = TRUE]]
    /\ cold' = Unlink(cold, s)
    /\ hot' = hot \cup {s}
    /\ first_hot' = IF first_hot = NULL THEN s ELSE first_hot
    /\ UNCHANGED <<spare, total>>

FreeToHotStaysCold(s, obj) ==
    /\ TurnsHot(s)
    /\ mslab' = [mslab EXCEPT ![s] = [Freed(s, obj) EXCEPT !.in_hot = TRUE]]
    /\ hot' = hot \cup {s}
    /\ first_hot' = IF first_hot = NULL \/ first_hot > s THEN s ELSE first_hot
    /\ UNCHANGED <<cold, spare, total>>

FreeToHot(s, obj) ==
    /\ TurnsHot(s)
    /\ mslab' = [mslab EXCEPT ![s] = [Freed(s, obj) EXCEPT !.in_hot = TRUE]]
    /\ cold' = Unlink(cold, s)
    /\ hot' = hot \cup {s}
    /\ first_hot' = IF first_hot = NULL \/ first_hot > s THEN s ELSE first_hot
    /\ UNCHANGED <<spare, total>>

\* Altered form of FreeToCold: the slab goes to no list.
FreeToColdLost(s, obj) ==
    /\ ~TurnsHot(s)
    /\ mslab[s].nfree + 1 = 1
    /\ mslab' = [mslab EXCEPT ![s] = Freed(s, obj)]
    /\ UNCHANGED <<cold, hot, first_hot, spare, total>>

FreeToCold(s, obj) ==
    /\ ~TurnsHot(s)
    /\ mslab[s].nfree + 1 = 1
    /\ mslab' = [mslab EXCEPT ![s] = Freed(s, obj)]
    /\ cold' = <<s>> \o cold
    /\ UNCHANGED <<hot, first_hot, spare, total>>

\* slab_put_with_order and slab_list_del of the slab s of the pool m.
Without(m, s) == [x \in DOMAIN m \ {s} |-> m[x]]

\* The slab's last object is freed: the slab becomes the spare, unless the
\* spare has a lower address.
FreeLast(s, obj) ==
    LET m == [mslab EXCEPT ![s] = [Freed(s, obj) EXCEPT !.in_hot = FALSE]]
    IN  /\ ~TurnsHot(s) /\ mslab[s].nfree + 1 # 1 /\ mslab[s].nfree + 1 = objcount
        /\ hot' = hot \ {s}
        /\ first_hot' = IF first_hot = s THEN tree_next(hot, s) ELSE first_hot
        /\ IF spare = NULL
           THEN spare' = s /\ mslab' = m /\ UNCHANGED total
           ELSE /\ spare' = IF spare > s THEN s ELSE spare
                /\ mslab' = Without(m, IF spare > s THEN spare ELSE s)
                /\ total' = total - slab_size
        /\ UNCHANGED cold

FreeOther(s, obj) ==
    /\ ~TurnsHot(s) /\ mslab[s].nfree + 1 # 1 /\ mslab[s].nfree + 1 # objcount
    /\ mslab' = [mslab EXCEPT ![s] = Freed(s, obj)]
    /\ UNCHANGED <<hot, first_hot, cold, spare, total>>

\* mempool_free, mempool_free_slab and mslab_free of an object of the pool.
mempool_free(s, obj) ==
    /\ objects' = objects \ {<<s, obj>>}
    /\ used' = used - objsize
    /\ \/ FreeToHot(s, obj)
       \/ FreeToCold(s, obj)
       \/ FreeLast(s, obj)
       \/ FreeOther(s, obj)
    /\ UNCHANGED alive

\* Called by small_alloc on the pools it gives up.
mempool_free_spare_slab ==
    /\ spare # NULL
    /\ mslab' = Without(mslab, spare)
    /\ total' = total - slab_size
    /\ spare' = NULL
    /\ UNCHANGED <<hot, first_hot, cold, used, objects, alive>>

mempool_destroy ==
    /\ alive' = FALSE
    /\ mslab' = <<>> /\ hot' = {} /\ first_hot' = NULL /\ cold' = <<>> /\ spare' = NULL
    /\ total' = 0 /\ used' = 0
    /\ objects' = {}

Next ==
    /\ alive
    /\ \/ mempool_alloc
       \/ \E o \in objects : mempool_free(o[1], o[2])
       \/ mempool_free_spare_slab
       \/ mempool_destroy

Spec == Init /\ [][Next]_vars
-----------------------------------------------------------------------------
Garbage(s) == {mslab[s].free_list[i] : i \in 1 .. Len(mslab[s].free_list)}
Cold == {cold[i] : i \in 1 .. Len(cold)}

\* Every object of every slab is in the hands of one caller, in the garbage
\* list once, or beyond free_offset, and nfree counts the last two: an
\* object is neither given out twice nor lost.
ObjectsAccounted ==
    \A s \in InPool :
        LET x == mslab[s]
        IN  /\ x.nfree = Len(x.free_list) + objcount - x.free_offset
            /\ \A i, j \in 1 .. Len(x.free_list) :
                  x.free_list[i] = x.free_list[j] => i = j
            /\ \A p \in Places :
                  <<s, p>> \in objects <=> p < x.free_offset /\ p \notin Garbage(s)

\* first_hot_slab is the leftmost slab of the tree, and in_hot_slabs tells
\* whether a slab is in it.
FirstHotIsFirst ==
    /\ \A s \in InPool : mslab[s].in_hot <=> s \in hot
    /\ IF hot = {} THEN first_hot = NULL
       ELSE first_hot \in hot /\ \A s \in hot : first_hot <= s

\* A slab is in at most one of the tree, the cold list (once) and the spare
\* slot; a cold slab has fewer free objects than a hot one needs; and full
\* slabs are in none of them: mslab_alloc asserts that it gets a slab with a
\* free object.
OneList ==
    /\ \A i, j \in 1 .. Len(cold) : cold[i] = cold[j] => i = j
    /\ Cold \cap hot = {} /\ spare \notin hot \cup Cold
    /\ \A s \in hot \cup Cold : mslab[s].nfree > 0
    /\ \A s \in Cold : mslab[s].nfree < HotFrom
    /\ spare # NULL => mslab[spare].nfree = objcount

\* mempool_alloc fails only when every object of every slab of the pool is
\* in use: no slab with free objects is out of its reach.
FailsOnlyWhenFull == AllocFails => \A s \in InPool : mslab[s].nfree = 0

\* pool->slabs.stats tells what mempool_used, mempool_count and
\* mempool_total promise: the objects in use and the slabs of the pool.
StatsMatch ==
    /\ total = Cardinality(InPool) * slab_size
    /\ used = Cardinality(objects) * objsize

\* At most one slab without objects is kept, as the spare ("a completely
\* empty slab which is not freed only to avoid the overhead of slab_cache
\* oscillation"); all others go back to the slab cache.
OneEmptySlab ==
    \A s, t \in InPool :
        mslab[s].nfree = objcount /\ mslab[t].nfree = objcount => s = t

\* The bytes of an object.
Bytes(o) == LET first == offset + o[2] * objsize IN first .. first + objsize - 1

\* Objects lie in their slab behind its header and do not overlap.
ObjectsApart ==
    \A o \in objects :
        /\ \A b \in Bytes(o) : mslab_sizeof <= b /\ b < slab_size
        /\ \A q \in objects : q[1] = o[1] /\ q # o => Bytes(o) \cap Bytes(q) = {}

\* The link that mslab_free writes at the start of a freed object touches no
\* object in use: what a caller has stored stays until it is freed.
LinksApart ==
    \A o \in objects : \A g \in Garbage(o[1]) :
        LET first == offset + g * objsize
        IN  \A b \in first .. first + ptr_sizeof - 1 : b \notin Bytes(o)
=============================================================================
