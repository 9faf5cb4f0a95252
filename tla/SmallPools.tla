----------------------------- MODULE SmallPools -----------------------------
(***************************************************************************)
(* How small_alloc_create of small/small.c lays out its pools: the sizes   *)
(* of small_class.h, which approximate a geometric progression by the high *)
(* bits of a size, one pool per size, and groups of at most                *)
(* POOL_PER_GROUP_MAX pools with slabs of one order.                       *)
(*                                                                         *)
(* The parameters are chosen in the initial state; effective_bits, which   *)
(* the code computes from the factor in floating point, is one of them.    *)
(* One step is one iteration of the loop of small_mempool_create.          *)
(***************************************************************************)
EXTENDS Integers, Sequences, FiniteSets, FiniteSetsExt

CONSTANTS Granularities,       \* log2 of granularity
          EffectiveBits,       \* values of effective_bits
          MinAllocs,           \* values of objsize_min, not yet aligned
          ObjsizeMaxes,        \* values of mempool_objsize_max, not yet aligned
          UINT,                \* UINT_MAX + 1
          SMALL_MEMPOOL_MAX,
          POOL_PER_GROUP_MAX,
          mslab_sizeof,        \* sizeof(struct mslab)
          OverheadInverse,     \* 1 / OVERHEAD_RATIO
          order0_size_lb,      \* log2 of the smallest slab
          order_max            \* cache->order_max

\* What the parameters are taken to be.
SmallPoolsAssumption ==
    /\ Granularities \subseteq Nat /\ EffectiveBits \subseteq Nat
    /\ MinAllocs \subseteq Nat \ {0} /\ ObjsizeMaxes \subseteq Nat \ {0}
    /\ UINT \in Nat /\ SMALL_MEMPOOL_MAX \in Nat \ {0} /\ POOL_PER_GROUP_MAX \in Nat \ {0}
    /\ mslab_sizeof \in Nat /\ OverheadInverse \in Nat
    /\ order0_size_lb \in Nat /\ order_max \in Nat

VARIABLES sc,              \* struct small_class
          objsize_max,     \* alloc->objsize_max
          pools,           \* small_mempool_cache: objsize, objsize_min and slab_order
          cur_order_pool,  \* first pool that is in no group yet
          groups,          \* small_mempool_groups: first and last pool
          done             \* small_mempool_create has returned

vars == <<sc, objsize_max, pools, cur_order_pool, groups, done>>

small_align(size, alignment) == ((size - 1 + alignment) \div alignment) * alignment

-----------------------------------------------------------------------------
effective_size == 2 ^ sc.effective_bits

\* Position of the most significant bit.
small_class_fls(value) == CHOOSE b \in 0 .. value : 2 ^ b <= value /\ value < 2 ^ (b + 1)

\* The size counted in granules from the lowest one.
Granules(size) ==
    LET checked == (size - (sc.size_shift + 1)) % UINT
    IN  (IF checked > size THEN 0 ELSE checked) \div 2 ^ sc.ignore_bits_count

small_class_calc_offset_by_size(size) ==
    LET n == Granules(size)
        log2 == small_class_fls(n \div effective_size)
    IN  IF n < effective_size THEN n
        ELSE (n \div 2 ^ log2) + log2 * effective_size

\* The same with SMALL_CLASS_BRANCHLESS.
small_class_calc_offset_branchless(size) ==
    LET n == Granules(size)
        high == n \div effective_size
        log2 == small_class_fls(IF high % 2 = 0 THEN high + 1 ELSE high)
    IN  (n \div 2 ^ log2) + log2 * effective_size

small_class_calc_size_by_offset(cls) ==
    LET linear == (cls + 1) % effective_size
        log2 == (cls + 1) \div effective_size
    IN  sc.size_shift + (IF log2 = 0 THEN linear
                         ELSE (linear + effective_size) * 2 ^ (log2 - 1)) * 2 ^ sc.ignore_bits_count

\* slab_order of the slab size mempool_create asks for.
mempool_order(objsize) ==
    LET wanted == OverheadInverse * Max({objsize, mslab_sizeof})
    IN  Min({order_max} \cup {o \in 0 .. order_max : wanted <= 2 ^ (o + order0_size_lb)})

-----------------------------------------------------------------------------
\* small_alloc_create up to small_mempool_create
Init ==
    /\ \E g \in Granularities, bits \in EffectiveBits, min \in MinAllocs, max \in ObjsizeMaxes :
          /\ sc = [ignore_bits_count |-> g, effective_bits |-> bits,
                   size_shift |-> small_align(min, 2 ^ g) - 2 ^ g]
          /\ objsize_max = small_align(max, 2 ^ g)
    /\ pools = <<>> /\ cur_order_pool = 1 /\ groups = <<>> /\ done = FALSE

small_mempool_group_last_pool(from, to) == Min({to, from + POOL_PER_GROUP_MAX - 1})

\* The groups small_mempool_create_groups makes of the pools from .. to.
small_mempool_create_groups(from, to) ==
    LET count == (to - from) \div POOL_PER_GROUP_MAX + 1
        start(i) == from + (i - 1) * POOL_PER_GROUP_MAX
    IN  [i \in 1 .. count |->
           [first |-> start(i), last |-> small_mempool_group_last_pool(start(i), to)]]

prev_size == IF pools = <<>> THEN 0 ELSE pools[Len(pools)].objsize

AddPool ==
    LET cls == Len(pools)
        size == Min({small_class_calc_size_by_offset(cls), objsize_max})
        order == mempool_order(size)
    IN  /\ ~done /\ prev_size < objsize_max /\ cls < SMALL_MEMPOOL_MAX
        /\ pools' = Append(pools, [objsize |-> size, objsize_min |-> prev_size + 1,
                                   slab_order |-> order])
        /\ IF cls > 0 /\ pools[cls].slab_order # order
           THEN /\ groups' = groups \o small_mempool_create_groups(cur_order_pool, cls)
                /\ cur_order_pool' = cls + 1
           ELSE UNCHANGED <<groups, cur_order_pool>>
        /\ UNCHANGED <<sc, objsize_max, done>>

\* Altered form of Finish: objsize_max is left as it was.
FinishKeepsMax ==
    /\ ~done /\ (prev_size >= objsize_max \/ Len(pools) >= SMALL_MEMPOOL_MAX)
    /\ groups' = groups \o small_mempool_create_groups(cur_order_pool, Len(pools))
    /\ done' = TRUE
    /\ UNCHANGED <<sc, objsize_max, pools, cur_order_pool>>

Finish ==
    /\ ~done /\ (prev_size >= objsize_max \/ Len(pools) >= SMALL_MEMPOOL_MAX)
    /\ groups' = groups \o small_mempool_create_groups(cur_order_pool, Len(pools))
    /\ objsize_max' = prev_size
    /\ done' = TRUE
    /\ UNCHANGED <<sc, pools, cur_order_pool>>

Next == AddPool \/ Finish

Spec == Init /\ [][Next]_vars
-----------------------------------------------------------------------------
\* For any size up to objsize_max, small_mempool_search finds, in one table
\* lookup, a pool there is, and it is the smallest one whose objects are
\* large enough.
SearchIsBestFit ==
    done => \A size \in 0 .. objsize_max :
        LET cls == small_class_calc_offset_by_size(size)
        IN  /\ cls < Len(pools)
            /\ size <= pools[cls + 1].objsize
            /\ size >= pools[cls + 1].objsize_min \/ cls = 0

\* With and without SMALL_CLASS_BRANCHLESS the class is the same.
BranchlessAgrees ==
    \A size \in 0 .. objsize_max :
        small_class_calc_offset_branchless(size) = small_class_calc_offset_by_size(size)

\* Object sizes grow, keep the granularity, and from one class to the next
\* by no more than a granule or by 1 / effective_size: what is lost by
\* rounding a size up to its class is bounded.
StepBounded ==
    \A i \in 2 .. Len(pools) :
        LET size == pools[i].objsize - sc.size_shift
            prev == pools[i - 1].objsize - sc.size_shift
            granule == 2 ^ sc.ignore_bits_count
        IN  /\ prev < size /\ size % granule = 0
            /\ size - prev <= granule \/ (size - prev) * effective_size <= prev

\* The groups follow each other without a gap from the first pool to the
\* last one, have slabs of one order each, and a bit of the 32-bit
\* active_pool_mask for each of their pools.
GroupsPartition ==
    /\ \A i \in 1 .. Len(groups) :
          /\ groups[i].first = IF i = 1 THEN 1 ELSE groups[i - 1].last + 1
          /\ groups[i].first <= groups[i].last
          /\ groups[i].last - groups[i].first < POOL_PER_GROUP_MAX
          /\ \A p, q \in groups[i].first .. groups[i].last :
                pools[p].slab_order = pools[q].slab_order
    /\ done => groups[Len(groups)].last = Len(pools)
=============================================================================
