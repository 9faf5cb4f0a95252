------------------------------ MODULE MCSmall ------------------------------
(***************************************************************************)
(* Small instances of the two modules for small/small.c, how the pools are *)
(* laid out (SmallPools) and how they are used (SmallAlloc), and of the    *)
(* slab cache below them (SlabCache).  They share no state, so a behaviour *)
(* is one of one of them: part tells which.                                *)
(***************************************************************************)
EXTENDS SmallAlloc, Sequences

CONSTANT Parts

VARIABLES part, sc, objsize_max, pools, cur_order_pool, groups, done,
          c_hdr, c_orders, c_stats, c_allocated, c_large, c_total, c_used, c_quota, c_held,
          c_alive

p_vars == <<sc, objsize_max, pools, cur_order_pool, groups, done>>
c_vars == <<c_hdr, c_orders, c_stats, c_allocated, c_large, c_total, c_used, c_quota, c_held,
            c_alive>>

\* Sizes up to some hundred bytes, groups of three pools, slabs of up to
\* five orders and, for the smallest steps, fewer pools than there are
\* sizes.
P == INSTANCE SmallPools WITH
       Granularities <- 0 .. 3, EffectiveBits <- 0 .. 3, MinAllocs <- {1, 5, 8, 24},
       ObjsizeMaxes <- {7, 60, 128, 200}, UINT <- 65536, SMALL_MEMPOOL_MAX <- 24,
       POOL_PER_GROUP_MAX <- 3, mslab_sizeof <- 12, OverheadInverse <- 10,
       order0_size_lb <- 6, order_max <- 4

\* Two arena slabs of four pieces of two bytes; a header takes one byte.
C == INSTANCE SlabCache WITH
       order_max <- 2, order0_size_lb <- 1, slab_sizeof <- 1, QUOTA_UNIT_SIZE <- 4,
       Regions <- {0, 1}, Larges <- {1}, Sizes <- {1, 2, 3, 4, 7, 8},
       hdr <- c_hdr, orders <- c_orders, stats <- c_stats, allocated <- c_allocated,
       large <- c_large, total <- c_total, used <- c_used, quota <- c_quota, held <- c_held,
       alive <- c_alive

ASSUME P!SmallPoolsAssumption /\ C!SlabCacheAssumption

\* Three pools with slabs of one order and a fourth with larger slabs.
MCPools == 1 .. 4
MCObjsize == <<2, 3, 5, 10>>
MCSlabSize == <<22, 22, 22, 44>>
MCGroups == {1 .. 3, {4}}

MCInit ==
    /\ Init /\ C!Init
    /\ part \in Parts
    /\ \/ part = "layout" /\ P!Init
       \/ /\ part # "layout"
          /\ sc = <<>> /\ objsize_max = 0 /\ pools = <<>> /\ cur_order_pool = 1
          /\ groups = <<>> /\ done = FALSE

MCNext ==
    \/ part = "use" /\ Next /\ UNCHANGED <<part, p_vars, c_vars>>
    \/ part = "layout" /\ P!Next /\ UNCHANGED <<part, vars, c_vars>>
    \/ part = "slabs" /\ C!Next /\ UNCHANGED <<part, vars, p_vars>>

MCSpec == MCInit /\ [][MCNext]_<<part, vars, p_vars, c_vars>>
-----------------------------------------------------------------------------
\* small_mempool_search finds, by the arithmetic of small_class_calc_offset_
\* by_size alone, the smallest of the pools small_mempool_create made that
\* is large enough, with and without SMALL_CLASS_BRANCHLESS; sizes grow by
\* bounded steps; and the groups are what SmallAlloc takes for granted:
\* consecutive pools with slabs of one order, each pool in one of them.
LayoutIsSound ==
    part = "layout" =>
       /\ P!SearchIsBestFit /\ P!BranchlessAgrees
       /\ P!StepBounded /\ P!GroupsPartition

\* slab_get and slab_put split and merge slabs without losing memory or
\* giving it out twice, merge whatever can be merged, and trust only headers
\* that are headers of slabs.
SlabsTiled == part = "slabs" => C!Tiled /\ C!Coalesced /\ C!BuddyIsSlab

\* The statistics that slab_cache_check verifies are exact, and the quota
\* is charged with the malloc()ed slabs and nothing else.
SlabStatsMatch == part = "slabs" => C!StatsMatch

\* slab_get and slab_put of other slabs never write into a slab that a
\* caller has.
SlabUserMemoryUntouched == C!UserMemoryUntouched

\* slab_get gives a slab of the smallest size there is for the request.
SlabBestFit == C!BestFit
=============================================================================
