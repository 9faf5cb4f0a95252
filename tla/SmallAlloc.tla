----------------------------- MODULE SmallAlloc -----------------------------
(***************************************************************************)
(* The small object allocator of small/small.c: a pool per size class, in  *)
(* groups of pools with slabs of one order.  At first objects of all the   *)
(* classes of a group come from its largest pool; a pool becomes active    *)
(* when that has wasted too much, and is given up again, while it has no   *)
(* objects, when memory runs out.                                          *)
(*                                                                         *)
(* A pool is used as Mempool promises: an object goes to any slab of the   *)
(* pool with room, or to a new slab, and at most one empty slab is kept.   *)
(* Slabs are a bag: a slab is its pool and how many objects of each class  *)
(* it holds.  The slab cache gives a slab as long as it fits into Memory.  *)
(* The allocator belongs to one thread, so a call is one step.             *)
(***************************************************************************)
EXTENDS Integers, FiniteSets, FiniteSetsExt, Bags, BagsExt, Functions

CONSTANTS Pools,         \* indexes of small_mempool_cache
          objsize,       \* pool.objsize of every pool
          slab_size,     \* slab_order_size of every pool's order
          mslab_sizeof,  \* bytes in the header of a slab
          Groups,        \* the groups of pools
          LargeSizes,    \* sizes asked for that are beyond objsize_max
          Memory,        \* bytes the slab cache can get
          MaxObjects     \* bound: objects of pools at a time

\* What small_mempool_create establishes (module SmallPools).
ASSUME SmallAllocAssumption ==
    /\ Cardinality(Pools) \in Nat /\ Pools = 1 .. Cardinality(Pools)
    /\ objsize \in [Pools -> Nat \ {0}] /\ slab_size \in [Pools -> Nat \ {0}]
    /\ mslab_sizeof \in Nat /\ Memory \in Nat /\ MaxObjects \in Nat
    /\ \A p, q \in Pools : p < q => objsize[p] < objsize[q]
    /\ Groups \subseteq (SUBSET Pools) \ {{}}
    /\ \A p \in Pools : \E g \in Groups : p \in g /\ \A h \in Groups \ {g} : p \notin h
    /\ \A g \in Groups : \A p, q \in g : slab_size[p] = slab_size[q]
    /\ \A g \in Groups : \A p, q \in g : p .. q \subseteq g
    /\ LargeSizes \subseteq Nat

VARIABLES slabs,      \* the slabs of all the pools
          large,      \* large[n]: objects of n bytes taken from the slab cache
          active,     \* active_pool_mask of all the groups
          used_pool,  \* used_pool of every pool
          waste,      \* waste of every pool
          alive       \* small_alloc_destroy has not been called

vars == <<slabs, large, active, used_pool, waste, alive>>

group(p) == CHOOSE g \in Groups : p \in g
first(g) == Min(g)
last(g) == Max(g)
waste_max(p) == slab_size[p] \div 4
objcount(p) == (slab_size[p] - mslab_sizeof) \div objsize[p]

Slab == [pool : Pools, held : [Pools -> Nat]]
Objects(x) == SumFunction(x.held)

\* mempool_count
mempool_count(p) ==
    LET own == {x \in BagToSet(slabs) : x.pool = p}
    IN  MapThenSumSet(LAMBDA x : slabs[x] * Objects(x), own)

TypeOK ==
    /\ IsABag(slabs) /\ BagToSet(slabs) \subseteq Slab
    /\ large \in [LargeSizes -> Nat]
    /\ active \subseteq Pools
    /\ used_pool \in [Pools -> Pools]
    /\ waste \in [Pools -> Nat]
    /\ alive \in BOOLEAN

-----------------------------------------------------------------------------
\* The pool update_group chooses for p: the lowest active one of the group
\* that is not below p.  With none, __builtin_ffs gives 0.
Lowest(p, act) ==
    LET fit == {q \in group(p) \cap act : q >= p}
    IN  IF fit = {} THEN first(group(p)) - 1 ELSE Min(fit)

\* small_mempool_update_group for the groups of the pools in changed, act
\* being the active pools.
small_mempool_update_group(up, changed, act) ==
    [p \in Pools |-> IF changed \cap group(p) # {} THEN Lowest(p, act) ELSE up[p]]

\* small_alloc_create, where the last pool of each group is activated.
Init ==
    LET lasts == {last(g) : g \in Groups}
    IN  /\ slabs = EmptyBag
        /\ large = [n \in LargeSizes |-> 0]
        /\ active = lasts
        /\ used_pool = [p \in Pools |-> last(group(p))]
        /\ waste = [p \in Pools |-> 0]
        /\ alive = TRUE

\* Bytes taken from the slab cache.
Taken(sl) ==
    MapThenSumSet(LAMBDA x : sl[x] * slab_size[x.pool], BagToSet(sl))
    + MapThenSumSet(LAMBDA n : large[n] * n, LargeSizes)

Replace(sl, x, y) == BagAdd(BagRemove(sl, x), y)

\* mempool_alloc of an object of class p from pool q: the bags of slabs it
\* may lead to, none if it fails.
mempool_alloc(sl, p, q) ==
    LET own == {x \in BagToSet(sl) : x.pool = q}
        roomy == {x \in own : Objects(x) < objcount(q)}
        empty == {x \in own : Objects(x) = 0}
        new == [pool |-> q, held |-> [r \in Pools |-> IF r = p THEN 1 ELSE 0]]
    IN  {Replace(sl, x, [x EXCEPT !.held[p] = @ + 1]) : x \in roomy}
        \cup IF empty = {} /\ Taken(sl) + slab_size[q] <= Memory
             THEN {BagAdd(sl, new)} ELSE {}

small_mempool_can_be_deactivated(p) ==
    /\ p \in active
    /\ mempool_count(p) = 0
    /\ waste[p] < waste_max(p) \div 4
    /\ p # last(group(p))

\* Altered form of Swept: used_pool is not recalculated.
SweptStale ==
    LET idle == {p \in Pools : small_mempool_can_be_deactivated(p)}
    IN  [active |-> active \ idle,
         used_pool |-> used_pool,
         slabs |-> [x \in {y \in BagToSet(slabs) : y.pool \notin idle} |-> slabs[x]]]

\* What small_mempool_group_sweep_sparse leaves: a pool without objects has
\* no slab but its spare.
Swept ==
    LET idle == {p \in Pools : small_mempool_can_be_deactivated(p)}
    IN  [active |-> active \ idle,
         used_pool |-> small_mempool_update_group(used_pool, idle, active \ idle),
         slabs |-> [x \in {y \in BagToSet(slabs) : y.pool \notin idle} |-> slabs[x]]]

\* Altered form of Account: the pool starts anew when it is activated.
AccountResets(p, act, up) ==
    LET w == waste[p] + objsize[up[p]] - objsize[p]
        activate == up[p] # p /\ w >= waste_max(p)
    IN  /\ waste' = [waste EXCEPT ![p] = IF activate THEN 0 ELSE w]
        /\ active' = IF activate THEN act \cup {p} ELSE act
        /\ used_pool' = IF activate THEN small_mempool_update_group(up, {p}, act \cup {p}) ELSE up

\* The end of a successful smalloc, where act and up are active and
\* used_pool by now: count the waste and activate the pool if it is too much.
Account(p, act, up) ==
    LET w == waste[p] + objsize[up[p]] - objsize[p]
        activate == up[p] # p /\ w >= waste_max(p)
    IN  /\ waste' = [waste EXCEPT ![p] = w]
        /\ active' = IF activate THEN act \cup {p} ELSE act
        /\ used_pool' = IF activate THEN small_mempool_update_group(up, {p}, act \cup {p}) ELSE up

\* smalloc of a size of class p
smalloc(p) ==
    LET q == used_pool[p]
        direct == mempool_alloc(slabs, p, q)
        second == mempool_alloc(Swept.slabs, p, q)
    IN  /\ \/ direct # {} /\ slabs' \in direct /\ Account(p, active, used_pool)
           \/ /\ direct = {} /\ second # {}
              /\ slabs' \in second /\ Account(p, Swept.active, Swept.used_pool)
           \/ /\ direct = {} /\ second = {}
              /\ slabs' = Swept.slabs /\ active' = Swept.active /\ used_pool' = Swept.used_pool
              /\ UNCHANGED waste
        /\ UNCHANGED <<large, alive>>

smalloc_large(n) ==
    /\ Taken(slabs) + n <= Memory
    /\ large' = [large EXCEPT ![n] = @ + 1]
    /\ UNCHANGED <<slabs, active, used_pool, waste, alive>>

\* smfree of an object of class p in slab x.  Of two empty slabs of a pool
\* mempool_free keeps one.
smfree(p, x) ==
    LET y == [x EXCEPT !.held[p] = @ - 1]
        spares == {z \in BagToSet(slabs) : z.pool = x.pool /\ Objects(z) = 0}
    IN  /\ x.held[p] > 0
        /\ waste' = [waste EXCEPT ![p] = @ - (objsize[x.pool] - objsize[p])]
        /\ slabs' = IF Objects(y) = 0 /\ spares # {} THEN BagRemove(slabs, x)
                    ELSE Replace(slabs, x, y)
        /\ UNCHANGED <<large, active, used_pool, alive>>

smfree_large(n) ==
    /\ large[n] > 0
    /\ large' = [large EXCEPT ![n] = @ - 1]
    /\ UNCHANGED <<slabs, active, used_pool, waste, alive>>

small_alloc_destroy ==
    /\ slabs' = EmptyBag
    /\ alive' = FALSE
    /\ UNCHANGED <<large, active, used_pool, waste>>

Total == MapThenSumSet(LAMBDA x : slabs[x] * Objects(x), BagToSet(slabs))

Next ==
    /\ alive
    /\ \/ Total < MaxObjects /\ \E p \in Pools : smalloc(p)
       \/ \E n \in LargeSizes : smalloc_large(n) \/ smfree_large(n)
       \/ \E x \in BagToSet(slabs), p \in Pools : smfree(p, x)
       \/ small_alloc_destroy

Spec == Init /\ [][Next]_vars
-----------------------------------------------------------------------------
\* used_pool is the lowest active pool of the group from the pool itself on,
\* after any activations and sweeps (the asserts of update_group), and an
\* object lies in a slab of a pool with objects of its size or larger and
\* slabs of the same order: smfree finds the slab from the pointer with the
\* mask of the object's own class.
RightPool ==
    /\ \A p \in Pools :
          /\ used_pool[p] \in group(p) \cap active /\ used_pool[p] >= p
          /\ \A q \in group(p) \cap active : q >= p => used_pool[p] <= q
    /\ \A x \in BagToSet(slabs), p \in Pools :
          x.held[p] > 0 => objsize[p] <= objsize[x.pool] /\ slab_size[p] = slab_size[x.pool]

\* The memory lost by keeping objects of class p in larger pools.
RealWaste(p) ==
    SumFunction([x \in {y \in BagToSet(slabs) : y.held[p] > 0} |->
                   slabs[x] * x.held[p] * (objsize[x.pool] - objsize[p])])

\* The waste counted for a class is at least that of its objects: the assert
\* in smfree holds for them in whatever order they are freed.
WasteCovers == alive => \A p \in Pools : RealWaste(p) <= waste[p]

\* Waste is "amount of excess memory spent for storing small object in pools
\* with large object size".
WasteExact == alive => \A p \in Pools : RealWaste(p) = waste[p]

\* A pool that is not active keeps no empty slab: "we always clean-up spare
\* slab during deactivation", so sweep_sparse may skip it.
InactiveEmpty ==
    \A p \in Pools \ active : \A x \in BagToSet(slabs) : x.pool = p => Objects(x) > 0

\* small_alloc_destroy: "Destroy the allocator and all allocated memory."
DestroyFreesAll == ~alive => Taken(slabs) = 0
=============================================================================
