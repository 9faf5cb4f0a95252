----------------------------- MODULE SlabCache -----------------------------
(***************************************************************************)
(* The slab cache of small/slab_cache.c: a buddy allocator that cuts the   *)
(* slabs of the arena into halves, quarters and so on, keeps the free      *)
(* pieces in one list per order and merges two free halves at once.  A     *)
(* slab larger than the arena's slab size comes from malloc().             *)
(*                                                                         *)
(* Memory is an array of bytes, arena slab r at r * slab_size.  A slab     *)
(* header lives at the first address of its slab, and hdr keeps whatever   *)
(* was last written there: headers of slabs that were merged away stay,    *)
(* as do those of slabs returned to the arena, and BuddyIsSlab shows that  *)
(* none of them is ever read.  A loop of the code (split, merge, search    *)
(* for a list) is one step, since a slab cache belongs to one thread.      *)
(* slab_map is used as SlabArena promises it: it fails, or returns a slab  *)
(* nobody has.                                                             *)
(***************************************************************************)
EXTENDS Integers, Sequences, FiniteSets, FiniteSetsExt, SequencesExt

CONSTANTS order_max,        \* cache->order_max
          order0_size_lb,   \* cache->order0_size_lb
          slab_sizeof,      \* bytes in a slab header
          QUOTA_UNIT_SIZE,  \* bytes in a unit of the quota
          Regions,          \* arena slabs there are
          Larges,           \* pointers malloc() can return
          Sizes             \* sizes callers ask slab_get and slab_get_large for

SlabCacheAssumption ==
    /\ order_max \in Nat
    /\ order0_size_lb \in Nat
    /\ slab_sizeof \in Nat \ {0}
    /\ QUOTA_UNIT_SIZE \in Nat \ {0}
    /\ Regions \subseteq Nat
    /\ Sizes \subseteq Nat

VARIABLES hdr,        \* the [order, in_use] last written at each address
          orders,     \* cache->orders[i].slabs, first element first
          stats,      \* cache->orders[i].stats
          allocated,  \* arena slabs on cache->allocated.slabs
          large,      \* malloc()ed slabs on that list, with their sizes
          total,      \* cache->allocated.stats.total
          used,       \* cache->allocated.stats.used
          quota,      \* units this cache has charged to the quota
          held,       \* ordered slabs in the hands of callers
          alive       \* slab_cache_destroy has not been called

vars == <<hdr, orders, stats, allocated, large, total, used, quota, held, alive>>

Orders == 0 .. order_max

\* slab_order_size
OrderSize(order) == 2 ^ (order + order0_size_lb)
SlabSize == OrderSize(order_max)
Address(r) == r * SlabSize

\* Addresses where a slab can start.
Addresses == {Address(r) + i * OrderSize(0) : r \in Regions, i \in 0 .. 2 ^ order_max - 1}

\* The smallest order whose slabs hold size bytes, header included:
\* 32 - clz(size - 1) is the number of bits of size - 1.
Bits(n) == Min({b \in 0 .. n : n < 2 ^ b})

\* Altered form of slab_order: without the -1 under the logarithm.
slab_orderHigh(size) ==
    IF size <= OrderSize(0) THEN 0
    ELSE IF size > SlabSize THEN order_max + 1
    ELSE Min({Bits(size) - order0_size_lb, order_max})

slab_order(size) ==
    IF size <= OrderSize(0) THEN 0
    ELSE IF size > SlabSize THEN order_max + 1
    ELSE Bits(size - 1) - order0_size_lb

slab_real_size(size) ==
    LET order == slab_order(size + slab_sizeof)
    IN  IF order = order_max + 1 THEN size + slab_sizeof ELSE OrderSize(order)

Free(order) == [order |-> order, in_use |-> 0]
InUse(order) == [order |-> order, in_use |-> order + 1]
Zero == [total |-> 0, used |-> 0]

TypeOK ==
    /\ hdr \in [Addresses -> [order : Orders, in_use : 0 .. order_max + 1]]
    /\ orders \in [Orders -> Seq(Addresses)]
    /\ stats \in [Orders -> [total : Nat, used : Nat]]
    /\ allocated \subseteq Regions
    /\ DOMAIN large \subseteq Larges
    /\ \A p \in DOMAIN large : large[p] \in Nat
    /\ total \in Nat /\ used \in Nat /\ quota \in Nat
    /\ held \subseteq Addresses
    /\ alive \in BOOLEAN

\* slab_cache_create.  Memory never touched looks like a free slab.
Init ==
    /\ hdr = [a \in Addresses |-> Free(0)]
    /\ orders = [o \in Orders |-> <<>>]
    /\ stats = [o \in Orders |-> Zero]
    /\ allocated = {}
    /\ large = <<>>
    /\ total = 0 /\ used = 0 /\ quota = 0
    /\ held = {}
    /\ alive = TRUE

\* slab_buddy: the address with the bit of the slab's size negated.
Buddy(a, order) ==
    IF (a \div OrderSize(order)) % 2 = 0 THEN a + OrderSize(order)
                                         ELSE a - OrderSize(order)

-----------------------------------------------------------------------------
\* slab_get_with_order, once a slab of order k has been found at address a:
\* split it down to the order asked for and hand out its first piece.
\* os, st: the lists (without the slab) and their statistics.
GetFound(a, k, order, os, st) ==
    LET pieces == order .. k - 1    \* orders of the buddies split off
        billed == [o \in Orders |->
                     [st[o] EXCEPT
                        !.total = @ + (IF o \in pieces THEN OrderSize(o) ELSE 0)
                                    - (IF o = k THEN OrderSize(k) ELSE 0)
                                    + (IF o = order THEN OrderSize(order) ELSE 0)]]
    IN  /\ hdr' = [x \in Addresses |->
                      IF x = a THEN InUse(order)
                      ELSE IF \E o \in pieces : x = Buddy(a, o)
                      THEN Free(CHOOSE o \in pieces : x = Buddy(a, o))
                      ELSE hdr[x]]
        /\ orders' = [o \in Orders |->
                         IF o \in pieces THEN <<Buddy(a, o)>> \o os[o] ELSE os[o]]
        /\ stats' = [billed EXCEPT ![order].used = @ + OrderSize(order)]
        /\ used' = used + OrderSize(order)
        /\ held' = held \cup {a}

\* The first non-empty list from the order asked for upwards.
GetFromCache(order) ==
    LET k == Min({o \in order .. order_max : orders[o] # <<>>})
        a == Head(orders[k])
    IN  /\ \E o \in order .. order_max : orders[o] # <<>>
        /\ GetFound(a, k, order, [orders EXCEPT ![k] = Tail(@)], stats)
        /\ UNCHANGED <<allocated, large, total, quota>>

\* No list has a slab: slab_map() a new one.
GetFromArena(order, r) ==
    /\ \A o \in order .. order_max : orders[o] = <<>>
    /\ r \notin allocated
    /\ allocated' = allocated \cup {r}
    /\ total' = total + SlabSize
    /\ GetFound(Address(r), order_max, order, orders,
                [stats EXCEPT ![order_max].total = @ + SlabSize])
    /\ UNCHANGED <<large, quota>>

slab_get_with_order(order) ==
    \/ GetFromCache(order)
    \/ \E r \in Regions : GetFromArena(order, r)

-----------------------------------------------------------------------------
\* Altered forms of CanMerge: the orders are not compared; the buddy may be
\* in use.
CanMergeAnyOrder(a, order) ==
    order < order_max /\ hdr[Buddy(a, order)].in_use = 0
CanMergeInUse(a, order) ==
    order < order_max /\ hdr[Buddy(a, order)].order = order

CanMerge(a, order) ==
    /\ order < order_max
    /\ hdr[Buddy(a, order)].order = order
    /\ hdr[Buddy(a, order)].in_use = 0

\* The slab of the given order that contains address a.
Base(a, order) == a - (a % OrderSize(order))

\* The order reached when the slab at a is merged as long as its buddy is
\* free.
MergedOrder(a, order) ==
    CHOOSE m \in order .. order_max :
        /\ ~CanMerge(Base(a, m), m)
        /\ \A o \in order .. m - 1 : CanMerge(Base(a, o), o)

\* A slab of the largest order goes back to the arena if one is cached.
Retained(order) == order < order_max \/ orders[order] = <<>>

\* Altered form of Unbilled: the freed slab stays in its order's total.
UnbilledNever(order, m) == [stats EXCEPT ![order].used = @ - OrderSize(order)]

\* Statistics once the slab and its merged buddies are out of their orders.
Unbilled(order, m) ==
    [o \in Orders |->
       [stats[o] EXCEPT
          !.used = @ - (IF o = order THEN OrderSize(o) ELSE 0),
          !.total = @ - (IF o \in order .. m - 1 THEN OrderSize(o) ELSE 0)
                      - (IF o = order /\ m > order THEN OrderSize(o) ELSE 0)
                      + (IF o = m /\ m > order THEN OrderSize(m) ELSE 0)]]

slab_put_with_order(a) ==
    LET order == hdr[a].order
        m == MergedOrder(a, order)
        b == Base(a, m)
        merged == {Buddy(Base(a, o), o) : o \in order .. m - 1}
        lists == [o \in Orders |-> SelectSeq(orders[o], LAMBDA x : x \notin merged)]
        st == Unbilled(order, m)
    IN  /\ held' = held \ {a}
        /\ used' = used - OrderSize(order)
        /\ hdr' = [x \in Addresses |->
                      IF \E o \in order .. m : x = Base(a, o)
                      THEN Free(Max({o \in order .. m : x = Base(a, o)}))
                      ELSE hdr[x]]
        /\ IF Retained(m)
           THEN /\ orders' = [lists EXCEPT ![m] = <<b>> \o @]
                /\ stats' = st
                /\ UNCHANGED <<allocated, total>>
           ELSE /\ orders' = lists
                /\ stats' = [st EXCEPT ![m].total = @ - SlabSize]
                /\ allocated' = allocated \ {b \div SlabSize}
                /\ total' = total - SlabSize
        /\ UNCHANGED <<large, quota>>

-----------------------------------------------------------------------------
\* What quota_use charges, and quota_release gives back, for size bytes.
Units(size) == (size + QUOTA_UNIT_SIZE - 1) \div QUOTA_UNIT_SIZE

\* When the quota or malloc() refuses, nothing changes.
slab_get_large(p, size) ==
    /\ p \notin DOMAIN large
    /\ large' = [q \in DOMAIN large \cup {p} |->
                    IF q = p THEN size + slab_sizeof ELSE large[q]]
    /\ total' = total + size + slab_sizeof
    /\ used' = used + size + slab_sizeof
    /\ quota' = quota + Units(size + slab_sizeof)
    /\ UNCHANGED <<hdr, orders, stats, allocated, held>>

slab_put_large(p) ==
    /\ large' = [q \in DOMAIN large \ {p} |-> large[q]]
    /\ total' = total - large[p]
    /\ used' = used - large[p]
    /\ quota' = quota - Units(large[p])
    /\ UNCHANGED <<hdr, orders, stats, allocated, held>>

slab_get(size) ==
    LET order == slab_order(size + slab_sizeof)
    IN  IF order = order_max + 1 THEN \E p \in Larges : slab_get_large(p, size)
                                 ELSE slab_get_with_order(order)

\* All bytes in malloc()ed slabs, and the units charged for them.
LargeBytes == MapThenSumSet(LAMBDA p : large[p], DOMAIN large)
LargeUnits == MapThenSumSet(LAMBDA p : Units(large[p]), DOMAIN large)

\* Every arena slab is unmapped and every malloc()ed one freed, whether or
\* not callers have returned what they got.
slab_cache_destroy ==
    /\ alive' = FALSE
    /\ allocated' = {}
    /\ large' = <<>>
    /\ quota' = quota - LargeUnits
    /\ held' = {}
    /\ UNCHANGED <<hdr, orders, stats, total, used>>

Next ==
    /\ alive
    /\ \/ /\ \/ \E size \in Sizes : slab_get(size)
             \/ \E order \in Orders : slab_get_with_order(order)
             \/ \E size \in Sizes, p \in Larges : slab_get_large(p, size)
             \/ \E a \in held : slab_put_with_order(a)
             \/ \E p \in DOMAIN large : slab_put_large(p)
          /\ UNCHANGED alive
       \/ slab_cache_destroy

Spec == Init /\ [][Next]_vars
-----------------------------------------------------------------------------
Listed == UNION {ToSet(orders[o]) : o \in Orders}
Piece(a) == a .. a + OrderSize(hdr[a].order) - 1

\* The bytes of the arena slabs in the cache are divided among the slabs in
\* the hands of callers and the free slabs, without overlap and without a
\* gap: splitting and merging neither lose memory nor give it out twice.
Tiled ==
    alive =>
    /\ \A a, b \in held \cup Listed : a # b => Piece(a) \cap Piece(b) = {}
    /\ UNION {Piece(a) : a \in held \cup Listed}
         = UNION {Address(r) .. Address(r) + SlabSize - 1 : r \in allocated}

\* Two free halves of a slab do not stay apart: slab_put merges them; and at
\* most one slab of the largest order is kept from the arena unused
\* ("Largest slab should be returned to arena").
Coalesced ==
    alive =>
    /\ \A o \in 0 .. order_max - 1 : \A a \in ToSet(orders[o]) :
          Buddy(a, o) \notin ToSet(orders[o])
    /\ Len(orders[order_max]) <= 1

HeldBytes(o) == MapThenSumSet(LAMBDA a : OrderSize(o), {a \in held : hdr[a].order = o})

\* The consistency slab_cache_check() aborts over: each order's statistics
\* are those of the slabs given out and free in it, and their sums are the
\* statistics of the whole cache.  The quota is charged with the malloc()ed
\* slabs and nothing else, down to nothing once the cache is destroyed.
StatsMatch ==
    /\ quota = LargeUnits
    /\ alive => /\ \A o \in Orders :
                      /\ stats[o].used = HeldBytes(o)
                      /\ stats[o].total = HeldBytes(o) + Len(orders[o]) * OrderSize(o)
                /\ total = Cardinality(allocated) * SlabSize + LargeBytes
                /\ total = MapThenSumSet(LAMBDA o : stats[o].total, Orders) + LargeBytes
                /\ used = MapThenSumSet(LAMBDA o : stats[o].used, Orders) + LargeBytes

\* A slab in the hands of a caller is not written to: no split, merge or
\* header update of another slab touches any byte of it.
UserMemoryUntouched ==
    [][alive' => \A x \in Addresses :
         hdr'[x] # hdr[x] => \A a \in held \cap held' : x \notin Piece(a)]_vars

\* Every header slab_put reads while it merges is the header of a slab, in
\* use or free, and not what a split, a merge or a caller's data left at that
\* address; and it can be trusted: a free slab is in exactly one list, the
\* one of its order, its header says so, that of a slab in use has the order
\* it was given out with, and every slab is aligned by its size.
BuddyIsSlab ==
    alive =>
    /\ \A a \in held : \A o \in hdr[a].order .. order_max - 1 :
          (\A i \in hdr[a].order .. o - 1 : CanMerge(Base(a, i), i))
              => Buddy(Base(a, o), o) \in held \cup Listed
    /\ \A o \in Orders : IsInjective(orders[o])
    /\ \A o \in Orders : \A a \in ToSet(orders[o]) : hdr[a] = Free(o)
    /\ \A a \in held : hdr[a].in_use = hdr[a].order + 1
    /\ \A a \in held \cup Listed : a % OrderSize(hdr[a].order) = 0

\* slab_get gives out a slab of the smallest size that holds the request and
\* the header (slab_real_size, asserted at the end of slab_get), and takes
\* it from malloc() exactly if no order would do.
BestFit ==
    [][\A size \in Sizes : slab_get(size) =>
         LET need == size + slab_sizeof
             fits == {o \in Orders : OrderSize(o) >= need}
         IN  IF fits = {}
             THEN \E p \in DOMAIN large' \ DOMAIN large : large'[p] = need /\ slab_real_size(size) = need
             ELSE \E a \in held' \ held : /\ hdr'[a].order = Min(fits)
                                          /\ slab_real_size(size) = OrderSize(Min(fits))]_vars
=============================================================================
