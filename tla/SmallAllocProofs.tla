-------------------------- MODULE SmallAllocProofs --------------------------
(***************************************************************************)
(* That smalloc and smfree use the right pools and count enough waste, for *)
(* any layout of pools and groups that SmallAllocAssumption admits, any    *)
(* amount of memory and any number of objects.                             *)
(***************************************************************************)
EXTENDS SmallAlloc, TLAPS, NumberLemmas

\* Min of a set of pools.
LEMMA MinOfPools ==
    ASSUME NEW T \in SUBSET Pools, T # {}
    PROVE  Min(T) \in T /\ \A y \in T : Min(T) <= y
<1>1. T \in SUBSET Nat
  BY SmallAllocAssumption
<1>2. \E n \in T : \A m \in T : n <= m
  BY <1>1, LeastExists
<1> QED
  BY <1>2 DEF Min

\* Max of a set of pools.
LEMMA MaxOfPools ==
    ASSUME NEW T \in SUBSET Pools, T # {}
    PROVE  Max(T) \in T /\ \A y \in T : Max(T) >= y
<1> DEFINE N == Cardinality(Pools)
           D == {N - x : x \in T}
<1>1. N \in Nat /\ \A x \in T : x \in 1 .. N
  BY SmallAllocAssumption
<1> HIDE DEF N
<1>2. D \in SUBSET Nat /\ D # {}
  BY <1>1
<1>3. PICK n \in D : \A m \in D : n <= m
  BY <1>2, LeastExists
<1>4. PICK x \in T : n = N - x
  BY <1>3
<1>5. ASSUME NEW y \in T PROVE x >= y
  <2>1. n <= N - y
    BY <1>3
  <2> QED
    BY <1>1, <1>4, <2>1
<1>6. \E z \in T : \A y \in T : z >= y
  BY <1>5
<1> QED
  BY <1>6 DEF Max

\* Every pool is in one group, with slabs of one order.
LEMMA GroupOf ==
    ASSUME NEW p \in Pools
    PROVE  /\ group(p) \in Groups /\ p \in group(p) /\ group(p) \subseteq Pools
           /\ \A q \in group(p) : group(q) = group(p) /\ slab_size[q] = slab_size[p]
           /\ \A g \in Groups : p \in g => group(p) = g
           /\ p \in Nat
<1>1. \A q \in Pools : group(q) \in Groups /\ q \in group(q)
  BY SmallAllocAssumption DEF group
<1>2. \A q \in Pools : \A g \in Groups : q \in g => group(q) = g
  BY <1>1, SmallAllocAssumption
<1>3. group(p) \subseteq Pools
  BY <1>1, SmallAllocAssumption
<1>4. \A q \in group(p) : slab_size[q] = slab_size[p]
  BY <1>1, SmallAllocAssumption
<1>5. p \in Nat
  BY SmallAllocAssumption
<1> QED
  BY <1>1, <1>2, <1>3, <1>4, <1>5

\* Larger pools of the group have larger objects and the same slabs.
LEMMA LargerPool ==
    ASSUME NEW p \in Pools, NEW q \in group(p), q >= p
    PROVE  objsize[p] <= objsize[q] /\ slab_size[p] = slab_size[q]
<1>1. q \in Pools /\ slab_size[p] = slab_size[q]
  BY GroupOf
<1>2. p \in Nat /\ q \in Nat /\ objsize[p] \in Nat /\ objsize[q] \in Nat
  BY <1>1, SmallAllocAssumption
<1>3. p = q \/ p < q
  BY <1>2
<1>4. p < q => objsize[p] < objsize[q]
  BY <1>1, SmallAllocAssumption
<1> QED
  BY <1>1, <1>2, <1>3, <1>4
-----------------------------------------------------------------------------
(***************************************************************************)
(* Active pools.  act and up stand for active and used_pool at some moment *)
(* within a call.                                                          *)
(***************************************************************************)
LastsActive(act) == act \subseteq Pools /\ \A p \in Pools : last(group(p)) \in act

Chosen(act, up) ==
    /\ up \in [Pools -> Pools]
    /\ \A p \in Pools :
          /\ up[p] \in group(p) \cap act /\ up[p] >= p
          /\ \A q \in group(p) \cap act : q >= p => up[p] <= q

\* Lowest finds a pool as long as the last pool of the group is active.
LEMMA LowestFits ==
    ASSUME NEW act, LastsActive(act), NEW p \in Pools
    PROVE  /\ Lowest(p, act) \in group(p) \cap act /\ Lowest(p, act) >= p
           /\ \A q \in group(p) \cap act : q >= p => Lowest(p, act) <= q
<1> DEFINE fit == {q \in group(p) \cap act : q >= p}
<1>1. fit \in SUBSET Pools
  BY GroupOf
<1>2. last(group(p)) \in fit
  <2>1. last(group(p)) \in group(p) /\ last(group(p)) >= p
    BY GroupOf, MaxOfPools DEF last
  <2> QED
    BY <2>1 DEF LastsActive
<1>3. Min(fit) \in fit /\ \A y \in fit : Min(fit) <= y
  BY <1>1, <1>2, MinOfPools
<1>4. Lowest(p, act) = Min(fit)
  BY <1>2 DEF Lowest
<1> QED
  BY <1>3, <1>4

\* small_mempool_update_group for the groups in which something changed
\* leaves the right choice in all of them.
LEMMA UpdateChooses ==
    ASSUME NEW act, NEW up, Chosen(act, up),
           NEW act2, LastsActive(act2), NEW changed,
           \A q \in Pools \ changed : q \in act <=> q \in act2
    PROVE  Chosen(act2, small_mempool_update_group(up, changed, act2))
<1> DEFINE new == small_mempool_update_group(up, changed, act2)
<1>1. ASSUME NEW p \in Pools
      PROVE  /\ new[p] \in Pools
             /\ new[p] \in group(p) \cap act2 /\ new[p] >= p
             /\ \A q \in group(p) \cap act2 : q >= p => new[p] <= q
  <2>0. group(p) \subseteq Pools
    BY GroupOf
  <2>1. CASE changed \cap group(p) # {}
    <3>1. new[p] = Lowest(p, act2)
      BY <2>1 DEF small_mempool_update_group
    <3> QED
      BY <2>0, <3>1, LowestFits
  <2>2. CASE changed \cap group(p) = {}
    <3>1. new[p] = up[p]
      BY <2>2 DEF small_mempool_update_group
    <3>2. group(p) \cap act2 = group(p) \cap act
      BY <2>0, <2>2
    <3> QED
      BY <2>0, <3>1, <3>2 DEF Chosen
  <2> QED
    BY <2>1, <2>2
<1>2. new \in [Pools -> Pools]
  <2>1. new = [p \in Pools |-> new[p]]
    BY DEF small_mempool_update_group
  <2> HIDE DEF new
  <2> QED
    BY <1>1, <2>1
<1> HIDE DEF new
<1>3. Chosen(act2, new)
  BY <1>1, <1>2 DEF Chosen
<1> QED
  BY <1>3 DEF new
-----------------------------------------------------------------------------
(***************************************************************************)
(* Slabs.  A slab is right if the objects in it are not larger than those  *)
(* of its pool, and their own pools have slabs of the same order.          *)
(***************************************************************************)
RightSlab(x) ==
    /\ x \in Slab
    /\ \A p \in Pools :
          x.held[p] > 0 => objsize[p] <= objsize[x.pool] /\ slab_size[p] = slab_size[x.pool]

RightSlabs(sl) ==
    /\ sl \in [DOMAIN sl -> Nat \ {0}] /\ IsFiniteSet(DOMAIN sl)
    /\ \A x \in DOMAIN sl : RightSlab(x)

\* How many slabs of the bag are like x.
Count(sl, x) == IF x \in DOMAIN sl THEN sl[x] ELSE 0

\* A slab put into a bag.
LEMMA AddSlab ==
    ASSUME NEW sl, NEW y, RightSlabs(sl), RightSlab(y)
    PROVE  /\ RightSlabs(BagAdd(sl, y))
           /\ DOMAIN BagAdd(sl, y) = DOMAIN sl \cup {y}
           /\ BagAdd(sl, y)[y] = Count(sl, y) + 1
           /\ \A z \in DOMAIN sl \ {y} : BagAdd(sl, y)[z] = sl[z]
<1> DEFINE new == BagAdd(sl, y)
<1>1. sl \in [DOMAIN sl -> Nat \ {0}]
  BY DEF RightSlabs
<1>2. DOMAIN new = DOMAIN sl \cup {y}
  BY DEF BagAdd
<1>3. new \in [DOMAIN sl \cup {y} -> Nat \ {0}]
  <2>1. CASE y \in DOMAIN sl
    <3>1. new = [e \in DOMAIN sl |-> IF e = y THEN sl[e] + 1 ELSE sl[e]]
      BY <2>1 DEF BagAdd
    <3>2. DOMAIN sl \cup {y} = DOMAIN sl
      BY <2>1
    <3> HIDE DEF new
    <3> QED
      BY <1>1, <3>1, <3>2
  <2>2. CASE y \notin DOMAIN sl
    <3>1. new = [e \in DOMAIN sl \cup {y} |-> IF e = y THEN 1 ELSE sl[e]]
      BY <2>2 DEF BagAdd
    <3> HIDE DEF new
    <3> QED
      BY <1>1, <3>1
  <2> QED
    BY <2>1, <2>2
<1>4. new[y] = Count(sl, y) + 1 /\ \A z \in DOMAIN sl \ {y} : new[z] = sl[z]
  BY <1>1 DEF BagAdd, Count
<1>5. IsFiniteSet(DOMAIN sl \cup {y})
  BY FiniteChange DEF RightSlabs
<1> HIDE DEF new
<1>6. RightSlabs(new)
  BY <1>2, <1>3, <1>5 DEF RightSlabs
<1> QED
  BY <1>2, <1>4, <1>6 DEF new

\* A slab taken from a bag.
LEMMA RemoveSlab ==
    ASSUME NEW sl, NEW x \in DOMAIN sl, RightSlabs(sl)
    PROVE  /\ RightSlabs(BagRemove(sl, x))
           /\ DOMAIN BagRemove(sl, x) \ {x} = DOMAIN sl \ {x}
           /\ Count(BagRemove(sl, x), x) = sl[x] - 1
           /\ \A z \in DOMAIN sl \ {x} : BagRemove(sl, x)[z] = sl[z]
<1> DEFINE new == BagRemove(sl, x)
<1>1. sl \in [DOMAIN sl -> Nat \ {0}]
  BY DEF RightSlabs
<1>2. CASE sl[x] = 1
  <2>1. new = [e \in DOMAIN sl \ {x} |-> sl[e]]
    BY <1>2 DEF BagRemove
  <2>2. IsFiniteSet(DOMAIN sl \ {x})
    BY FiniteChange DEF RightSlabs
  <2> HIDE DEF new
  <2>3. RightSlabs(new)
    BY <1>1, <2>1, <2>2 DEF RightSlabs
  <2> QED
    BY <1>2, <2>1, <2>3 DEF new, Count
<1>3. CASE sl[x] # 1
  <2>1. new = [e \in DOMAIN sl |-> IF e = x THEN sl[e] - 1 ELSE sl[e]]
    BY <1>3 DEF BagRemove
  <2> HIDE DEF new
  <2>2. sl[x] - 1 \in Nat \ {0}
    BY <1>1, <1>3
  <2>3. RightSlabs(new)
    BY <1>1, <2>1, <2>2 DEF RightSlabs
  <2> QED
    BY <2>1, <2>3 DEF new, Count
<1> QED
  BY <1>2, <1>3

\* One slab of a bag put in the place of another.
LEMMA ReplaceSlab ==
    ASSUME NEW sl, NEW x \in DOMAIN sl, NEW y, RightSlabs(sl), RightSlab(y)
    PROVE  RightSlabs(Replace(sl, x, y))
BY AddSlab, RemoveSlab DEF Replace

\* mempool_alloc from a larger pool of the same group puts the object into
\* a slab of that pool.
LEMMA AllocRight ==
    ASSUME NEW sl, RightSlabs(sl), NEW p \in Pools, NEW q \in group(p), q >= p,
           NEW new \in mempool_alloc(sl, p, q)
    PROVE  RightSlabs(new)
<1> DEFINE held == [r \in Pools |-> IF r = p THEN 1 ELSE 0]
           fresh == [pool |-> q, held |-> held]
           more(x) == [x EXCEPT !.held[p] = @ + 1]
<1>1. q \in Pools /\ objsize[p] <= objsize[q] /\ slab_size[p] = slab_size[q]
  BY GroupOf, LargerPool
<1>2. RightSlab(fresh)
  BY <1>1 DEF RightSlab, Slab
<1>3. ASSUME NEW x \in DOMAIN sl, x.pool = q PROVE RightSlab(more(x))
  <2>1. x \in [pool : Pools, held : [Pools -> Nat]]
    BY <1>3 DEF RightSlabs, RightSlab, Slab
  <2>2. /\ more(x) \in [pool : Pools, held : [Pools -> Nat]]
        /\ more(x).pool = q
        /\ \A r \in Pools \ {p} : more(x).held[r] = x.held[r]
    BY <1>3, <2>1
  <2>3. \A r \in Pools \ {p} :
           x.held[r] > 0 => objsize[r] <= objsize[q] /\ slab_size[r] = slab_size[q]
    BY <1>3 DEF RightSlabs, RightSlab
  <2> HIDE DEF more
  <2> QED
    BY <1>1, <2>2, <2>3 DEF RightSlab, Slab
<1>4. \/ \E x \in DOMAIN sl : x.pool = q /\ new = Replace(sl, x, more(x))
      \/ new = BagAdd(sl, fresh)
  BY DEF mempool_alloc, BagToSet
<1> HIDE DEF fresh, more
<1> QED
  BY <1>2, <1>3, <1>4, ReplaceSlab, AddSlab
-----------------------------------------------------------------------------
(***************************************************************************)
(* Waste.  A slab wastes Excess bytes on the objects of class p; WasteIs   *)
(* adds that up over a bag of slabs.                                       *)
(***************************************************************************)
Excess(x, p) == x.held[p] * (objsize[x.pool] - objsize[p])

Holding(sl, p) == {x \in DOMAIN sl : x.held[p] > 0}

Weights(sl, p) == [x \in Holding(sl, p) |-> sl[x] * Excess(x, p)]

WasteIs(sl, p, n) == SumsTo(Holding(sl, p), Weights(sl, p), n)

\* A slab's excess is a number, and nothing without objects of the class.
LEMMA ExcessType ==
    ASSUME NEW x, RightSlab(x), NEW p \in Pools
    PROVE  Excess(x, p) \in Nat /\ (~(x.held[p] > 0) => Excess(x, p) = 0)
<1> DEFINE h == x.held[p]
           d == objsize[x.pool] - objsize[p]
<1>1. h \in Nat /\ d \in Int /\ (h > 0 => d \in Nat)
  <2>1. x.pool \in Pools /\ x.held \in [Pools -> Nat]
    BY DEF RightSlab, Slab
  <2>2. objsize[p] \in Nat /\ objsize[x.pool] \in Nat
    BY <2>1, SmallAllocAssumption
  <2>3. x.held[p] > 0 => objsize[p] <= objsize[x.pool]
    BY DEF RightSlab
  <2> QED
    BY <2>1, <2>2, <2>3
<1>2. Excess(x, p) = h * d
  BY DEF Excess
<1>3. ~(h > 0) => h = 0
  BY <1>1
<1>4. x.held[p] > 0 <=> h > 0
  OBVIOUS
<1> HIDE DEF h, d
<1>5. h = 0 => h * d = 0
  BY <1>1
<1>6. h > 0 => h * d \in Nat
  BY <1>1
<1> QED
  BY <1>2, <1>3, <1>4, <1>5, <1>6

\* What slabs like x contribute to the waste.
LEMMA PartOfSlab ==
    ASSUME NEW sl, RightSlabs(sl), NEW p \in Pools, NEW x, RightSlab(x)
    PROVE  /\ Weights(sl, p) \in [Holding(sl, p) -> Nat]
           /\ IsFiniteSet(Holding(sl, p))
           /\ Count(sl, x) \in Nat
           /\ Part(Holding(sl, p), Weights(sl, p), x) = Count(sl, x) * Excess(x, p)
<1>1. sl \in [DOMAIN sl -> Nat \ {0}] /\ IsFiniteSet(DOMAIN sl)
  BY DEF RightSlabs
<1>2. ASSUME NEW z \in Holding(sl, p) PROVE sl[z] * Excess(z, p) \in Nat
  <2>1. sl[z] \in Nat
    BY <1>1 DEF Holding
  <2>2. Excess(z, p) \in Nat
    BY ExcessType DEF Holding, RightSlabs
  <2> QED
    BY <2>1, <2>2
<1>3. Weights(sl, p) \in [Holding(sl, p) -> Nat]
  BY <1>2 DEF Weights
<1>4. IsFiniteSet(Holding(sl, p))
  BY <1>1, FiniteChange DEF Holding
<1>5. Count(sl, x) \in Nat
  BY <1>1 DEF Count
<1>6. Excess(x, p) \in Nat
  BY ExcessType
<1>7. CASE x \in Holding(sl, p)
  BY <1>3, <1>4, <1>5, <1>7 DEF Part, Weights, Holding, Count
<1>8. CASE x \notin Holding(sl, p)
  <2>1. Part(Holding(sl, p), Weights(sl, p), x) = 0
    BY <1>8 DEF Part
  <2>2. Count(sl, x) = 0 \/ Excess(x, p) = 0
    BY <1>8, ExcessType DEF Holding, Count
  <2>3. Count(sl, x) * Excess(x, p) = 0
    BY <1>5, <1>6, <2>2
  <2> QED
    BY <1>3, <1>4, <1>5, <2>1, <2>3
<1> QED
  BY <1>7, <1>8

\* A slab more adds its excess.
LEMMA AddWaste ==
    ASSUME NEW sl, RightSlabs(sl), NEW p \in Pools, NEW y, RightSlab(y),
           NEW n, WasteIs(sl, p, n)
    PROVE  n \in Nat /\ WasteIs(BagAdd(sl, y), p, n + Excess(y, p))
<1> DEFINE new == BagAdd(sl, y)
           D == Holding(sl, p)
           w == Weights(sl, p)
           D2 == Holding(new, p)
           w2 == Weights(new, p)
<1>1. /\ RightSlabs(new) /\ DOMAIN new = DOMAIN sl \cup {y}
      /\ new[y] = Count(sl, y) + 1
      /\ \A z \in DOMAIN sl \ {y} : new[z] = sl[z]
  BY AddSlab
<1> HIDE DEF new
<1>2. D \ {y} = D2 \ {y} /\ \A z \in D \ {y} : w2[z] = w[z]
  BY <1>1 DEF Holding, Weights
<1>3. w \in [D -> Nat] /\ Count(sl, y) \in Nat /\ Part(D, w, y) = Count(sl, y) * Excess(y, p)
  BY PartOfSlab
<1>4. w2 \in [D2 -> Nat] /\ Part(D2, w2, y) = Count(new, y) * Excess(y, p)
  BY <1>1, PartOfSlab
<1>5. Count(new, y) = Count(sl, y) + 1
  BY <1>1 DEF Count
<1>6. SumsTo(D, w, n)
  BY DEF WasteIs
<1> HIDE DEF D, w, D2, w2
<1>7. n \in Nat /\ SumsTo(D2, w2, n - Part(D, w, y) + Part(D2, w2, y))
  BY <1>2, <1>3, <1>4, <1>6, SumChange
<1>8. n - Part(D, w, y) + Part(D2, w2, y) = n + Excess(y, p)
  <2> DEFINE e == Excess(y, p)
             c == Count(sl, y)
  <2>1. e \in Nat /\ c \in Nat
    BY <1>3, ExcessType
  <2>2. Part(D, w, y) = c * e /\ Part(D2, w2, y) = (c + 1) * e
    BY <1>3, <1>4, <1>5
  <2> HIDE DEF e, c
  <2>3. (c + 1) * e = c * e + e /\ c * e \in Nat
    BY <2>1
  <2>4. n - Part(D, w, y) + Part(D2, w2, y) = n + e
    BY <1>7, <2>1, <2>2, <2>3
  <2> QED
    BY <2>4 DEF e
<1> QED
  BY <1>7, <1>8 DEF WasteIs, D2, w2, new

\* A slab less takes its excess away.
LEMMA RemoveWaste ==
    ASSUME NEW sl, RightSlabs(sl), NEW p \in Pools, NEW x \in DOMAIN sl,
           NEW n, WasteIs(sl, p, n)
    PROVE  /\ n - Excess(x, p) \in Nat
           /\ WasteIs(BagRemove(sl, x), p, n - Excess(x, p))
<1> DEFINE new == BagRemove(sl, x)
           D == Holding(sl, p)
           w == Weights(sl, p)
           D2 == Holding(new, p)
           w2 == Weights(new, p)
<1>0. RightSlab(x)
  BY DEF RightSlabs
<1>1. /\ RightSlabs(new) /\ DOMAIN new \ {x} = DOMAIN sl \ {x}
      /\ Count(new, x) = sl[x] - 1
      /\ \A z \in DOMAIN sl \ {x} : new[z] = sl[z]
  BY RemoveSlab
<1> HIDE DEF new
<1>2. D \ {x} = D2 \ {x} /\ \A z \in D \ {x} : w2[z] = w[z]
  BY <1>1 DEF Holding, Weights
<1>3. w \in [D -> Nat] /\ Count(sl, x) \in Nat /\ Part(D, w, x) = Count(sl, x) * Excess(x, p)
  BY <1>0, PartOfSlab
<1>4. /\ w2 \in [D2 -> Nat] /\ Count(new, x) \in Nat
      /\ Part(D2, w2, x) = Count(new, x) * Excess(x, p)
  BY <1>0, <1>1, PartOfSlab
<1>5. Count(new, x) = Count(sl, x) - 1
  BY <1>1 DEF Count
<1>6. SumsTo(D, w, n)
  BY DEF WasteIs
<1> HIDE DEF D, w, D2, w2
<1>7. /\ n \in Nat /\ n - Part(D, w, x) \in Nat
      /\ SumsTo(D2, w2, n - Part(D, w, x) + Part(D2, w2, x))
  BY <1>2, <1>3, <1>4, <1>6, SumChange
<1>8. /\ n - Part(D, w, x) + Part(D2, w2, x) = n - Excess(x, p)
      /\ n - Excess(x, p) \in Nat
  <2> DEFINE e == Excess(x, p)
             c == Count(new, x)
  <2>1. e \in Nat /\ c \in Nat /\ Count(sl, x) = c + 1
    BY <1>0, <1>3, <1>4, <1>5, ExcessType
  <2>2. Part(D, w, x) = (c + 1) * e /\ Part(D2, w2, x) = c * e
    BY <1>3, <1>4, <2>1
  <2> HIDE DEF e, c
  <2>3. (c + 1) * e = c * e + e /\ c * e \in Nat
    BY <2>1
  <2>4. n - Part(D, w, x) + Part(D2, w2, x) = n - e /\ n - e \in Nat
    BY <1>7, <2>1, <2>2, <2>3
  <2> QED
    BY <2>4 DEF e
<1> QED
  BY <1>7, <1>8 DEF WasteIs, D2, w2, new

\* Some of the slabs do not waste more than all of them.
LEMMA FewerWaste ==
    ASSUME NEW sl, RightSlabs(sl), NEW p \in Pools, NEW n, WasteIs(sl, p, n),
           NEW S \in SUBSET DOMAIN sl
    PROVE  \E m : WasteIs([x \in S |-> sl[x]], p, m) /\ m <= n
<1> DEFINE new == [x \in S |-> sl[x]]
           D == Holding(sl, p)
           w == Weights(sl, p)
           D2 == Holding(new, p)
<1>1. D2 \in SUBSET D /\ Weights(new, p) = [x \in D2 |-> w[x]]
  BY DEF Holding, Weights
<1>2. w \in [D -> Nat] /\ IsFiniteSet(D)
  <2>1. \A x \in D : sl[x] * Excess(x, p) \in Nat
    BY ExcessType DEF Holding, RightSlabs
  <2> QED
    BY <2>1, FiniteChange DEF Weights, Holding, RightSlabs
<1>3. SumsTo(D, w, n)
  BY DEF WasteIs
<1> HIDE DEF D, w, D2
<1>4. \E m : SumsTo(D2, [x \in D2 |-> w[x]], m) /\ m <= n
  BY <1>1, <1>2, <1>3, SumSubset
<1> QED
  BY <1>1, <1>4 DEF WasteIs, D2

\* mempool_alloc wastes what pool q has more than class p needs.
LEMMA AllocWaste ==
    ASSUME NEW sl, RightSlabs(sl), NEW p \in Pools, NEW q \in group(p), q >= p,
           NEW new \in mempool_alloc(sl, p, q),
           NEW r \in Pools, NEW n, WasteIs(sl, r, n)
    PROVE  WasteIs(new, r, IF r = p THEN n + (objsize[q] - objsize[p]) ELSE n)
<1> DEFINE held == [s \in Pools |-> IF s = p THEN 1 ELSE 0]
           fresh == [pool |-> q, held |-> held]
           more(x) == [x EXCEPT !.held[p] = @ + 1]
           d == objsize[q] - objsize[p]
<1>1. q \in Pools /\ objsize[p] <= objsize[q] /\ slab_size[p] = slab_size[q]
  BY GroupOf, LargerPool
<1>2. objsize[p] \in Nat /\ objsize[q] \in Nat /\ objsize[r] \in Nat
  BY <1>1, SmallAllocAssumption
<1>3. \/ \E x \in DOMAIN sl : x.pool = q /\ new = Replace(sl, x, more(x))
      \/ new = BagAdd(sl, fresh)
  BY DEF mempool_alloc, BagToSet
<1>4. CASE new = BagAdd(sl, fresh)
  <2>1. RightSlab(fresh)
    BY <1>1 DEF RightSlab, Slab
  <2>2. Excess(fresh, r) = IF r = p THEN d ELSE 0
    BY <1>2 DEF Excess
  <2> HIDE DEF fresh
  <2>3. n \in Nat /\ WasteIs(new, r, n + Excess(fresh, r))
    BY <1>4, <2>1, AddWaste
  <2>4. n + Excess(fresh, r) = IF r = p THEN n + d ELSE n
    BY <2>2, <2>3
  <2> QED
    BY <2>3, <2>4
<1>5. ASSUME NEW x \in DOMAIN sl, x.pool = q, new = Replace(sl, x, more(x))
      PROVE  WasteIs(new, r, IF r = p THEN n + d ELSE n)
  <2>1. x \in [pool : Pools, held : [Pools -> Nat]] /\ RightSlab(x)
    BY DEF RightSlabs, RightSlab, Slab
  <2>2. /\ more(x) \in [pool : Pools, held : [Pools -> Nat]]
        /\ more(x).pool = q
        /\ more(x).held[r] = IF r = p THEN x.held[r] + 1 ELSE x.held[r]
        /\ \A s \in Pools \ {p} : more(x).held[s] = x.held[s]
    BY <1>5, <2>1
  <2>3. \A s \in Pools \ {p} :
           x.held[s] > 0 => objsize[s] <= objsize[q] /\ slab_size[s] = slab_size[q]
    BY <1>5, <2>1 DEF RightSlab
  <2> HIDE DEF more
  <2>4. RightSlab(more(x))
    BY <1>1, <2>2, <2>3 DEF RightSlab, Slab
  <2>5. Excess(more(x), r) = IF r = p THEN Excess(x, r) + d ELSE Excess(x, r)
    <3> DEFINE h == x.held[r]
               c == objsize[q] - objsize[r]
    <3>1. h \in Nat /\ c \in Int /\ Excess(x, r) = h * c
      BY <1>2, <1>5, <2>1 DEF Excess
    <3>2. Excess(more(x), r) = IF r = p THEN (h + 1) * c ELSE h * c
      BY <2>2 DEF Excess
    <3>3. r = p => c = d
      OBVIOUS
    <3> HIDE DEF h, c, d
    <3>4. (h + 1) * c = h * c + c
      BY <3>1
    <3> QED
      BY <3>1, <3>2, <3>3, <3>4
  <2>6. /\ n - Excess(x, r) \in Nat
        /\ WasteIs(BagRemove(sl, x), r, n - Excess(x, r))
    BY RemoveWaste
  <2>7. RightSlabs(BagRemove(sl, x))
    BY RemoveSlab
  <2>8. WasteIs(new, r, n - Excess(x, r) + Excess(more(x), r))
    BY <1>5, <2>4, <2>6, <2>7, AddWaste DEF Replace
  <2>9. Excess(x, r) \in Nat /\ d \in Int /\ n \in Nat
    <3>1. n \in Nat
      BY <2>1, AddWaste
    <3> QED
      BY <1>2, <2>1, <3>1, ExcessType
  <2> HIDE DEF d
  <2>10. n - Excess(x, r) + Excess(more(x), r) = IF r = p THEN n + d ELSE n
    BY <2>5, <2>9
  <2> QED
    BY <2>8, <2>10
<1> QED
  BY <1>3, <1>4, <1>5

\* RealWaste is the waste so described.
LEMMA WasteIsReal ==
    ASSUME RightSlabs(slabs), NEW p \in Pools, NEW n, WasteIs(slabs, p, n)
    PROVE  RealWaste(p) = n
<1> DEFINE D == Holding(slabs, p)
           w == Weights(slabs, p)
           Bytes(x) == slabs[x] * x.held[p] * (objsize[x.pool] - objsize[p])
<1>1. w \in [D -> Nat] /\ IsFiniteSet(D)
  <2>1. \A x \in D : slabs[x] * Excess(x, p) \in Nat
    BY ExcessType DEF Holding, RightSlabs
  <2> QED
    BY <2>1, FiniteChange DEF Weights, Holding, RightSlabs
<1>2. ASSUME NEW x \in D PROVE w[x] = Bytes(x)
  <2> DEFINE k == slabs[x]
             h == x.held[p]
             d == objsize[x.pool] - objsize[p]
  <2>1. RightSlab(x) /\ k \in Nat
    BY DEF Holding, RightSlabs
  <2>2. x.pool \in Pools /\ h \in Nat
    BY <2>1 DEF RightSlab, Slab
  <2>3. d \in Int
    BY <2>2, SmallAllocAssumption
  <2>4. w[x] = k * (h * d)
    BY DEF Weights, Excess
  <2> HIDE DEF k, h, d
  <2>5. k * (h * d) = k * h * d
    BY <2>1, <2>2, <2>3
  <2> QED
    BY <2>4, <2>5 DEF k, h, d
<1>3. RealWaste(p) = SumFunction([x \in D |-> Bytes(x)])
  BY DEF RealWaste, Holding, BagToSet
<1>4. SumsTo(D, w, n)
  BY DEF WasteIs
<1>5. w = [x \in D |-> Bytes(x)]
  <2> HIDE DEF w, D, Bytes
  <2> QED
    BY <1>1, <1>2
<1> HIDE DEF w, D, Bytes
<1> QED
  BY <1>1, <1>3, <1>4, <1>5, SumOfFunction

-----------------------------------------------------------------------------
(***************************************************************************)
(* The inductive invariant and the steps.                                  *)
(***************************************************************************)
IInv ==
    /\ LastsActive(active)
    /\ Chosen(active, used_pool)
    /\ RightSlabs(slabs)

\* small_alloc_create: the last pool of a group serves all of it.
LEMMA InitInv == Init => IInv
<1> SUFFICES ASSUME Init PROVE IInv
  OBVIOUS
<1>1. \A g \in Groups : g \in SUBSET Pools /\ g # {}
  BY SmallAllocAssumption
<1>2. \A g \in Groups : last(g) \in g /\ last(g) \in Pools /\ \A y \in g : last(g) >= y
  BY <1>1, MaxOfPools DEF last
<1>3. active = {last(g) : g \in Groups}
  BY DEF Init
<1>4. LastsActive(active)
  BY <1>2, <1>3, GroupOf DEF LastsActive
<1>5. Chosen(active, used_pool)
  <2>1. used_pool = [p \in Pools |-> last(group(p))]
    BY DEF Init
  <2>2. ASSUME NEW p \in Pools
        PROVE  /\ last(group(p)) \in group(p) \cap active /\ last(group(p)) >= p
               /\ last(group(p)) \in Pools
    BY <1>2, <1>3, GroupOf
  <2>3. ASSUME NEW p \in Pools, NEW q \in group(p) \cap active PROVE last(group(p)) <= q
    <3>1. PICK g \in Groups : q = last(g)
      BY <1>3
    <3>2. q \in g /\ q \in Pools
      BY <1>2, <3>1
    <3>3. group(q) = g /\ group(q) = group(p) /\ q \in Nat
      BY <3>2, GroupOf
    <3> QED
      BY <3>1, <3>3
  <2> QED
    BY <2>1, <2>2, <2>3 DEF Chosen
<1>6. RightSlabs(slabs)
  BY FiniteEmpty DEF Init, RightSlabs, EmptyBag, SetToBag
<1> QED
  BY <1>4, <1>5, <1>6 DEF IInv

\* small_mempool_group_sweep_sparse never gives up the last pool of a group.
LEMMA SweepRight ==
    ASSUME IInv
    PROVE  /\ LastsActive(Swept.active)
           /\ Chosen(Swept.active, Swept.used_pool)
           /\ RightSlabs(Swept.slabs)
<1> DEFINE idle == {p \in Pools : small_mempool_can_be_deactivated(p)}
           act == active \ idle
<1>1. /\ Swept.active = act
      /\ Swept.used_pool = small_mempool_update_group(used_pool, idle, act)
      /\ \E D \in SUBSET DOMAIN slabs : Swept.slabs = [x \in D |-> slabs[x]]
  BY DEF Swept, BagToSet
<1>2. \A p \in idle : p # last(group(p))
  BY DEF small_mempool_can_be_deactivated
<1>3. LastsActive(act)
  <2>1. ASSUME NEW p \in Pools PROVE last(group(p)) \notin idle
    <3>1. last(group(p)) \in group(p)
      BY GroupOf, MaxOfPools DEF last
    <3>2. group(last(group(p))) = group(p)
      BY <3>1, GroupOf
    <3> QED
      BY <1>2, <3>2
  <2> QED
    BY <2>1 DEF IInv, LastsActive
<1>4. \A q \in Pools \ idle : q \in active <=> q \in act
  OBVIOUS
<1> HIDE DEF idle, act
<1>5. Chosen(act, small_mempool_update_group(used_pool, idle, act))
  BY <1>3, <1>4, UpdateChooses DEF IInv
<1>6. RightSlabs(Swept.slabs)
  BY <1>1, FiniteChange DEF IInv, RightSlabs
<1> QED
  BY <1>1, <1>3, <1>5, <1>6

\* The end of smalloc, whether it activates the pool or not.
LEMMA AccountRight ==
    ASSUME NEW act, NEW up, LastsActive(act), Chosen(act, up),
           NEW p \in Pools, Account(p, act, up)
    PROVE  LastsActive(active') /\ Chosen(active', used_pool')
<1>1. \/ active' = act /\ used_pool' = up
      \/ /\ active' = act \cup {p}
         /\ used_pool' = small_mempool_update_group(up, {p}, act \cup {p})
  BY DEF Account
<1>2. LastsActive(act \cup {p})
  BY DEF LastsActive
<1>3. \A q \in Pools \ {p} : q \in act <=> q \in act \cup {p}
  OBVIOUS
<1>4. Chosen(act \cup {p}, small_mempool_update_group(up, {p}, act \cup {p}))
  BY <1>2, <1>3, UpdateChooses
<1> QED
  BY <1>1, <1>2, <1>4

\* smalloc: at once, after a sweep, or not at all.
LEMMA SmallocInv ==
    ASSUME IInv, NEW p \in Pools, smalloc(p)
    PROVE  IInv'
<1> DEFINE q == used_pool[p]
<1>1. q \in group(p) /\ q >= p
  BY DEF IInv, Chosen
<1>2. CASE slabs' \in mempool_alloc(slabs, p, q) /\ Account(p, active, used_pool)
  BY <1>1, <1>2, AllocRight, AccountRight DEF IInv
<1>3. CASE /\ slabs' \in mempool_alloc(Swept.slabs, p, q)
           /\ Account(p, Swept.active, Swept.used_pool)
  BY <1>1, <1>3, AllocRight, AccountRight, SweepRight DEF IInv
<1>4. CASE slabs' = Swept.slabs /\ active' = Swept.active /\ used_pool' = Swept.used_pool
  BY <1>4, SweepRight DEF IInv
<1> QED
  BY <1>2, <1>3, <1>4 DEF smalloc

\* smfree takes an object out of a slab, or the slab out of the pool.
LEMMA SmfreeInv ==
    ASSUME IInv, NEW x \in BagToSet(slabs), NEW p \in Pools, smfree(p, x)
    PROVE  IInv'
<1> DEFINE y == [x EXCEPT !.held[p] = @ - 1]
<1>1. x \in DOMAIN slabs /\ RightSlab(x) /\ x.held[p] > 0
  BY DEF IInv, RightSlabs, BagToSet, smfree
<1>2. RightSlab(y)
  <2>1. x \in [pool : Pools, held : [Pools -> Nat]]
    BY <1>1 DEF RightSlab, Slab
  <2>2. /\ y \in [pool : Pools, held : [Pools -> Nat]]
        /\ y.pool = x.pool
        /\ \A r \in Pools : y.held[r] > 0 => x.held[r] > 0
    BY <1>1, <2>1
  <2> HIDE DEF y
  <2> QED
    BY <1>1, <2>2 DEF RightSlab, Slab
<1>3. slabs' = BagRemove(slabs, x) \/ slabs' = Replace(slabs, x, y)
  BY DEF smfree
<1> HIDE DEF y
<1>4. RightSlabs(slabs')
  BY <1>1, <1>2, <1>3, ReplaceSlab, RemoveSlab DEF IInv
<1>5. UNCHANGED <<active, used_pool>>
  BY DEF smfree
<1> QED
  BY <1>4, <1>5 DEF IInv

\* Every call keeps the invariant.
LEMMA NextInv == IInv /\ [Next]_vars => IInv'
<1> SUFFICES ASSUME IInv, [Next]_vars PROVE IInv'
  OBVIOUS
<1>1. ASSUME NEW p \in Pools, smalloc(p) PROVE IInv'
  BY <1>1, SmallocInv
<1>2. ASSUME NEW n \in LargeSizes, smalloc_large(n) \/ smfree_large(n) PROVE IInv'
  BY <1>2 DEF IInv, smalloc_large, smfree_large
<1>3. ASSUME NEW x \in BagToSet(slabs), NEW p \in Pools, smfree(p, x) PROVE IInv'
  BY <1>3, SmfreeInv
<1>4. CASE small_alloc_destroy
  BY <1>4, FiniteEmpty DEF IInv, small_alloc_destroy, RightSlabs, EmptyBag, SetToBag
<1>5. CASE UNCHANGED vars
  BY <1>5 DEF IInv, vars
<1> QED
  BY <1>1, <1>2, <1>3, <1>4, <1>5 DEF Next

\* Whatever has been activated and swept, used_pool is the lowest active pool
\* of the group that is large enough, and every object lies in a slab where
\* smfree will find it with the mask of the object's own class.
THEOREM PoolsAreRight == Spec => []RightPool
<1>1. IInv => RightPool
  BY DEF IInv, RightPool, Chosen, RightSlabs, RightSlab, BagToSet
<1> QED
  BY <1>1, InitInv, NextInv, PTL DEF Spec
-----------------------------------------------------------------------------
(***************************************************************************)
(* The waste counted covers the waste of the slabs sl, class by class.     *)
(***************************************************************************)
Covered(sl) ==
    /\ waste \in [Pools -> Nat]
    /\ \A p \in Pools : \E n : WasteIs(sl, p, n) /\ n <= waste[p]

WInv == IInv /\ Covered(slabs) /\ large \in [LargeSizes -> Nat] /\ alive \in BOOLEAN

\* No slabs waste nothing.
LEMMA NoSlabsNoWaste == ASSUME NEW p PROVE WasteIs(EmptyBag, p, 0)
<1> DEFINE zeros == [x \in {} |-> 0]
<1>1. Holding(EmptyBag, p) = {}
  BY DEF Holding, EmptyBag, SetToBag
<1>2. Weights(EmptyBag, p) = zeros
  BY <1>1 DEF Weights
<1>3. SumsTo({}, zeros, 0)
  BY SumOfZeros
<1> QED
  BY <1>1, <1>2, <1>3 DEF WasteIs

\* The end of smalloc counts, for the pool u used by now, at least what the
\* pool q that gave the object wastes.
LEMMA AllocCovered ==
    ASSUME NEW sl, RightSlabs(sl), Covered(sl),
           NEW p \in Pools, NEW q \in group(p), q >= p,
           NEW new \in mempool_alloc(sl, p, q),
           NEW u \in Pools, objsize[q] <= objsize[u],
           waste' = [waste EXCEPT ![p] = waste[p] + objsize[u] - objsize[p]]
    PROVE  /\ waste' \in [Pools -> Nat]
           /\ \A r \in Pools : \E n : WasteIs(new, r, n) /\ n <= waste'[r]
<1>1. q \in Pools /\ objsize[p] <= objsize[q]
  BY GroupOf, LargerPool
<1>2. objsize[p] \in Nat /\ objsize[q] \in Nat /\ objsize[u] \in Nat
  BY <1>1, SmallAllocAssumption
<1>3. waste \in [Pools -> Nat] /\ waste[p] \in Nat
  BY DEF Covered
<1>4. waste[p] + objsize[u] - objsize[p] \in Nat
  BY <1>1, <1>2, <1>3
<1>5. waste' \in [Pools -> Nat]
  BY <1>3, <1>4
<1>6. ASSUME NEW r \in Pools PROVE \E n : WasteIs(new, r, n) /\ n <= waste'[r]
  <2>1. PICK n : WasteIs(sl, r, n) /\ n <= waste[r]
    BY DEF Covered
  <2> DEFINE m == IF r = p THEN n + (objsize[q] - objsize[p]) ELSE n
  <2>2. WasteIs(new, r, m)
    BY <2>1, AllocWaste
  <2>3. n \in Nat
    BY <2>1 DEF WasteIs, SumsTo, Adds
  <2>4. m <= waste'[r]
    <3>1. CASE r = p
      <4>1. waste'[r] = waste[p] + objsize[u] - objsize[p] /\ n <= waste[p]
        BY <1>3, <2>1, <3>1
      <4>2. m = n + (objsize[q] - objsize[p])
        BY <3>1
      <4> HIDE DEF m
      <4> QED
        BY <1>1, <1>2, <1>3, <2>3, <4>1, <4>2
    <3>2. CASE r # p
      BY <1>3, <2>1, <3>2
    <3> QED
      BY <3>1, <3>2
  <2> HIDE DEF m
  <2> QED
    BY <2>2, <2>4
<1> QED
  BY <1>5, <1>6

\* A sweep leaves fewer slabs, and no smaller pool to use.
LEMMA SweepCovered ==
    ASSUME IInv, Covered(slabs)
    PROVE  /\ Covered(Swept.slabs)
           /\ \A p \in Pools : objsize[used_pool[p]] <= objsize[Swept.used_pool[p]]
<1>1. PICK D \in SUBSET DOMAIN slabs : Swept.slabs = [x \in D |-> slabs[x]]
  BY DEF Swept, BagToSet
<1>2. Covered(Swept.slabs)
  <2>1. ASSUME NEW p \in Pools PROVE \E m : WasteIs(Swept.slabs, p, m) /\ m <= waste[p]
    <3>1. PICK n : WasteIs(slabs, p, n) /\ n <= waste[p]
      BY DEF Covered
    <3>2. PICK m : WasteIs(Swept.slabs, p, m) /\ m <= n
      BY <1>1, <3>1, FewerWaste DEF IInv
    <3>3. m \in Nat /\ n \in Nat /\ waste[p] \in Nat
      BY <3>1, <3>2 DEF WasteIs, SumsTo, Adds, Covered
    <3>4. m <= waste[p]
      BY <3>1, <3>2, <3>3
    <3> QED
      BY <3>2, <3>4
  <2> QED
    BY <2>1 DEF Covered
<1>3. ASSUME NEW p \in Pools PROVE objsize[used_pool[p]] <= objsize[Swept.used_pool[p]]
  <2> DEFINE q == used_pool[p]
             u == Swept.used_pool[p]
  <2>1. Swept.active \subseteq active
    BY DEF Swept
  <2>2. q \in group(p) /\ q \in Pools /\ \A z \in group(p) \cap active : z >= p => q <= z
    BY DEF IInv, Chosen
  <2>3. u \in group(p) \cap Swept.active /\ u >= p
    BY SweepRight DEF Chosen
  <2>4. u \in group(q) /\ u >= q
    <3>1. q <= u
      BY <2>1, <2>2, <2>3
    <3>2. group(q) = group(p) /\ q \in Nat /\ u \in Nat
      BY <2>2, <2>3, GroupOf
    <3> HIDE DEF q, u
    <3> QED
      BY <2>3, <3>1, <3>2
  <2> HIDE DEF q, u
  <2>5. objsize[q] <= objsize[u]
    BY <2>2, <2>4, LargerPool
  <2> QED
    BY <2>5 DEF q, u
<1> QED
  BY <1>2, <1>3

\* smalloc: at once, after a sweep, or not at all.
LEMMA SmallocCovered ==
    ASSUME IInv, Covered(slabs), NEW p \in Pools, smalloc(p)
    PROVE  Covered(slabs)'
<1> DEFINE q == used_pool[p]
           u == Swept.used_pool[p]
<1>1. q \in group(p) /\ q >= p /\ q \in Pools
  BY DEF IInv, Chosen
<1>2. u \in Pools
  BY SweepRight DEF Chosen
<1>3. objsize[q] <= objsize[q] /\ objsize[q] <= objsize[u]
  <2>1. objsize[q] \in Nat
    BY <1>1, SmallAllocAssumption
  <2> QED
    BY <2>1, SweepCovered
<1>4. CASE slabs' \in mempool_alloc(slabs, p, q) /\ Account(p, active, used_pool)
  <2>1. waste' = [waste EXCEPT ![p] = waste[p] + objsize[q] - objsize[p]]
    BY <1>4 DEF Account
  <2>2. RightSlabs(slabs)
    BY DEF IInv
  <2> HIDE DEF q
  <2> QED
    BY <1>1, <1>3, <1>4, <2>1, <2>2, AllocCovered DEF Covered
<1>5. CASE /\ slabs' \in mempool_alloc(Swept.slabs, p, q)
           /\ Account(p, Swept.active, Swept.used_pool)
  <2>1. waste' = [waste EXCEPT ![p] = waste[p] + objsize[u] - objsize[p]]
    BY <1>5 DEF Account
  <2>2. RightSlabs(Swept.slabs) /\ Covered(Swept.slabs)
    BY SweepRight, SweepCovered
  <2> HIDE DEF q, u
  <2> QED
    BY <1>1, <1>2, <1>3, <1>5, <2>1, <2>2, AllocCovered DEF Covered
<1>6. CASE slabs' = Swept.slabs /\ UNCHANGED waste
  BY <1>6, SweepCovered DEF Covered
<1> QED
  BY <1>4, <1>5, <1>6 DEF smalloc

\* smfree gives back what the object wastes where it lies, which its class
\* has been counted.
LEMMA SmfreeCovered ==
    ASSUME IInv, Covered(slabs), NEW x \in BagToSet(slabs), NEW p \in Pools, smfree(p, x)
    PROVE  Covered(slabs)'
<1> DEFINE y == [x EXCEPT !.held[p] = @ - 1]
           d == objsize[x.pool] - objsize[p]
           less(r) == IF r = p THEN d ELSE 0
<1>1. x \in DOMAIN slabs /\ RightSlab(x) /\ x.held[p] > 0 /\ RightSlabs(slabs)
  BY DEF IInv, RightSlabs, BagToSet, smfree
<1>2. x \in [pool : Pools, held : [Pools -> Nat]]
  BY <1>1 DEF RightSlab, Slab
<1>3. /\ y \in [pool : Pools, held : [Pools -> Nat]]
      /\ y.pool = x.pool
      /\ \A r \in Pools : y.held[r] = IF r = p THEN x.held[r] - 1 ELSE x.held[r]
      /\ \A r \in Pools : y.held[r] > 0 => x.held[r] > 0
  BY <1>1, <1>2
<1>4. slabs' = BagRemove(slabs, x) \/ slabs' = Replace(slabs, x, y)
  BY DEF smfree
<1> HIDE DEF y
<1>5. RightSlab(y)
  BY <1>1, <1>3 DEF RightSlab, Slab
<1>6. d \in Nat
  <2>1. objsize[x.pool] \in Nat /\ objsize[p] \in Nat
    BY <1>2, SmallAllocAssumption
  <2>2. objsize[p] <= objsize[x.pool]
    BY <1>1 DEF RightSlab
  <2> QED
    BY <2>1, <2>2
<1>7. ASSUME NEW r \in Pools
      PROVE  /\ Excess(x, r) \in Nat /\ Excess(y, r) \in Nat
             /\ Excess(y, r) = Excess(x, r) - less(r)
  <2> DEFINE h == x.held[r]
             c == objsize[x.pool] - objsize[r]
  <2>1. h \in Nat /\ c \in Int
    BY <1>2, SmallAllocAssumption
  <2>2. Excess(x, r) = h * c
    BY DEF Excess
  <2>3. Excess(y, r) = IF r = p THEN (h - 1) * c ELSE h * c
    BY <1>3 DEF Excess
  <2>4. Excess(x, r) \in Nat /\ Excess(y, r) \in Nat
    BY <1>1, <1>5, ExcessType
  <2>5. less(r) = IF r = p THEN c ELSE 0
    OBVIOUS
  <2> HIDE DEF h, c, less
  <2>6. (h - 1) * c = h * c - c
    BY <2>1
  <2> QED
    BY <2>1, <2>2, <2>3, <2>4, <2>5, <2>6
<1>8. waste \in [Pools -> Nat] /\ waste' = [waste EXCEPT ![p] = waste[p] - d]
  BY DEF Covered, smfree
<1>9. \A r \in Pools : waste'[r] = waste[r] - less(r) /\ less(r) \in Nat /\ waste[r] \in Nat
  BY <1>6, <1>8
<1> HIDE DEF d
<1>10. ASSUME NEW r \in Pools
       PROVE  waste'[r] \in Nat /\ \E n : WasteIs(slabs', r, n) /\ n <= waste'[r]
  <2> HIDE DEF less
  <2>1. PICK n : WasteIs(slabs, r, n) /\ n <= waste[r]
    BY DEF Covered
  <2>2. n \in Nat
    BY <2>1 DEF WasteIs, SumsTo, Adds
  <2> DEFINE e == Excess(x, r)
             f == Excess(y, r)
  <2>3. n - e \in Nat /\ WasteIs(BagRemove(slabs, x), r, n - e)
    BY <1>1, <2>1, RemoveWaste
  <2>4. RightSlabs(BagRemove(slabs, x))
    BY <1>1, RemoveSlab
  <2>5. WasteIs(Replace(slabs, x, y), r, n - e + f)
    BY <1>5, <2>3, <2>4, AddWaste DEF Replace
  <2>6. e \in Nat /\ f \in Nat /\ f = e - less(r)
    BY <1>7
  <2>7. waste'[r] = waste[r] - less(r) /\ less(r) \in Nat /\ waste[r] \in Nat
    BY <1>9
  <2> HIDE DEF e, f
  <2>8. waste'[r] \in Nat /\ n - e <= waste'[r] /\ n - e + f <= waste'[r]
    BY <2>1, <2>2, <2>3, <2>6, <2>7
  <2> QED
    BY <1>4, <2>3, <2>5, <2>8
<1>11. waste' \in [Pools -> Nat]
  BY <1>8, <1>10
<1> QED
  BY <1>10, <1>11 DEF Covered

\* Every call keeps the waste covered, and the counts natural numbers.
LEMMA NextWaste == WInv /\ [Next]_vars => WInv'
<1> SUFFICES ASSUME WInv, [Next]_vars PROVE WInv'
  OBVIOUS
<1>0. IInv /\ IInv' /\ Covered(slabs)
  BY NextInv DEF WInv
<1>1. ASSUME NEW p \in Pools, smalloc(p) PROVE WInv'
  <2>1. UNCHANGED <<large, alive>>
    BY <1>1 DEF smalloc
  <2> QED
    BY <1>0, <1>1, <2>1, SmallocCovered DEF WInv
<1>2. ASSUME NEW n \in LargeSizes, smalloc_large(n) PROVE WInv'
  BY <1>0, <1>2 DEF WInv, Covered, smalloc_large
<1>3. ASSUME NEW n \in LargeSizes, smfree_large(n) PROVE WInv'
  BY <1>0, <1>3 DEF WInv, Covered, smfree_large
<1>4. ASSUME NEW x \in BagToSet(slabs), NEW p \in Pools, smfree(p, x) PROVE WInv'
  <2>1. UNCHANGED <<large, alive>>
    BY <1>4 DEF smfree
  <2> QED
    BY <1>0, <1>4, <2>1, SmfreeCovered DEF WInv
<1>5. CASE small_alloc_destroy
  <2>1. slabs' = EmptyBag /\ alive' = FALSE /\ UNCHANGED <<waste, large>>
    BY <1>5 DEF small_alloc_destroy
  <2>2. \A p \in Pools : WasteIs(EmptyBag, p, 0) /\ 0 <= waste[p]
    BY <1>0, NoSlabsNoWaste DEF Covered
  <2> QED
    BY <1>0, <2>1, <2>2 DEF WInv, Covered
<1>6. CASE UNCHANGED vars
  BY <1>0, <1>6 DEF WInv, Covered, vars
<1> QED
  BY <1>1, <1>2, <1>3, <1>4, <1>5, <1>6 DEF Next

\* small_alloc_create starts without slabs and without waste.
LEMMA InitWaste == Init => WInv
<1> SUFFICES ASSUME Init PROVE WInv
  OBVIOUS
<1>1. slabs = EmptyBag /\ waste = [p \in Pools |-> 0]
  BY DEF Init
<1>2. Covered(slabs)
  BY <1>1, NoSlabsNoWaste DEF Covered
<1> QED
  BY <1>2, InitInv DEF WInv, Init

\* The waste a class has been counted is never less than what its objects
\* waste where they lie, so the assert in smfree holds in whatever order they
\* are freed, and no count of small_alloc turns negative.
THEOREM WasteIsCovered == Spec => [](TypeOK /\ WasteCovers)
<1>1. WInv => TypeOK
  BY DEF WInv, IInv, Covered, TypeOK, LastsActive, Chosen, RightSlabs, RightSlab, IsABag, BagToSet
<1>2. ASSUME WInv PROVE WasteCovers
  <2>1. ASSUME NEW p \in Pools PROVE RealWaste(p) <= waste[p]
    <3>1. PICK n : WasteIs(slabs, p, n) /\ n <= waste[p]
      BY <1>2 DEF WInv, Covered
    <3>2. RealWaste(p) = n
      BY <1>2, <3>1, WasteIsReal DEF WInv, IInv
    <3> QED
      BY <3>1, <3>2
  <2> QED
    BY <2>1 DEF WasteCovers
<1> QED
  BY <1>1, <1>2, InitWaste, NextWaste, PTL DEF Spec
=============================================================================
